----------------------------- MODULE AgentProofs -----------------------------
(***************************************************************************)
(* Proofs about what keeps agents at work, for every value of the          *)
(* constants: the persist loop, which keeps one going, and what teams are  *)
(* made of: their directories (Ti), supervisors (Ts), mailboxes (Mb) and   *)
(* tasks (Cr), the native teams (Nt) and the runtime of agents (Ar).       *)
(***************************************************************************)
EXTENDS PersistLoop, FiniteSetTheorems, SequenceTheorems, WellFoundedInduction, TLAPS

CONSTANTS
    Founder, Team, MaxInitFaults,                   \* TeamInit
    NumWorkers, MaxStarts, MaxTeamStops, MaxFailures,   \* TeamSupervisor, NativeTeam
    Sender, Text, MaxSends, MaxMarks, MaxKill,      \* Mailbox
    Creator, Reader, Request, MaxTasks, MaxCreates, MaxTaskChanges,    \* TaskCreation
    Process, MaxCalls,                              \* NativeTeam
    Caller, MaxAgents, MaxAgentSends,               \* AgentRuntime
    MaxFault

VARIABLES
    directory, stage, initLock, init, answer, initFaults, uses,
    coordination, manifest, pane, group, foreign, op, lost, starts, teamStops, failures,
    legacy, mail, mailLock, sender, owed, cutOff, sends, marks, mailKills,
    taskFile, history, next, configLock, depLock, creator, rebuild, finisher, given, undone,
    creates, changes, createFaults,
    nativeManifest, runs, nativeOp, overlapped, broken, uncancelled, informed, calls, nativeFaults,
    disposed, managed, agent, run, caller, swept, told, sdkFaults

Ti == INSTANCE TeamInit WITH Process <- Founder, MaxFault <- MaxInitFaults
Ts == INSTANCE TeamSupervisor WITH stops <- teamStops, MaxStops <- MaxTeamStops
Mb == INSTANCE Mailbox
Cr == INSTANCE TaskCreation WITH file <- taskFile, MaxChanges <- MaxTaskChanges
Nt == INSTANCE NativeTeam WITH op <- nativeOp
Ar == INSTANCE AgentRuntime WITH MaxSends <- MaxAgentSends

-----------------------------------------------------------------------------
(* PersistLoop.  Every decision to continue has a revision of its own, so  *)
(* that of all who were told to continue one at most still passes the      *)
(* fence, and only until the file is written again.  Whoever does has been *)
(* counted in the file, after every delivery of the loop and with a larger *)
(* loop count.                                                             *)

Followup == [session: Nat, loop: Nat]

PersistParameters == MaxLoop \in Nat /\ MaxLoops \in Nat /\ NoneFits

-----------------------------------------------------------------------------
(* The inductive invariant.                                                *)

FollowupsTyped ==
    /\ file \in File \cup {None}
    /\ hook \in [Hook -> Decision]
    /\ session \in Nat
    /\ followups \in Seq(Followup)

\* The follow-ups of the running loop are counted in its file, and the host's count is past
\* that of each of them.
FollowupsCounted ==
    /\ \A i \in DOMAIN followups: followups[i].session <= session
    /\ file = None => followups = <<>>
    /\ file # None =>
         /\ file.consumed <= file.max
         /\ Cardinality(Since(session)) <= file.consumed
         /\ \A i \in Since(session): file.host # None /\ followups[i].loop <= file.host
    /\ \A i, j \in Since(session): i < j => followups[i].loop < followups[j].loop

\* A decision that still holds was counted and has not been delivered.
Due(h) ==
    /\ file.active /\ ~ file.done
    /\ hook[h].session = session /\ hook[h].loop = file.host
    /\ Cardinality(Since(session)) < file.consumed
    /\ \A i \in Since(session): followups[i].loop < hook[h].loop

\* Decisions have revisions of their own, none that the file has not reached.
DecisionsFit ==
    /\ \A h \in Hook: hook[h].pc = "fence" =>
         /\ file # None /\ hook[h].revision <= file.revision
         /\ hook[h].revision = file.revision => Due(h)
    /\ \A g, h \in Hook: hook[g].pc = "fence" /\ hook[h].pc = "fence" /\ hook[g].revision = hook[h].revision => g = h

PersistInv == FollowupsTyped /\ FollowupsCounted /\ DecisionsFit

-----------------------------------------------------------------------------
LEMMA SinceFinite ==
    ASSUME FollowupsTyped, NEW s
    PROVE  IsFiniteSet(Since(s)) /\ Cardinality(Since(s)) \in Nat
  <1>1. Since(s) \in SUBSET (1 .. Len(followups)) /\ Len(followups) \in Nat
    BY DEF FollowupsTyped, Since
  <1>2. IsFiniteSet(1 .. Len(followups))
    BY <1>1, FS_Interval
  <1> QED  BY <1>1, <1>2, FS_Subset, FS_CardinalityType

-----------------------------------------------------------------------------
LEMMA Elements ==
    ASSUME FollowupsTyped
    PROVE  \A i \in DOMAIN followups: followups[i].session \in Nat /\ followups[i].loop \in Nat
  <1>1. followups \in Seq(Followup)
    BY DEF FollowupsTyped
  <1>2. \A i \in DOMAIN followups: followups[i] \in Followup
    BY <1>1
  <1> QED  BY <1>2 DEF Followup

LEMMA Distinct ==
    ASSUME PersistParameters
    PROVE  \A f \in File: f # None
  BY DEF PersistParameters, NoneFits

\* What a command writes is a file: the fields it changes, and those it keeps.
LEMMA Written ==
    ASSUME NEW f \in File, NEW g, NEW c \in Nat, NEW t \in Nat \cup {None},
           NEW e \in Event \cup Nat \cup {None},
           \/ g = [f EXCEPT !.active = FALSE, !.revision = @ + 1, !.legacy = FALSE]
           \/ g = [f EXCEPT !.active = FALSE, !.done = TRUE, !.revision = @ + 1, !.legacy = FALSE]
           \/ g = [f EXCEPT !.consumed = c, !.host = t, !.revision = @ + 1, !.event = e, !.legacy = FALSE]
    PROVE  g \in File
  <1>1. f.revision + 1 \in Nat
    BY DEF File
  <1> DEFINE n == f.revision + 1
  <1>2. n \in Nat
    BY <1>1
  <1>3. \/ g = [f EXCEPT !.active = FALSE, !.revision = n, !.legacy = FALSE]
        \/ g = [f EXCEPT !.active = FALSE, !.done = TRUE, !.revision = n, !.legacy = FALSE]
        \/ g = [f EXCEPT !.consumed = c, !.host = t, !.revision = n, !.event = e, !.legacy = FALSE]
    OBVIOUS
  <1> HIDE DEF n
  <1>4. TRUE \in BOOLEAN /\ FALSE \in BOOLEAN
    OBVIOUS
  <1> QED  BY <1>2, <1>3, <1>4, Zenon DEF File

LEMMA PersistInitially ==
    ASSUME PersistParameters, Init
    PROVE  PersistInv
  <1>1. \A s: Since(s) = {}
    BY DEF Init, Since
  <1>2. Cardinality({}) = 0
    BY FS_EmptySet
  <1>3. FollowupsTyped
    <2>1. LegacyFiles \subseteq File
      <3>1. {0} \subseteq Nat /\ {0, 1} \subseteq Nat /\ {None} \subseteq Nat \cup {None}
            /\ {None} \subseteq Event \cup Nat \cup {None} /\ {TRUE} \subseteq BOOLEAN
        OBVIOUS
      <3> QED  BY <3>1, Zenon DEF LegacyFiles, File
    <2>2. NoDecision \in Decision
      BY DEF NoDecision, Decision
    <2>3. <<>> \in Seq(Followup)
      OBVIOUS
    <2> QED  BY <2>1, <2>2, <2>3 DEF Init, FollowupsTyped
  <1>4. FollowupsCounted
    <2>1. \A f \in LegacyFiles: f.consumed <= f.max
      BY DEF LegacyFiles, PersistParameters
    <2>2. \A f \in LegacyFiles: 0 <= f.consumed
      BY DEF LegacyFiles
    <2>3. DOMAIN followups = {}
      BY DEF Init
    <2> QED  BY <1>1, <1>2, <2>1, <2>2, <2>3 DEF Init, FollowupsCounted
  <1>5. DecisionsFit
    BY DEF Init, DecisionsFit, NoDecision
  <1> QED  BY <1>3, <1>4, <1>5 DEF PersistInv

\* A start: the count of the new loop begins at nothing, and every decision made before it
\* has a revision the file is past.
LEMMA StartKeeps ==
    ASSUME PersistParameters, PersistInv, NEW max \in 1 .. MaxLoops, Start(max)
    PROVE  PersistInv'
  <1> DEFINE old == IF file = None THEN 0 ELSE file.revision
  <1>0. old \in Nat /\ (file # None => old = file.revision)
    BY DEF PersistInv, FollowupsTyped, File
  <1>1. /\ session' = session + 1 /\ UNCHANGED <<hook, followups>>
        /\ file' \in File /\ file'.revision = old + 1 /\ file'.consumed = 0 /\ file'.max = max
    BY <1>0 DEF Start, File
  <1> HIDE DEF old
  <1>2. FollowupsTyped'
    BY <1>1 DEF PersistInv, FollowupsTyped
  <1>3. Since(session)' = {}
    BY <1>1, Elements DEF Since, PersistInv, FollowupsTyped, FollowupsCounted
  <1>4. FollowupsCounted'
    <2>1. Cardinality({}) = 0
      BY FS_EmptySet
    <2>2. \A i \in DOMAIN followups': followups'[i].session <= session'
      BY <1>1, Elements DEF PersistInv, FollowupsTyped, FollowupsCounted
    <2>3. file'.consumed <= file'.max /\ 0 <= file'.consumed /\ file' # None
      BY <1>1, Distinct DEF PersistParameters
    <2> QED  BY <1>1, <1>3, <2>1, <2>2, <2>3 DEF FollowupsCounted
  <1>5. DecisionsFit'
    <2>1. \A h \in Hook: hook[h].revision \in Nat
      BY DEF PersistInv, FollowupsTyped, Decision
    <2>2. file' # None
      BY <1>1, Distinct
    <2>3. \A h \in Hook: hook[h].pc = "fence" => hook[h].revision <= old
      BY <1>0 DEF PersistInv, DecisionsFit
    <2>4. \A h \in Hook: hook[h].pc = "fence" =>
             hook[h].revision <= file'.revision /\ hook[h].revision # file'.revision
      BY <1>0, <1>1, <2>1, <2>3
    <2> QED  BY <1>1, <2>1, <2>2, <2>4 DEF PersistInv, DecisionsFit
  <1> QED  BY <1>2, <1>4, <1>5 DEF PersistInv

\* A stop or a completion: the file counts what it counted, and is past every decision.
LEMMA EndKeeps ==
    ASSUME PersistParameters, PersistInv, Stop \/ Complete
    PROVE  PersistInv'
  <1>1. UNCHANGED <<hook, session, followups>> /\ file # None /\ file' # None /\ file' \in File
        /\ file'.revision = file.revision + 1 /\ file'.consumed = file.consumed
        /\ file'.max = file.max /\ file'.host = file.host
    <2>1. file \in File /\ UNCHANGED <<hook, session, followups>>
      BY DEF Stop, Complete, PersistInv, FollowupsTyped
    <2>2. /\ file' \in File /\ file'.revision = file.revision + 1 /\ file'.consumed = file.consumed
          /\ file'.max = file.max /\ file'.host = file.host
      <3>1. CASE Stop
        <4>1. file' = [file EXCEPT !.active = FALSE, !.revision = @ + 1, !.legacy = FALSE]
          BY <3>1 DEF Stop
        <4>2. file' \in File
          BY <2>1, <4>1, Written
        <4> QED  BY <2>1, <4>1, <4>2 DEF File
      <3>2. CASE Complete
        <4>1. file' = [file EXCEPT !.active = FALSE, !.done = TRUE, !.revision = @ + 1, !.legacy = FALSE]
          BY <3>2 DEF Complete
        <4>2. file' \in File
          BY <2>1, <4>1, Written
        <4> QED  BY <2>1, <4>1, <4>2 DEF File
      <3> QED  BY <3>1, <3>2
    <2> QED  BY <2>1, <2>2, Distinct
  <1>2. FollowupsTyped'
    BY <1>1 DEF PersistInv, FollowupsTyped
  <1>3. Since(session)' = Since(session)
    BY <1>1 DEF Since
  <1>4. FollowupsCounted'
    BY <1>1, <1>3 DEF PersistInv, FollowupsCounted
  <1>5. DecisionsFit'
    BY <1>1 DEF PersistInv, FollowupsTyped, DecisionsFit, File, Decision
  <1> QED  BY <1>2, <1>4, <1>5 DEF PersistInv

LEMMA ExpireKeeps ==
    ASSUME PersistInv, UNCHANGED <<file, hook, session, followups>>
    PROVE  PersistInv'
  <1>1. Since(session)' = Since(session)
    BY DEF Since
  <1>2. \A h: Due(h)' <=> Due(h)
    BY <1>1 DEF Due
  <1>3. FollowupsTyped' /\ FollowupsCounted'
    BY <1>1 DEF PersistInv, FollowupsTyped, FollowupsCounted
  <1>4. DecisionsFit'
    BY <1>2 DEF PersistInv, DecisionsFit
  <1> QED  BY <1>3, <1>4 DEF PersistInv

\* A decision is counted before it is given, under a revision nobody has.
LEMMA DecideKeeps ==
    ASSUME PersistParameters, PersistInv, NEW h \in Hook, NEW status, NEW n \in 0 .. MaxLoop, NEW e \in Event \cup {n},
           Decide(h, status, n, e)
    PROVE  PersistInv'
  <1>1. CASE ~ Continues(status, n, e)
    BY <1>1, ExpireKeeps DEF Decide
  <1>2. CASE Continues(status, n, e)
    <2> DEFINE d == [pc |-> "fence", session |-> session, loop |-> n, revision |-> file.revision + 1]
    <2>1. /\ UNCHANGED <<session, followups>> /\ hook[h].pc = "idle"
          /\ file' = Granted(n, e)
          /\ hook' = [hook EXCEPT ![h] = d] \/ hook' = hook
      BY <1>2 DEF Decide
    <2>2. file \in File /\ file # None /\ file.active /\ ~ file.done
      BY <1>2 DEF Continues, PersistInv, FollowupsTyped
    <2>3. Baseline(n) \in Nat /\ file.consumed <= Baseline(n) /\ Baseline(n) < file.max /\ n \in Nat
      BY <1>2, <2>2 DEF Baseline, Max2, Continues, File, PersistParameters
    <2>4. file.host # None => n > file.host
      BY <1>2 DEF Continues
    <2>5. file' \in File /\ file' # None /\ file'.active /\ ~ file'.done
      <3>1. e \in Event \cup Nat \cup {None}
        BY <2>3
      <3>2. file' \in File /\ file'.active /\ ~ file'.done
        <4>1. file' = [file EXCEPT !.consumed = Baseline(n) + 1, !.host = n, !.revision = @ + 1,
                                   !.event = e, !.legacy = FALSE]
          BY <2>1 DEF Granted
        <4>2. file' \in File
          <5>1. Baseline(n) + 1 \in Nat /\ n \in Nat \cup {None}
            BY <2>3
          <5> QED  BY <2>2, <3>1, <4>1, <5>1, Written
        <4> QED  BY <2>2, <4>1, <4>2 DEF File
      <3> QED  BY <3>2, Distinct
    <2>6. file'.consumed = Baseline(n) + 1 /\ file'.host = n /\ file'.max = file.max
          /\ file'.revision = file.revision + 1
      BY <2>1, <2>2 DEF Granted, File
    <2>7. d \in Decision
      BY <2>2, <2>3 DEF Decision, File, PersistInv, FollowupsTyped
    <2>8. FollowupsTyped'
      BY <2>1, <2>5, <2>7 DEF PersistInv, FollowupsTyped
    <2>9. Since(session)' = Since(session)
      BY <2>1 DEF Since
    <2>10. \A i \in Since(session): followups[i].loop < n
      <3> SUFFICES ASSUME NEW i \in Since(session)
                   PROVE  followups[i].loop < n
        OBVIOUS
      <3>1. file.host # None /\ followups[i].loop <= file.host
        BY <2>2 DEF PersistInv, FollowupsCounted
      <3>2. followups[i].loop \in Nat
        BY Elements DEF PersistInv, Since
      <3> QED  BY <2>2, <2>3, <2>4, <3>1, <3>2 DEF File
    <2>11. IsFiniteSet(Since(session)) /\ Cardinality(Since(session)) \in Nat
      BY SinceFinite DEF PersistInv
    <2>12. Cardinality(Since(session)) < file'.consumed
      BY <2>2, <2>3, <2>6, <2>11 DEF PersistInv, FollowupsCounted, File
    <2>13. FollowupsCounted'
      <3>1. \A i \in DOMAIN followups': followups'[i].session <= session'
        BY <2>1 DEF PersistInv, FollowupsCounted
      <3>2. file'.consumed <= file'.max
        BY <2>2, <2>3, <2>6 DEF File
      <3>3. \A i \in Since(session): followups[i].loop <= n
        BY <2>3, <2>10, Elements DEF PersistInv, Since
      <3>4. Cardinality(Since(session)) <= file'.consumed
        BY <2>3, <2>6, <2>11, <2>12
      <3>5. n # None
        BY <2>3 DEF PersistParameters, NoneFits
      <3> QED  BY <2>1, <2>5, <2>6, <2>9, <3>1, <3>2, <3>3, <3>4, <3>5 DEF PersistInv, FollowupsCounted
    <2>14. DecisionsFit'
      <3>1. CASE hook' = hook
        <4>1. \A g \in Hook: hook[g].pc = "fence" => hook[g].revision < file'.revision
          BY <2>2, <2>6 DEF PersistInv, FollowupsTyped, DecisionsFit, File, Decision
        <4>2. file'.revision \in Nat /\ \A g \in Hook: hook[g].revision \in Nat
          BY <2>5 DEF PersistInv, FollowupsTyped, File, Decision
        <4> QED  BY <2>5, <3>1, <4>1, <4>2 DEF PersistInv, DecisionsFit
      <3>2. CASE hook' = [hook EXCEPT ![h] = d]
        <4>1. hook'[h] = d /\ \A g \in Hook: g # h => hook'[g] = hook[g]
          BY <3>2 DEF PersistInv, FollowupsTyped
        <4>2. Due(h)'
          BY <2>1, <2>5, <2>6, <2>9, <2>10, <2>12, <4>1 DEF Due
        <4>3. ASSUME NEW g \in Hook, hook'[g].pc = "fence", g # h
              PROVE  hook'[g].revision < file'.revision
          BY <2>2, <2>6, <4>1, <4>3 DEF PersistInv, FollowupsTyped, DecisionsFit, File, Decision
        <4>4. hook'[h].revision = file'.revision /\ file'.revision \in Nat
          BY <2>5, <2>6, <4>1 DEF File
        <4>5. \A g \in Hook: hook'[g].revision \in Nat
          BY <2>8 DEF FollowupsTyped, Decision
        <4>6. \A f, g \in Hook: hook'[f].pc = "fence" /\ hook'[g].pc = "fence"
                                /\ hook'[f].revision = hook'[g].revision => f = g
          BY <4>1, <4>3, <4>4, <4>5 DEF PersistInv, DecisionsFit
        <4>7. \A g \in Hook: hook'[g].pc = "fence" =>
                 /\ file' # None /\ hook'[g].revision <= file'.revision
                 /\ (hook'[g].revision = file'.revision) => Due(g)'
          BY <2>5, <4>2, <4>3, <4>4, <4>5
        <4> QED  BY <4>6, <4>7 DEF DecisionsFit
      <3> QED  BY <2>1, <3>1, <3>2
    <2> QED  BY <2>8, <2>13, <2>14 DEF PersistInv
  <1> QED  BY <1>1, <1>2

\* A delivery: the decision whose revision the file has is the only one, so what it counted
\* is still owed, and no decision is left that could be delivered.
LEMMA DeliverKeeps ==
    ASSUME PersistParameters, PersistInv, NEW h \in Hook, Deliver(h)
    PROVE  PersistInv' /\ FollowupsBounded
  <1> DEFINE f == [session |-> hook[h].session, loop |-> hook[h].loop]
             m == Len(followups) + 1
  <1>1. UNCHANGED <<file, session>> /\ hook[h].pc = "fence" /\ hook' = [hook EXCEPT ![h] = NoDecision]
    BY DEF Deliver
  <1>2. \A g \in Hook: hook'[g].pc = "fence" => g # h /\ hook[g].pc = "fence" /\ hook'[g] = hook[g]
    BY <1>1 DEF NoDecision, PersistInv, FollowupsTyped
  <1>3. hook' \in [Hook -> Decision]
    BY <1>1 DEF NoDecision, PersistInv, FollowupsTyped, Decision
  <1>4. CASE followups' = followups
    <2>1. Since(session)' = Since(session)
      BY <1>1, <1>4 DEF Since
    <2>2. FollowupsTyped' /\ FollowupsCounted'
      BY <1>1, <1>3, <1>4, <2>1 DEF PersistInv, FollowupsTyped, FollowupsCounted
    <2>3. \A g \in Hook: hook'[g].pc = "fence" => (Due(g)' <=> Due(g))
      BY <1>1, <1>2, <1>4, <2>1 DEF Due
    <2>4. DecisionsFit'
      BY <1>1, <1>2, <2>3 DEF PersistInv, DecisionsFit
    <2> QED  BY <1>4, <2>2, <2>4 DEF PersistInv, FollowupsBounded
  <1>5. CASE Fence(hook[h]) /\ followups' = Append(followups, f)
    <2>1. file # None /\ file \in File /\ file.active /\ ~ file.done /\ hook[h].revision = file.revision
      BY <1>5 DEF Fence, PersistInv, FollowupsTyped
    <2>2. Due(h)
      BY <1>1, <2>1 DEF PersistInv, DecisionsFit
    <2>3. hook[h].session = session /\ hook[h].loop = file.host /\ hook[h].loop \in Nat /\ session \in Nat
      BY <2>2 DEF Due, PersistInv, FollowupsTyped, Decision
    <2>4. f \in Followup
      BY <2>3 DEF Followup
    <2>5. followups \in Seq(Followup) /\ Len(followups) \in Nat
      BY DEF PersistInv, FollowupsTyped
    <2>6. /\ Len(followups') = m /\ DOMAIN followups' = 1 .. m /\ DOMAIN followups = 1 .. Len(followups)
          /\ followups'[m] = f /\ \A i \in DOMAIN followups: followups'[i] = followups[i]
      BY <1>5, <2>4, <2>5
    <2>7. FollowupsTyped'
      BY <1>1, <1>3, <1>5, <2>4 DEF PersistInv, FollowupsTyped
    <2>8. Since(session)' = Since(session) \cup {m} /\ m \notin Since(session)
          /\ Since(session) \in SUBSET DOMAIN followups
      BY <1>1, <2>3, <2>5, <2>6 DEF Since
    <2>9. IsFiniteSet(Since(session)) /\ Cardinality(Since(session)) \in Nat
      BY SinceFinite DEF PersistInv
    <2>10. Cardinality(Since(session)') = Cardinality(Since(session)) + 1
      BY <2>8, <2>9, FS_AddElement
    <2>11. Cardinality(Since(session)') <= file.consumed /\ file.consumed <= file.max
      BY <2>1, <2>2, <2>9, <2>10 DEF Due, PersistInv, FollowupsCounted, File
    <2>12. \A i \in Since(session): followups[i].loop < f.loop
      BY <2>2 DEF Due
    <2>13. \A i, j \in Since(session)': i < j => followups'[i].loop < followups'[j].loop
      BY <2>5, <2>6, <2>8, <2>12 DEF PersistInv, FollowupsCounted
    <2>14. \A i \in Since(session)': file.host # None /\ followups'[i].loop <= file.host
      BY <2>1, <2>3, <2>6, <2>8 DEF PersistInv, FollowupsCounted, PersistParameters, NoneFits
    <2>15. \A i \in DOMAIN followups': followups'[i].session <= session'
      BY <1>1, <2>3, <2>5, <2>6 DEF PersistInv, FollowupsCounted
    <2>16. FollowupsCounted'
      <3> DEFINE S == Since(session)'
      <3>1. Cardinality(S) <= file'.consumed /\ file'.consumed <= file'.max
        BY <1>1, <2>11
      <3>2. \A i \in S: file'.host # None /\ followups'[i].loop <= file'.host
        BY <1>1, <2>14
      <3>3. \A i, j \in S: i < j => followups'[i].loop < followups'[j].loop
        BY <2>13
      <3>4. file' # None
        BY <1>1, <2>1
      <3> QED  BY <3>1, <3>2, <3>3, <3>4, <2>15 DEF FollowupsCounted
    <2>17. DecisionsFit'
      <3>1. \A g \in Hook: hook'[g].pc = "fence" => hook'[g].revision # file'.revision
        BY <1>1, <1>2, <2>1 DEF PersistInv, DecisionsFit
      <3> QED  BY <1>1, <1>2, <2>1, <3>1 DEF PersistInv, DecisionsFit
    <2>18. FollowupsBounded
      BY <2>1, <2>3, <2>6, <2>11, <2>13 DEF FollowupsBounded
    <2> QED  BY <2>7, <2>16, <2>17, <2>18 DEF PersistInv
  <1> QED  BY <1>4, <1>5 DEF Deliver

\* Every step keeps the invariant, and those that deliver, deliver within the bounds.
LEMMA PersistStepKeeps ==
    ASSUME PersistParameters, PersistInv, [Next]_vars
    PROVE  PersistInv' /\ FollowupsBounded
  <1>1. CASE UNCHANGED vars
    BY <1>1, ExpireKeeps DEF vars, FollowupsBounded
  <1>2. ASSUME NEW max \in 1 .. MaxLoops, Start(max)
        PROVE  PersistInv' /\ FollowupsBounded
    BY <1>2, StartKeeps DEF Start, FollowupsBounded
  <1>3. CASE Stop \/ Complete
    BY <1>3, EndKeeps DEF Stop, Complete, FollowupsBounded
  <1>4. CASE Expire
    BY <1>4, ExpireKeeps DEF Expire, FollowupsBounded
  <1>5. ASSUME NEW h \in Hook, NEW status, NEW n \in 0 .. MaxLoop, NEW e \in Event \cup {n},
               Decide(h, status, n, e)
        PROVE  PersistInv' /\ FollowupsBounded
    BY <1>5, DecideKeeps DEF Decide, FollowupsBounded
  <1>6. ASSUME NEW h \in Hook, Deliver(h)
        PROVE  PersistInv' /\ FollowupsBounded
    BY <1>6, DeliverKeeps
  <1> QED  BY <1>1, <1>2, <1>3, <1>4, <1>5, <1>6 DEF Next

-----------------------------------------------------------------------------
\* However stop events are repeated, reordered and interleaved with the operator's commands,
\* what the hook delivers belongs to the loop that runs, within its budget and with growing
\* loop counts (persist/decision.ts, the fence of hooks/omcu-hook.mjs).
THEOREM FollowupsFence == ASSUME PersistParameters PROVE Spec => [][FollowupsBounded]_vars
  <1>1. Init => PersistInv
    BY PersistInitially
  <1>2. PersistInv /\ [Next]_vars => PersistInv' /\ [FollowupsBounded]_vars
    BY PersistStepKeeps
  <1> QED  BY <1>1, <1>2, PTL DEF Spec

-----------------------------------------------------------------------------
(* TeamInit.  Whoever holds the lock is the one between its begin and its  *)
(* end; a stage is that of its holder until a fault.                       *)

Inits == [pc: {"idle", "look", "mkdir", "mark", "fill", "publish", "adopt", "remove", "done"},
          team: Team \cup {None}, marked: BOOLEAN, alive: BOOLEAN]
Directories == [team: Team, whole: BOOLEAN, used: BOOLEAN]
Stages == [marker: BOOLEAN, whole: BOOLEAN]

InitTyped ==
    /\ init \in [Founder -> Inits]
    /\ answer \in [Founder -> Team \cup {None, "failed"}]
    /\ stage \in [Founder -> Stages \cup {None}]
    /\ directory \in Directories \cup {None}
    /\ initLock \in Founder \cup {None}
    /\ initFaults \in Nat
    /\ uses \subseteq {"task", "removal"}

\* How far a call has come.
Stands(p) ==
    /\ initLock = p <=> init[p].alive /\ init[p].pc \notin {"idle", "done"}
    /\ initLock = p => init[p].team \in Team
    /\ init[p].alive /\ init[p].pc \in {"mark", "fill", "publish"} => stage[p] # None
    /\ init[p].alive /\ init[p].pc = "publish" => stage[p].whole
    /\ init[p].alive /\ init[p].pc \in {"idle", "look", "mkdir"} => stage[p] = None
    /\ ~ init[p].alive => initFaults > 0
    /\ init[p].alive /\ init[p].pc \in {"adopt", "remove"} => initFaults > 0
    /\ stage[p] # None /\ initLock # p => initFaults > 0

Given(p) ==
    answer[p] \in Team =>
        /\ answer[p] = init[p].team /\ directory # None /\ directory.team = answer[p]
        /\ ~ (init[p].alive /\ init[p].pc # "done")

TeamInitInv ==
    /\ InitTyped
    /\ \A p \in Founder: Stands(p)
    /\ "removal" \notin uses =>
         /\ directory # None => directory.whole
         /\ \A p \in Founder: Given(p)

LEMMA TeamInitImplied == ASSUME TeamInitInv PROVE Ti!InitIsWhole
  BY DEF TeamInitInv, Stands, Given, Ti!InitIsWhole

LEMMA TeamInitInitially == ASSUME Ti!NoneFits, Ti!Init PROVE TeamInitInv
  BY DEF Ti!NoneFits, Ti!Init, TeamInitInv, InitTyped, Inits, Stands, Given

\* A call takes a step, for which it holds the lock, or takes it.
LEMMA TeamInitGoes ==
    ASSUME Ti!NoneFits, TeamInitInv, NEW p \in Founder, initLock \in {p, None}, InitTyped',
           \A q \in Founder: q # p => /\ init'[q] = init[q] /\ stage'[q] = stage[q]
                                     /\ answer'[q] = answer[q],
           initLock' \in {p, None}, initFaults' >= initFaults, uses' = uses,
           directory' # directory => directory = None /\ directory'.whole,
           Stands(p)', "removal" \notin uses => Given(p)'
    PROVE  TeamInitInv'
  <1>1. ASSUME NEW q \in Founder, q # p PROVE Stands(q)'
    <2>1. Stands(q) /\ initLock # q /\ initLock' # q /\ initFaults \in Nat /\ initFaults' \in Nat
      BY <1>1 DEF Ti!NoneFits, TeamInitInv, InitTyped
    <2>2. init[q] \in Inits /\ init'[q] = init[q] /\ stage'[q] = stage[q]
      BY <1>1 DEF TeamInitInv, InitTyped
    <2>  QED  BY <2>1, <2>2 DEF Stands, Inits
  <1>2. ASSUME NEW q \in Founder, q # p, "removal" \notin uses PROVE Given(q)'
    <2>1. /\ Given(q)
          /\ directory # None => directory' = directory
          /\ init'[q] = init[q] /\ answer'[q] = answer[q] /\ init[q] \in Inits
      BY <1>2 DEF TeamInitInv, InitTyped
    <2>  QED  BY <2>1 DEF Given, Inits
  <1>  QED  BY <1>1, <1>2 DEF TeamInitInv

LEMMA TeamInitStepKeeps == ASSUME Ti!NoneFits, TeamInitInv, [Ti!Next]_Ti!vars PROVE TeamInitInv'
  <1>a. None \notin Stages /\ None \notin Directories
    BY DEF Ti!NoneFits, Stages, Directories
  <1>0. /\ InitTyped
        /\ \A p \in Founder: Stands(p)
        /\ "removal" \notin uses =>
             /\ directory # None => directory.whole
             /\ \A p \in Founder: Given(p)
    BY DEF TeamInitInv
  <1>1. CASE UNCHANGED Ti!vars
    <2>1. InitTyped'
      BY <1>0, <1>1 DEF InitTyped, Ti!vars
    <2>2. \A p \in Founder: Stands(p)'
      BY <1>0, <1>1 DEF Stands, Ti!vars
    <2>3. \A p \in Founder: Given(p) => Given(p)'
      BY <1>1 DEF Given, Ti!vars
    <2>4. uses' = uses /\ directory' = directory
      BY <1>1 DEF Ti!vars
    <2>  QED  BY <1>0, <2>1, <2>2, <2>3, <2>4 DEF TeamInitInv
  <1>2. ASSUME NEW p \in Founder, Ti!Begin(p) PROVE TeamInitInv'
    <2>1. Stands(p) /\ ("removal" \notin uses => Given(p)) /\ init[p] \in Inits
      BY <1>0 DEF InitTyped
    <2>2. InitTyped'
      <3>1. PICK t \in Team: init' = [init EXCEPT ![p].pc = "look", ![p].team = t]
        BY <1>2 DEF Ti!Begin
      <3>2. init' \in [Founder -> Inits]
        BY <1>0, <2>1, <3>1 DEF InitTyped, Inits
      <3>  QED  BY <1>0, <1>2, <3>2 DEF InitTyped, Ti!Begin
    <2>3. /\ initLock \in {p, None} /\ initLock' \in {p, None}
          /\ uses' = uses /\ initFaults' >= initFaults
          /\ directory' # directory => directory = None /\ directory'.whole
          /\ \A q \in Founder: q # p => /\ init'[q] = init[q] /\ stage'[q] = stage[q]
                                       /\ answer'[q] = answer[q]
      BY <1>0, <1>2, <2>1 DEF Ti!Begin, Ti!At,
                InitTyped, Inits, Stages, Directories, Stands
    <2>4. Stands(p)'
      BY <1>0, <1>2, <2>1 DEF Ti!Begin, Ti!At,
                InitTyped, Inits, Stages, Stands, Ti!NoneFits
    <2>5. "removal" \notin uses => Given(p)'
      BY <1>0, <1>2, <2>1 DEF Ti!Begin, Ti!At,
                InitTyped, Inits, Stages, Directories, Stands, Given, Ti!NoneFits
    <2>  QED  BY <2>2, <2>3, <2>4, <2>5, TeamInitGoes
  <1>3. ASSUME NEW p \in Founder, Ti!Existing(p) PROVE TeamInitInv'
    <2>1. Stands(p) /\ ("removal" \notin uses => Given(p)) /\ init[p] \in Inits
      BY <1>0 DEF InitTyped
    <2>2. InitTyped'
      BY <1>0, <1>3, <2>1 DEF Ti!Existing, Ti!At, Ti!Answers, Ti!Goto, Ti!Exact,
                InitTyped, Inits, Stages, Directories, Stands
    <2>3. /\ initLock \in {p, None} /\ initLock' \in {p, None}
          /\ uses' = uses /\ initFaults' >= initFaults
          /\ directory' # directory => directory = None /\ directory'.whole
          /\ \A q \in Founder: q # p => /\ init'[q] = init[q] /\ stage'[q] = stage[q]
                                       /\ answer'[q] = answer[q]
      BY <1>0, <1>3, <2>1 DEF Ti!Existing, Ti!At, Ti!Answers, Ti!Goto, Ti!Exact,
                InitTyped, Inits, Stages, Directories, Stands
    <2>4. Stands(p)'
      BY <1>0, <1>3, <2>1 DEF Ti!Existing, Ti!At, Ti!Answers, Ti!Goto, Ti!Exact,
                InitTyped, Inits, Stages, Stands, Ti!NoneFits
    <2>5. "removal" \notin uses => Given(p)'
      BY <1>0, <1>3, <2>1 DEF Ti!Existing, Ti!At, Ti!Answers, Ti!Goto, Ti!Exact,
                InitTyped, Inits, Stages, Directories, Stands, Given, Ti!NoneFits
    <2>  QED  BY <2>2, <2>3, <2>4, <2>5, TeamInitGoes
  <1>4. ASSUME NEW p \in Founder, Ti!CleanupStages(p) PROVE TeamInitInv'
    BY <1>4 DEF Ti!CleanupStages, Ti!At, Ti!Goto, Ti!Sweepable, Ti!NoneFits, TeamInitInv, InitTyped,
                Inits, Stages, Directories, Stands, Given
  <1>5. ASSUME NEW p \in Founder, Ti!CleanupFails(p) PROVE TeamInitInv'
    <2>1. Stands(p) /\ ("removal" \notin uses => Given(p)) /\ init[p] \in Inits
      BY <1>0 DEF InitTyped
    <2>2. InitTyped'
      BY <1>0, <1>5, <2>1 DEF Ti!CleanupFails, Ti!At, Ti!Answers, Ti!Goto, Ti!Fault,
                InitTyped, Inits, Stages, Directories, Stands
    <2>3. /\ initLock \in {p, None} /\ initLock' \in {p, None}
          /\ uses' = uses /\ initFaults' >= initFaults
          /\ directory' # directory => directory = None /\ directory'.whole
          /\ \A q \in Founder: q # p => /\ init'[q] = init[q] /\ stage'[q] = stage[q]
                                       /\ answer'[q] = answer[q]
      BY <1>0, <1>5, <2>1 DEF Ti!CleanupFails, Ti!At, Ti!Answers, Ti!Goto, Ti!Fault,
                InitTyped, Inits, Stages, Directories, Stands
    <2>4. Stands(p)'
      BY <1>0, <1>5, <2>1 DEF Ti!CleanupFails, Ti!At, Ti!Answers, Ti!Goto, Ti!Fault,
                InitTyped, Inits, Stages, Stands, Ti!NoneFits
    <2>5. "removal" \notin uses => Given(p)'
      BY <1>0, <1>5, <2>1 DEF Ti!CleanupFails, Ti!At, Ti!Answers, Ti!Goto, Ti!Fault,
                InitTyped, Inits, Stages, Directories, Stands, Given, Ti!NoneFits
    <2>  QED  BY <2>2, <2>3, <2>4, <2>5, TeamInitGoes
  <1>6. ASSUME NEW p \in Founder, Ti!MakeStage(p) PROVE TeamInitInv'
    <2>1. Stands(p) /\ ("removal" \notin uses => Given(p)) /\ init[p] \in Inits
      BY <1>0 DEF InitTyped
    <2>2. InitTyped'
      BY <1>0, <1>6, <2>1 DEF Ti!MakeStage, Ti!At, Ti!Goto,
                InitTyped, Inits, Stages, Directories, Stands
    <2>3. /\ initLock \in {p, None} /\ initLock' \in {p, None}
          /\ uses' = uses /\ initFaults' >= initFaults
          /\ directory' # directory => directory = None /\ directory'.whole
          /\ \A q \in Founder: q # p => /\ init'[q] = init[q] /\ stage'[q] = stage[q]
                                       /\ answer'[q] = answer[q]
      BY <1>0, <1>6, <2>1 DEF Ti!MakeStage, Ti!At, Ti!Goto,
                InitTyped, Inits, Stages, Directories, Stands
    <2>4. Stands(p)'
      <3>1. stage'[p] \in Stages /\ stage'[p] # None
        <4>1. stage'[p] = [marker |-> FALSE, whole |-> FALSE]
          BY <1>0, <1>6 DEF Ti!MakeStage, InitTyped
        <4>2. stage'[p] \in Stages
          BY <4>1 DEF Stages
        <4>  QED  BY <1>a, <4>2
      <3>  QED  BY <1>0, <1>6, <2>1, <3>1 DEF Ti!MakeStage, Ti!At, Ti!Goto,
                  InitTyped, Inits, Stands
    <2>5. "removal" \notin uses => Given(p)'
      BY <1>0, <1>6, <2>1 DEF Ti!MakeStage, Ti!At, Ti!Goto,
                InitTyped, Inits, Stages, Directories, Stands, Given, Ti!NoneFits
    <2>  QED  BY <2>2, <2>3, <2>4, <2>5, TeamInitGoes
  <1>7. ASSUME NEW p \in Founder, Ti!WriteMarker(p) PROVE TeamInitInv'
    <2>1. Stands(p) /\ ("removal" \notin uses => Given(p)) /\ init[p] \in Inits
      BY <1>0 DEF InitTyped
    <2>2. InitTyped'
      <3>1. /\ init' = [init EXCEPT ![p].pc = "fill", ![p].marked = TRUE]
            /\ stage' = [stage EXCEPT ![p].marker = TRUE]
            /\ UNCHANGED <<directory, initLock, answer, initFaults, uses>>
        BY <1>7 DEF Ti!WriteMarker
      <3>2. stage[p] \in Stages
        BY <1>0, <1>7, <2>1 DEF Ti!WriteMarker, Ti!At, InitTyped, Stands
      <3>3. stage' \in [Founder -> Stages \cup {None}]
        BY <1>0, <3>1, <3>2 DEF InitTyped, Stages
      <3>4. init' \in [Founder -> Inits]
        BY <1>0, <2>1, <3>1 DEF InitTyped, Inits
      <3>  QED  BY <1>0, <3>1, <3>3, <3>4 DEF InitTyped
    <2>3. /\ initLock \in {p, None} /\ initLock' \in {p, None}
          /\ uses' = uses /\ initFaults' >= initFaults
          /\ directory' # directory => directory = None /\ directory'.whole
          /\ \A q \in Founder: q # p => /\ init'[q] = init[q] /\ stage'[q] = stage[q]
                                       /\ answer'[q] = answer[q]
      BY <1>0, <1>7, <2>1 DEF Ti!WriteMarker, Ti!At, Ti!Goto,
                InitTyped, Inits, Stages, Directories, Stands
    <2>4. Stands(p)'
      <3>1. stage'[p] \in Stages /\ stage'[p] # None
        BY <1>0, <1>a, <1>7, <2>1 DEF Ti!WriteMarker, Ti!At, Ti!Goto,
                  InitTyped, Stages, Stands, Inits
      <3>  QED  BY <1>0, <1>7, <2>1, <3>1 DEF Ti!WriteMarker, Ti!At, Ti!Goto,
                  InitTyped, Inits, Stands
    <2>5. "removal" \notin uses => Given(p)'
      BY <1>0, <1>7, <2>1 DEF Ti!WriteMarker, Ti!At, Ti!Goto,
                InitTyped, Inits, Stages, Directories, Stands, Given, Ti!NoneFits
    <2>  QED  BY <2>2, <2>3, <2>4, <2>5, TeamInitGoes
  <1>8. ASSUME NEW p \in Founder, Ti!WriteMarkerFails(p) PROVE TeamInitInv'
    <2>1. Stands(p) /\ ("removal" \notin uses => Given(p)) /\ init[p] \in Inits
      BY <1>0 DEF InitTyped
    <2>2. InitTyped'
      BY <1>0, <1>8, <2>1 DEF Ti!WriteMarkerFails, Ti!At, Ti!Goto, Ti!Fault,
                InitTyped, Inits, Stages, Directories, Stands
    <2>3. /\ initLock \in {p, None} /\ initLock' \in {p, None}
          /\ uses' = uses /\ initFaults' >= initFaults
          /\ directory' # directory => directory = None /\ directory'.whole
          /\ \A q \in Founder: q # p => /\ init'[q] = init[q] /\ stage'[q] = stage[q]
                                       /\ answer'[q] = answer[q]
      BY <1>0, <1>8, <2>1 DEF Ti!WriteMarkerFails, Ti!At, Ti!Goto, Ti!Fault,
                InitTyped, Inits, Stages, Directories, Stands
    <2>4. Stands(p)'
      BY <1>0, <1>8, <2>1 DEF Ti!WriteMarkerFails, Ti!At, Ti!Goto, Ti!Fault,
                InitTyped, Inits, Stages, Stands, Ti!NoneFits
    <2>5. "removal" \notin uses => Given(p)'
      BY <1>0, <1>8, <2>1 DEF Ti!WriteMarkerFails, Ti!At, Ti!Goto, Ti!Fault,
                InitTyped, Inits, Stages, Directories, Stands, Given, Ti!NoneFits
    <2>  QED  BY <2>2, <2>3, <2>4, <2>5, TeamInitGoes
  <1>9. ASSUME NEW p \in Founder, Ti!Fill(p) PROVE TeamInitInv'
    <2>1. Stands(p) /\ ("removal" \notin uses => Given(p)) /\ init[p] \in Inits
      BY <1>0 DEF InitTyped
    <2>2. InitTyped'
      BY <1>0, <1>9, <2>1 DEF Ti!Fill, Ti!At, Ti!Goto,
                InitTyped, Inits, Stages, Directories, Stands
    <2>3. /\ initLock \in {p, None} /\ initLock' \in {p, None}
          /\ uses' = uses /\ initFaults' >= initFaults
          /\ directory' # directory => directory = None /\ directory'.whole
          /\ \A q \in Founder: q # p => /\ init'[q] = init[q] /\ stage'[q] = stage[q]
                                       /\ answer'[q] = answer[q]
      BY <1>0, <1>9, <2>1 DEF Ti!Fill, Ti!At, Ti!Goto,
                InitTyped, Inits, Stages, Directories, Stands
    <2>4. Stands(p)'
      <3>1. stage'[p] \in Stages /\ stage'[p] # None /\ stage'[p].whole
        BY <1>0, <1>a, <1>9, <2>1 DEF Ti!Fill, Ti!At, Ti!Goto,
                  InitTyped, Stages, Stands, Inits
      <3>  QED  BY <1>0, <1>9, <2>1, <3>1 DEF Ti!Fill, Ti!At, Ti!Goto,
                  InitTyped, Inits, Stands
    <2>5. "removal" \notin uses => Given(p)'
      BY <1>0, <1>9, <2>1 DEF Ti!Fill, Ti!At, Ti!Goto,
                InitTyped, Inits, Stages, Directories, Stands, Given, Ti!NoneFits
    <2>  QED  BY <2>2, <2>3, <2>4, <2>5, TeamInitGoes
  <1>10. ASSUME NEW p \in Founder, Ti!FillFails(p) PROVE TeamInitInv'
    <2>1. Stands(p) /\ ("removal" \notin uses => Given(p)) /\ init[p] \in Inits
      BY <1>0 DEF InitTyped
    <2>2. InitTyped'
      BY <1>0, <1>10, <2>1 DEF Ti!FillFails, Ti!At, Ti!Goto, Ti!Fault,
                InitTyped, Inits, Stages, Directories, Stands
    <2>3. /\ initLock \in {p, None} /\ initLock' \in {p, None}
          /\ uses' = uses /\ initFaults' >= initFaults
          /\ directory' # directory => directory = None /\ directory'.whole
          /\ \A q \in Founder: q # p => /\ init'[q] = init[q] /\ stage'[q] = stage[q]
                                       /\ answer'[q] = answer[q]
      BY <1>0, <1>10, <2>1 DEF Ti!FillFails, Ti!At, Ti!Goto, Ti!Fault,
                InitTyped, Inits, Stages, Directories, Stands
    <2>4. Stands(p)'
      BY <1>0, <1>10, <2>1 DEF Ti!FillFails, Ti!At, Ti!Goto, Ti!Fault,
                InitTyped, Inits, Stages, Stands, Ti!NoneFits
    <2>5. "removal" \notin uses => Given(p)'
      BY <1>0, <1>10, <2>1 DEF Ti!FillFails, Ti!At, Ti!Goto, Ti!Fault,
                InitTyped, Inits, Stages, Directories, Stands, Given, Ti!NoneFits
    <2>  QED  BY <2>2, <2>3, <2>4, <2>5, TeamInitGoes
  <1>11. ASSUME NEW p \in Founder, Ti!Publish(p) PROVE TeamInitInv'
    <2>1. Stands(p) /\ ("removal" \notin uses => Given(p)) /\ init[p] \in Inits
      BY <1>0 DEF InitTyped
    <2>2. InitTyped'
      BY <1>0, <1>11, <2>1 DEF Ti!Publish, Ti!At, Ti!Goto, Ti!Answers, Ti!Renamed,
                InitTyped, Inits, Stages, Directories, Stands
    <2>3. /\ initLock \in {p, None} /\ initLock' \in {p, None}
          /\ uses' = uses /\ initFaults' >= initFaults
          /\ directory' # directory => directory = None /\ directory'.whole
          /\ \A q \in Founder: q # p => /\ init'[q] = init[q] /\ stage'[q] = stage[q]
                                       /\ answer'[q] = answer[q]
      BY <1>0, <1>11, <2>1 DEF Ti!Publish, Ti!At, Ti!Goto, Ti!Answers, Ti!Renamed,
                InitTyped, Inits, Stages, Directories, Stands
    <2>4. Stands(p)'
      BY <1>0, <1>11, <2>1 DEF Ti!Publish, Ti!At, Ti!Goto, Ti!Answers, Ti!Renamed,
                InitTyped, Inits, Stages, Stands, Ti!NoneFits
    <2>5. "removal" \notin uses => Given(p)'
      <3>1. /\ init[p].team \in Team /\ init'[p].team = init[p].team /\ init'[p].pc = "done"
            /\ answer'[p] = init[p].team
        BY <1>0, <1>11, <2>1 DEF Ti!Publish, Ti!At, Ti!Answers, Ti!Goto, InitTyped, Inits, Stands
      <3>2. directory'.team = init[p].team /\ directory' \in Directories
        BY <1>11, <2>2, <1>0, <2>1 DEF Ti!Publish, Ti!Renamed, Directories, InitTyped, Stages, Stands, Ti!At, Inits
      <3>  QED  BY <1>a, <3>1, <3>2 DEF Given
    <2>  QED  BY <2>2, <2>3, <2>4, <2>5, TeamInitGoes
  <1>12. ASSUME NEW p \in Founder, Ti!PublishUncertain(p) PROVE TeamInitInv'
    <2>1. Stands(p) /\ ("removal" \notin uses => Given(p)) /\ init[p] \in Inits
      BY <1>0 DEF InitTyped
    <2>2. InitTyped'
      <3>1. init' \in [Founder -> Inits]
        BY <1>0, <1>12, <2>1 DEF Ti!PublishUncertain, Ti!Goto, InitTyped, Inits
      <3>2. stage[p] \in Stages /\ init[p].team \in Team
        BY <1>0, <1>12, <2>1 DEF Ti!PublishUncertain, Ti!At, InitTyped, Inits, Stands
      <3>3. directory' \in Directories \cup {None} /\ stage' \in [Founder -> Stages \cup {None}]
        <4>1. CASE Ti!Renamed(p)
          BY <1>0, <3>2, <4>1 DEF Ti!Renamed, InitTyped, Directories, Stages
        <4>2. CASE UNCHANGED <<directory, stage>>
          BY <1>0, <4>2 DEF InitTyped
        <4>  QED  BY <1>12, <4>1, <4>2 DEF Ti!PublishUncertain
      <3>  QED  BY <1>0, <1>12, <3>1, <3>3 DEF InitTyped, Ti!PublishUncertain, Ti!Fault
    <2>3. /\ initLock \in {p, None} /\ initLock' \in {p, None}
          /\ uses' = uses /\ initFaults' >= initFaults
          /\ directory' # directory => directory = None /\ directory'.whole
          /\ \A q \in Founder: q # p => /\ init'[q] = init[q] /\ stage'[q] = stage[q]
                                       /\ answer'[q] = answer[q]
      BY <1>0, <1>12, <2>1 DEF Ti!PublishUncertain, Ti!At, Ti!Goto, Ti!Renamed, Ti!Fault,
                InitTyped, Inits, Stages, Directories, Stands
    <2>4. Stands(p)'
      BY <1>0, <1>12, <2>1 DEF Ti!PublishUncertain, Ti!At, Ti!Goto, Ti!Renamed, Ti!Fault,
                InitTyped, Inits, Stages, Stands, Ti!NoneFits
    <2>5. "removal" \notin uses => Given(p)'
      BY <1>0, <1>12, <2>1 DEF Ti!PublishUncertain, Ti!At, Ti!Goto, Ti!Renamed, Ti!Fault,
                InitTyped, Inits, Stages, Directories, Stands, Given, Ti!NoneFits
    <2>  QED  BY <2>2, <2>3, <2>4, <2>5, TeamInitGoes
  <1>13. ASSUME NEW p \in Founder, Ti!Adopt(p) PROVE TeamInitInv'
    <2>1. Stands(p) /\ ("removal" \notin uses => Given(p)) /\ init[p] \in Inits
      BY <1>0 DEF InitTyped
    <2>2. InitTyped'
      BY <1>0, <1>13, <2>1 DEF Ti!Adopt, Ti!At, Ti!Goto, Ti!Answers, Ti!Exact,
                InitTyped, Inits, Stages, Directories, Stands
    <2>3. /\ initLock \in {p, None} /\ initLock' \in {p, None}
          /\ uses' = uses /\ initFaults' >= initFaults
          /\ directory' # directory => directory = None /\ directory'.whole
          /\ \A q \in Founder: q # p => /\ init'[q] = init[q] /\ stage'[q] = stage[q]
                                       /\ answer'[q] = answer[q]
      BY <1>0, <1>13, <2>1 DEF Ti!Adopt, Ti!At, Ti!Goto, Ti!Answers, Ti!Exact,
                InitTyped, Inits, Stages, Directories, Stands
    <2>4. Stands(p)'
      BY <1>0, <1>13, <2>1 DEF Ti!Adopt, Ti!At, Ti!Goto, Ti!Answers, Ti!Exact,
                InitTyped, Inits, Stages, Stands, Ti!NoneFits
    <2>5. "removal" \notin uses => Given(p)'
      BY <1>0, <1>13, <2>1 DEF Ti!Adopt, Ti!At, Ti!Goto, Ti!Answers, Ti!Exact,
                InitTyped, Inits, Stages, Directories, Stands, Given, Ti!NoneFits
    <2>  QED  BY <2>2, <2>3, <2>4, <2>5, TeamInitGoes
  <1>14. ASSUME NEW p \in Founder, Ti!Remove(p) PROVE TeamInitInv'
    <2>1. Stands(p) /\ ("removal" \notin uses => Given(p)) /\ init[p] \in Inits
      BY <1>0 DEF InitTyped
    <2>2. InitTyped'
      BY <1>0, <1>14, <2>1 DEF Ti!Remove, Ti!At, Ti!Goto, Ti!Answers, Ti!Removable,
                InitTyped, Inits, Stages, Directories, Stands
    <2>3. /\ initLock \in {p, None} /\ initLock' \in {p, None}
          /\ uses' = uses /\ initFaults' >= initFaults
          /\ directory' # directory => directory = None /\ directory'.whole
          /\ \A q \in Founder: q # p => /\ init'[q] = init[q] /\ stage'[q] = stage[q]
                                       /\ answer'[q] = answer[q]
      BY <1>0, <1>14, <2>1 DEF Ti!Remove, Ti!At, Ti!Goto, Ti!Answers, Ti!Removable,
                InitTyped, Inits, Stages, Directories, Stands
    <2>4. Stands(p)'
      BY <1>0, <1>14, <2>1 DEF Ti!Remove, Ti!At, Ti!Goto, Ti!Answers, Ti!Removable,
                InitTyped, Inits, Stages, Stands, Ti!NoneFits
    <2>5. "removal" \notin uses => Given(p)'
      BY <1>0, <1>14, <2>1 DEF Ti!Remove, Ti!At, Ti!Goto, Ti!Answers, Ti!Removable,
                InitTyped, Inits, Stages, Directories, Stands, Given, Ti!NoneFits
    <2>  QED  BY <2>2, <2>3, <2>4, <2>5, TeamInitGoes
  <1>15. ASSUME NEW p \in Founder, Ti!RemoveFails(p) PROVE TeamInitInv'
    <2>1. Stands(p) /\ ("removal" \notin uses => Given(p)) /\ init[p] \in Inits
      BY <1>0 DEF InitTyped
    <2>2. InitTyped'
      <3>1. init' \in [Founder -> Inits]
        BY <1>0, <1>15, <2>1 DEF Ti!RemoveFails, Ti!Answers, Ti!Goto, InitTyped, Inits
      <3>2. stage[p] \in Stages
        BY <1>0, <1>15 DEF Ti!RemoveFails, InitTyped
      <3>3. stage' \in [Founder -> Stages \cup {None}]
        <4>1. PICK m \in {FALSE, stage[p].marker}:
                stage' = [stage EXCEPT ![p] = [marker |-> m, whole |-> FALSE]]
          BY <1>15 DEF Ti!RemoveFails
        <4>2. [marker |-> m, whole |-> FALSE] \in Stages
          BY <3>2 DEF Stages
        <4>  QED  BY <1>0, <4>1, <4>2 DEF InitTyped
      <3>  QED  BY <1>0, <1>15, <3>1, <3>3 DEF InitTyped, Ti!RemoveFails, Ti!Answers, Ti!Fault
    <2>3. /\ initLock \in {p, None} /\ initLock' \in {p, None}
          /\ uses' = uses /\ initFaults' >= initFaults
          /\ directory' # directory => directory = None /\ directory'.whole
          /\ \A q \in Founder: q # p => /\ init'[q] = init[q] /\ stage'[q] = stage[q]
                                       /\ answer'[q] = answer[q]
      BY <1>0, <1>15, <2>1 DEF Ti!RemoveFails, Ti!At, Ti!Goto, Ti!Answers, Ti!Fault,
                InitTyped, Inits, Stages, Directories, Stands
    <2>4. Stands(p)'
      BY <1>0, <1>15, <2>1 DEF Ti!RemoveFails, Ti!At, Ti!Goto, Ti!Answers, Ti!Fault,
                InitTyped, Inits, Stages, Stands, Ti!NoneFits
    <2>5. "removal" \notin uses => Given(p)'
      BY <1>0, <1>15, <2>1 DEF Ti!RemoveFails, Ti!At, Ti!Goto, Ti!Answers, Ti!Fault,
                InitTyped, Inits, Stages, Directories, Stands, Given, Ti!NoneFits
    <2>  QED  BY <2>2, <2>3, <2>4, <2>5, TeamInitGoes
  <1>16. ASSUME NEW p \in Founder, Ti!Kill(p) PROVE TeamInitInv'
    <2>1. Stands(p) /\ ("removal" \notin uses => Given(p)) /\ init[p] \in Inits
      BY <1>0 DEF InitTyped
    <2>2. InitTyped'
      <3>1. init' \in [Founder -> Inits]
        BY <1>0, <1>16, <2>1 DEF Ti!Kill, InitTyped, Inits
      <3>  QED  BY <1>0, <1>16, <3>1 DEF InitTyped, Ti!Kill, Ti!Fault
    <2>3. /\ initLock \in {p, None} /\ initLock' \in {p, None}
          /\ uses' = uses /\ initFaults' >= initFaults
          /\ directory' # directory => directory = None /\ directory'.whole
          /\ \A q \in Founder: q # p => /\ init'[q] = init[q] /\ stage'[q] = stage[q]
                                       /\ answer'[q] = answer[q]
      BY <1>0, <1>16, <2>1 DEF Ti!Kill, Ti!Fault,
                InitTyped, Inits, Stages, Directories, Stands
    <2>4. Stands(p)'
      BY <1>0, <1>16, <2>1 DEF Ti!Kill, Ti!Fault,
                InitTyped, Inits, Stages, Stands, Ti!NoneFits
    <2>5. "removal" \notin uses => Given(p)'
      BY <1>0, <1>16, <2>1 DEF Ti!Kill, Ti!Fault,
                InitTyped, Inits, Stages, Directories, Stands, Given, Ti!NoneFits
    <2>  QED  BY <2>2, <2>3, <2>4, <2>5, TeamInitGoes
  <1>17. CASE Ti!CreateTask
    BY <1>17 DEF Ti!CreateTask, Ti!NoneFits, TeamInitInv, InitTyped,
                Inits, Stages, Directories, Stands, Given
  <1>18. CASE Ti!RemoveTeam
    BY <1>18 DEF Ti!RemoveTeam, Ti!NoneFits, TeamInitInv, InitTyped,
                Inits, Stages, Directories, Stands, Given
  <1> QED  BY <1>1, <1>2, <1>3, <1>4, <1>5, <1>6, <1>7, <1>8, <1>9, <1>10, <1>11, <1>12, <1>13,
              <1>14, <1>15, <1>16, <1>17, <1>18 DEF Ti!Next

\* Unless a team was removed, its directory is there whole or not at all, and whoever was answered
\* with a team has the one of its own task; a stage stays behind only after a failure or a kill
\* (team/state-root.ts).
THEOREM TeamsWhole == ASSUME Ti!NoneFits PROVE Ti!Spec => []Ti!InitIsWhole
  <1>1. TeamInitInv /\ [Ti!Next]_Ti!vars => TeamInitInv'
    BY TeamInitStepKeeps
  <1>2. Ti!Init => TeamInitInv
    BY TeamInitInitially
  <1>3. TeamInitInv => Ti!InitIsWhole
    BY TeamInitImplied
  <1> QED  BY <1>1, <1>2, <1>3, PTL DEF Ti!Spec

-----------------------------------------------------------------------------
(* TeamSupervisor.  A pane that is up has its worker's own group; a start  *)
(* that is rolled back has given up its directory before it ends the       *)
(* session, and there is no session any more when groups are ended.        *)

SupervisorParameters == NumWorkers \in Nat \ {0} /\ Ts!NoneFits

SupervisorPc ==
    {"idle", "stage", "publish", "open", "launch", "observe", "undo", "mark", "session",
     "endSession", "term", "kill", "finish", "forget"}

SupervisorCalls ==
    [call: {"start", "stop", None}, pc: SupervisorPc,
     next: 1 .. (NumWorkers + 1), bound: SUBSET Ts!Worker, aliens: SUBSET Ts!Worker]

SupervisorTyped ==
    /\ coordination \in {"none", "staged", "published"}
    /\ manifest \in Ts!Manifest \cup {None}
    /\ pane \in [Ts!Worker -> {"none", "shell", "up", "dead"}]
    /\ group \in [Ts!Worker -> SUBSET {"leader", "child"}]
    /\ foreign \subseteq Ts!Worker
    /\ op \in SupervisorCalls
    /\ lost \in BOOLEAN

OwnGroups == \A w \in Ts!Worker: pane[w] = "up" => "leader" \in group[w] /\ w \notin foreign

\* How far a call has come.
Underway ==
    /\ op.pc = "idle" => op.call = None
    /\ op.pc \in {"stage", "publish", "open", "launch", "observe", "undo", "forget"} => op.call = "start"
    /\ op.pc \in {"mark", "session", "finish"} => op.call = "stop"
    /\ op.pc \in {"stage", "publish"} => op.next = 1
    /\ op.pc \in {"launch", "observe"} => op.next \in Ts!Worker
    /\ op.pc = "open" /\ op.next # 1 => manifest # None
    /\ op.pc \in {"endSession", "term", "kill"} => op.call \in {"start", "stop"}

Ending ==
    /\ op.pc \in {"term", "kill", "forget"} => ~ Ts!Session
    /\ op.call = "start" /\ op.pc \in {"endSession", "term", "kill", "forget"} => coordination = "none"
    /\ op.call = "stop" => manifest # None
    /\ op.call = "stop" /\ op.pc \in {"endSession", "term", "kill"} => op.bound \cap op.aliens = {}
    /\ op.call = "start" /\ manifest # None => ~ manifest.stopped

SupervisorInv ==
    /\ SupervisorTyped /\ OwnGroups /\ Underway /\ Ending
    /\ Ts!StoppedIsGone /\ Ts!FailedStartLeavesNothing

LEMMA SupervisorImplied ==
    ASSUME SupervisorInv
    PROVE  Ts!SignalsOwnGroups /\ Ts!StoppedIsGone /\ Ts!FailedStartLeavesNothing
  BY DEF SupervisorInv, Ending, Ts!SignalsOwnGroups

LEMMA RestIs ==
    ASSUME SupervisorParameters
    PROVE  /\ Ts!Rest \in SupervisorCalls /\ Ts!Rest.pc = "idle" /\ Ts!Rest.call = None
           /\ Ts!Rest.next = 1 /\ Ts!Rest.bound = {} /\ Ts!Rest.aliens = {}
  <1>1. 1 \in 1 .. (NumWorkers + 1)
    BY DEF SupervisorParameters
  <1>  QED  BY <1>1 DEF Ts!Rest, SupervisorCalls, SupervisorPc

LEMMA SupervisorInitially == ASSUME SupervisorParameters, Ts!Init PROVE SupervisorInv
  <1>1. /\ \A w \in Ts!Worker: pane[w] = "none"
        /\ pane \in [Ts!Worker -> {"none", "shell", "up", "dead"}]
        /\ group \in [Ts!Worker -> SUBSET {"leader", "child"}]
    BY DEF Ts!Init
  <1>2. op = Ts!Rest /\ op \in SupervisorCalls /\ op.pc = "idle" /\ op.call = None
        /\ None \notin {"start", "stop"}
    BY RestIs DEF SupervisorParameters, Ts!Init, Ts!NoneFits
  <1>3. SupervisorTyped
    BY <1>1, <1>2 DEF SupervisorTyped, Ts!Init
  <1>  QED  BY <1>1, <1>2, <1>3
            DEF SupervisorInv, OwnGroups, Underway, Ending, Ts!Init, Ts!Session,
                Ts!StoppedIsGone, Ts!FailedStartLeavesNothing

CallGoes(l, x) ==
    /\ op' \in SupervisorCalls /\ op'.pc = l /\ op'.call = x.call /\ op'.next = x.next
    /\ op'.bound = x.bound /\ op'.aliens = x.aliens

LEMMA Gone ==
    ASSUME SupervisorInv, NEW l \in SupervisorPc, Ts!Goto(l)
    PROVE  CallGoes(l, op)
  BY DEF SupervisorInv, SupervisorTyped, Ts!Goto, SupervisorCalls, CallGoes

LEMMA RestGone ==
    ASSUME SupervisorParameters, op' = Ts!Rest
    PROVE  CallGoes("idle", Ts!Rest)
  BY RestIs DEF CallGoes

\* A start that goes on, and a command of it that fails.
LEMMA StartSteps ==
    ASSUME SupervisorParameters, SupervisorInv,
           Ts!Start \/ Ts!Stage \/ Ts!Publish \/ Ts!Open \/ Ts!Launch \/ Ts!Observe \/ Ts!CommandFails
    PROVE  SupervisorInv'
  <1>a. None \notin Ts!Manifest /\ None \notin {"start", "stop"} /\ NumWorkers \in Nat \ {0}
    BY DEF SupervisorParameters, Ts!NoneFits
  <1>b. Ts!Worker = 1 .. NumWorkers
    BY DEF Ts!Worker
  <1>c. SupervisorTyped /\ op.next \in Nat \ {0}
    BY DEF SupervisorInv, SupervisorTyped, SupervisorCalls
  <1>1. CASE Ts!Start
    <2>1. CASE op' = op
      BY <1>1, <2>1 DEF Ts!Start, SupervisorInv, SupervisorTyped, OwnGroups, Underway, Ending, Ts!world, Ts!files,
              Ts!StoppedIsGone, Ts!FailedStartLeavesNothing, Ts!Session
    <2>2. CASE op' = [Ts!Rest EXCEPT !.call = "start", !.pc = "stage"] /\ manifest = None
      <3>1. op' \in SupervisorCalls /\ op'.call = "start" /\ op'.pc = "stage" /\ op'.next = 1
        BY <2>2, RestIs DEF SupervisorCalls, SupervisorPc
      <3>2. SupervisorTyped'
        BY <1>1, <3>1 DEF SupervisorInv, SupervisorTyped, Ts!Start, Ts!files, Ts!world
      <3>  QED
        BY <1>1, <1>a, <2>2, <3>1, <3>2
           DEF Ts!Start, SupervisorInv, OwnGroups, Underway, Ending, Ts!world, Ts!files,
               Ts!StoppedIsGone, Ts!FailedStartLeavesNothing
    <2>  QED  BY <1>1, <2>1, <2>2 DEF Ts!Start
  <1>2. CASE Ts!Stage
    <2>1. CallGoes("publish", op)
      BY <1>2, Gone DEF Ts!Stage, SupervisorPc
    <2>2. SupervisorTyped'
      BY <1>2, <2>1 DEF SupervisorInv, SupervisorTyped, Ts!Stage, Ts!world, CallGoes
    <2>  QED
      BY <1>2, <1>a, <2>1, <2>2
         DEF Ts!Stage, SupervisorInv, OwnGroups, Underway, Ending, Ts!world, CallGoes, Ts!Session,
             Ts!StoppedIsGone, Ts!FailedStartLeavesNothing
  <1>3. CASE Ts!Publish
    <2>1. CallGoes("open", op)
      BY <1>3, Gone DEF Ts!Publish, SupervisorPc
    <2>2. SupervisorTyped'
      BY <1>3, <2>1 DEF SupervisorInv, SupervisorTyped, Ts!Publish, Ts!world, CallGoes
    <2>  QED
      BY <1>3, <1>a, <2>1, <2>2
         DEF Ts!Publish, SupervisorInv, OwnGroups, Underway, Ending, Ts!world, CallGoes, Ts!Session,
             Ts!StoppedIsGone, Ts!FailedStartLeavesNothing
  <1>4. CASE Ts!Open
    <2>1. CASE op.next > NumWorkers /\ op' = Ts!Rest /\ pane' = pane
      <3>1. CallGoes("idle", Ts!Rest) /\ op'.call = None
        BY <2>1, RestIs, RestGone DEF CallGoes
      <3>2. SupervisorTyped'
        BY <1>4, <2>1, <3>1 DEF SupervisorInv, SupervisorTyped, Ts!Open, CallGoes, Ts!files
      <3>3. manifest # None
        BY <1>4, <1>a, <1>c, <2>1 DEF SupervisorInv, Underway, Ts!Open
      <3>  QED
        BY <1>4, <1>a, <2>1, <3>1, <3>2, <3>3
           DEF Ts!Open, SupervisorInv, OwnGroups, Underway, Ending, Ts!files, CallGoes, Ts!Session,
               Ts!StoppedIsGone, Ts!FailedStartLeavesNothing
    <2>2. CASE /\ op.next <= NumWorkers /\ Ts!Goto("launch")
               /\ pane' = [pane EXCEPT ![op.next] = "shell"]
      <3>1. CallGoes("launch", op)
        BY <2>2, Gone DEF SupervisorPc
      <3>2. /\ pane' \in [Ts!Worker -> {"none", "shell", "up", "dead"}] /\ op.next \in Ts!Worker
            /\ pane'[op.next] = "shell" /\ \A w \in Ts!Worker: w # op.next => pane'[w] = pane[w]
        BY <1>b, <1>c, <2>2 DEF SupervisorTyped
      <3>3. SupervisorTyped'
        BY <1>4, <3>1, <3>2 DEF SupervisorInv, SupervisorTyped, Ts!Open, CallGoes, Ts!files
      <3>4. OwnGroups'
        BY <1>4, <3>2 DEF OwnGroups, SupervisorInv, Ts!Open
      <3>5. op'.pc = "launch" /\ op'.call = "start" /\ (manifest # None => ~ manifest.stopped)
        BY <1>4, <3>1 DEF CallGoes, SupervisorInv, Underway, Ending, Ts!Open
      <3>  QED
        BY <1>4, <1>a, <3>1, <3>2, <3>3, <3>4, <3>5
           DEF Ts!Open, SupervisorInv, Underway, Ending, Ts!files, CallGoes,
               Ts!StoppedIsGone, Ts!FailedStartLeavesNothing
    <2>  QED  BY <1>4, <1>c, <1>a, <2>1, <2>2 DEF Ts!Open
  <1>5. CASE Ts!Launch
    <2>1. CallGoes("observe", op) /\ op.next \in Ts!Worker
      BY <1>5, Gone DEF Ts!Launch, SupervisorPc, SupervisorInv, Underway
    <2>2. /\ pane' \in [Ts!Worker -> {"none", "shell", "up", "dead"}]
          /\ group' \in [Ts!Worker -> SUBSET {"leader", "child"}]
          /\ "leader" \in group'[op.next] /\ op.next \notin foreign' /\ foreign' \subseteq foreign
          /\ \A w \in Ts!Worker: w # op.next => pane'[w] = pane[w] /\ group'[w] = group[w]
      BY <1>5, <1>c, <2>1 DEF SupervisorTyped, Ts!Launch
    <2>3. SupervisorTyped'
      BY <1>5, <2>1, <2>2 DEF SupervisorInv, SupervisorTyped, Ts!Launch, CallGoes, Ts!files
    <2>4. OwnGroups'
      BY <2>2 DEF OwnGroups, SupervisorInv
    <2>5. op'.pc = "observe" /\ op'.call = "start" /\ (manifest # None => ~ manifest.stopped)
      BY <1>5, <2>1 DEF CallGoes, SupervisorInv, Underway, Ending, Ts!Launch
    <2>  QED
      BY <1>5, <1>a, <2>1, <2>3, <2>4, <2>5
         DEF Ts!Launch, SupervisorInv, Underway, Ending, Ts!files, CallGoes,
             Ts!StoppedIsGone, Ts!FailedStartLeavesNothing
  <1>6. CASE Ts!Observe
    <2>1. CASE /\ manifest' = [workers |-> 1 .. op.next, stopping |-> None, stopped |-> FALSE]
               /\ op' = [op EXCEPT !.pc = "open", !.next = @ + 1]
      <3>1. /\ op' \in SupervisorCalls /\ op'.pc = "open" /\ op'.call = op.call
            /\ op'.bound = op.bound /\ op'.aliens = op.aliens
        <4>1. op.next + 1 \in 1 .. (NumWorkers + 1) /\ op \in SupervisorCalls
          BY <1>6, <1>a, <1>b, <1>c DEF SupervisorTyped, SupervisorInv, Underway, Ts!Observe
        <4>2. \A x \in SupervisorCalls, n \in 1 .. (NumWorkers + 1):
                LET y == [x EXCEPT !.pc = "open", !.next = n]
                IN  /\ y \in SupervisorCalls /\ y.pc = "open" /\ y.call = x.call
                    /\ y.bound = x.bound /\ y.aliens = x.aliens
          BY DEF SupervisorCalls, SupervisorPc
        <4>3. op' = [op EXCEPT !.pc = "open", !.next = op.next + 1]
          BY <2>1
        <4>  QED  BY <4>1, <4>2, <4>3
      <3>2. manifest' \in Ts!Manifest /\ ~ manifest'.stopped
        <4>1. 1 .. op.next \subseteq Ts!Worker
          BY <1>6, <1>a, <1>b DEF SupervisorInv, Underway, Ts!Observe
        <4>2. 1 .. op.next \in SUBSET Ts!Worker /\ None \in (SUBSET Ts!Worker) \cup {None}
          BY <4>1
        <4>3. \A x \in SUBSET Ts!Worker, y \in (SUBSET Ts!Worker) \cup {None}:
                LET m == [workers |-> x, stopping |-> y, stopped |-> FALSE]
                IN  m \in Ts!Manifest /\ ~ m.stopped
          BY DEF Ts!Manifest
        <4>  QED  BY <2>1, <4>2, <4>3
      <3>3. SupervisorTyped'
        BY <1>6, <3>1, <3>2 DEF SupervisorInv, SupervisorTyped, Ts!Observe, Ts!world
      <3>  QED
        BY <1>6, <1>a, <3>1, <3>2, <3>3
           DEF Ts!Observe, SupervisorInv, OwnGroups, Underway, Ending, Ts!world,
               Ts!StoppedIsGone, Ts!FailedStartLeavesNothing
    <2>2. CASE manifest' = manifest /\ Ts!Goto("undo")
      <3>1. CallGoes("undo", op)
        BY <2>2, Gone DEF SupervisorPc
      <3>2. SupervisorTyped'
        BY <1>6, <2>2, <3>1 DEF SupervisorInv, SupervisorTyped, Ts!Observe, Ts!world, CallGoes
      <3>  QED
        BY <1>6, <1>a, <2>2, <3>1, <3>2
           DEF Ts!Observe, SupervisorInv, OwnGroups, Underway, Ending, Ts!world, CallGoes, Ts!Session,
               Ts!StoppedIsGone, Ts!FailedStartLeavesNothing
    <2>  QED  BY <1>6, <2>1, <2>2 DEF Ts!Observe
  <1>7. CASE Ts!CommandFails
    <2>1. CallGoes("undo", op)
      BY <1>7, Gone DEF Ts!CommandFails, SupervisorPc
    <2>2. SupervisorTyped'
      BY <1>7, <2>1 DEF SupervisorInv, SupervisorTyped, Ts!CommandFails, Ts!files, Ts!world, CallGoes
    <2>  QED
      BY <1>7, <1>a, <2>1, <2>2
         DEF Ts!CommandFails, SupervisorInv, OwnGroups, Underway, Ending, Ts!files, Ts!world, CallGoes, Ts!Session,
             Ts!StoppedIsGone, Ts!FailedStartLeavesNothing
  <1>  QED  BY <1>1, <1>2, <1>3, <1>4, <1>5, <1>6, <1>7

\* A step that writes neither directory nor manifest and opens no pane.
LEMMA WorldGoes ==
    ASSUME SupervisorParameters, SupervisorInv, SupervisorTyped', Underway', Ending', OwnGroups',
           coordination' = coordination, manifest' = manifest,
           Ts!Session' => Ts!Session,
           \A w \in Ts!Worker: group[w] = {} => group'[w] = {},
           lost => lost',
           op'.pc = "idle" /\ ~ lost' => op.pc = "idle" \/ manifest # None
    PROVE  SupervisorInv'
  <1>1. Ts!StoppedIsGone'
    BY DEF SupervisorInv, SupervisorTyped, Ts!StoppedIsGone, Ts!Manifest
  <1>2. Ts!FailedStartLeavesNothing'
    BY DEF SupervisorInv, SupervisorTyped, Ts!FailedStartLeavesNothing
  <1>  QED  BY <1>1, <1>2 DEF SupervisorInv

LEMMA StopSteps ==
    ASSUME SupervisorParameters, SupervisorInv,
           Ts!Undo \/ Ts!Stop \/ Ts!MarkStopping \/ Ts!CheckSession \/ Ts!Finish \/ Ts!Forget
    PROVE  SupervisorInv'
  <1>a. None \notin Ts!Manifest /\ None \notin {"start", "stop"} /\ NumWorkers \in Nat \ {0}
    BY DEF SupervisorParameters, Ts!NoneFits
  <1>b. Ts!Worker = 1 .. NumWorkers
    BY DEF Ts!Worker
  <1>c. SupervisorTyped /\ op.next \in Nat \ {0} /\ op \in SupervisorCalls
        /\ op.bound \subseteq Ts!Worker
    BY DEF SupervisorInv, SupervisorTyped, SupervisorCalls
  <1>1. CASE Ts!Undo
    <2>0. op.call = "start" /\ pane' = pane /\ group' = group /\ foreign' = foreign /\ lost' = lost
          /\ coordination' = "none"
      BY <1>1 DEF SupervisorInv, Underway, Ts!Undo, Ts!world
    <2>1. CASE ~ Ts!Session /\ op' = Ts!Rest /\ manifest' = None
      <3>1. CallGoes("idle", Ts!Rest) /\ op'.call = None
        BY <2>1, RestIs, RestGone DEF CallGoes
      <3>2. SupervisorTyped'
        BY <2>0, <2>1, <3>1 DEF SupervisorInv, SupervisorTyped, CallGoes
      <3>3. OwnGroups'
        BY <2>0 DEF SupervisorInv, OwnGroups
      <3>  QED
        BY <1>a, <2>0, <2>1, <3>1, <3>2, <3>3
           DEF SupervisorInv, Underway, Ending, CallGoes, Ts!Session,
               Ts!StoppedIsGone, Ts!FailedStartLeavesNothing
    <2>2. CASE op' = [op EXCEPT !.pc = "endSession", !.bound = 1 .. (op.next - 1)] /\ manifest' = manifest
      <3>1. 1 .. (op.next - 1) \in SUBSET Ts!Worker
        BY <1>a, <1>b, <1>c DEF SupervisorCalls
      <3>2. \A x \in SupervisorCalls, b \in SUBSET Ts!Worker:
              LET y == [x EXCEPT !.pc = "endSession", !.bound = b]
              IN  y \in SupervisorCalls /\ y.pc = "endSession" /\ y.call = x.call
        BY DEF SupervisorCalls, SupervisorPc
      <3>3. op'.pc = "endSession" /\ op'.call = "start" /\ op' \in SupervisorCalls
        BY <1>c, <2>0, <2>2, <3>1, <3>2
      <3>4. SupervisorTyped'
        BY <2>0, <2>2, <3>3 DEF SupervisorInv, SupervisorTyped
      <3>5. OwnGroups'
        BY <2>0 DEF SupervisorInv, OwnGroups
      <3>  QED
        BY <1>a, <2>0, <2>2, <3>3, <3>4, <3>5
           DEF SupervisorInv, Underway, Ending, Ts!Session,
               Ts!StoppedIsGone, Ts!FailedStartLeavesNothing
    <2>  QED  BY <1>1, <2>1, <2>2 DEF Ts!Undo
  <1>2. CASE Ts!Stop
    <2>0. /\ pane' = pane /\ group' = group /\ foreign' = foreign /\ lost' = lost
          /\ coordination' = coordination /\ manifest' = manifest /\ manifest # None
          /\ op.pc = "idle"
      BY <1>2 DEF Ts!Stop, Ts!world, Ts!files
    <2>1. op' = op \/ \E l \in {"mark", "session"}: op' = [Ts!Rest EXCEPT !.call = "stop", !.pc = l]
      BY <1>2 DEF Ts!Stop
    <2>2. \A l \in {"mark", "session"}: LET x == [Ts!Rest EXCEPT !.call = "stop", !.pc = l]
                                        IN  x \in SupervisorCalls /\ x.call = "stop" /\ x.pc = l
      BY RestIs DEF SupervisorCalls, SupervisorPc
    <2>3. op' = op \/ (op' \in SupervisorCalls /\ op'.call = "stop" /\ op'.pc \in {"mark", "session"})
      BY <2>1, <2>2
    <2>4. SupervisorTyped' /\ OwnGroups'
      BY <2>0, <2>3 DEF SupervisorInv, SupervisorTyped, OwnGroups
    <2>5. Underway' /\ Ending'
      BY <2>0, <2>3 DEF SupervisorInv, Underway, Ending, Ts!Session
    <2>  QED  BY <2>0, <2>4, <2>5, WorldGoes DEF Ts!Session
  <1>3. CASE Ts!MarkStopping
    <2>0. /\ pane' = pane /\ group' = group /\ foreign' = foreign /\ lost' = lost
          /\ coordination' = coordination /\ manifest # None /\ op.call = "stop" /\ op.pc = "mark"
      BY <1>3 DEF Ts!MarkStopping, Ts!world, SupervisorInv, Underway, Ending
    <2>1. CASE manifest' = manifest /\ op' = Ts!Rest
      <3>1. CallGoes("idle", Ts!Rest) /\ op'.call = None
        BY <2>1, RestIs, RestGone DEF CallGoes
      <3>2. SupervisorTyped' /\ OwnGroups'
        BY <2>0, <2>1, <3>1 DEF SupervisorInv, SupervisorTyped, CallGoes, OwnGroups
      <3>3. Underway' /\ Ending'
        BY <1>a, <2>0, <2>1, <3>1 DEF SupervisorInv, Underway, Ending, Ts!Session, CallGoes
      <3>  QED  BY <2>0, <2>1, <3>2, <3>3, WorldGoes DEF Ts!Session
    <2>2. CASE manifest' = [manifest EXCEPT !.stopping = Ts!Bound(manifest.workers)] /\ Ts!Goto("session")
      <3>1. CallGoes("session", op)
        BY <2>2, Gone DEF SupervisorPc
      <3>2. manifest \in Ts!Manifest /\ Ts!Bound(manifest.workers) \in SUBSET Ts!Worker
        BY <1>a, <2>0 DEF SupervisorInv, SupervisorTyped, Ts!Bound, Ts!Manifest
      <3>3. manifest' \in Ts!Manifest /\ manifest'.workers = manifest.workers
            /\ manifest'.stopped = manifest.stopped
        <4>1. \A m \in Ts!Manifest, b \in SUBSET Ts!Worker:
                LET n == [m EXCEPT !.stopping = b]
                IN  n \in Ts!Manifest /\ n.workers = m.workers /\ n.stopped = m.stopped
          BY DEF Ts!Manifest
        <4>  QED  BY <2>2, <3>2, <4>1
      <3>4. SupervisorTyped' /\ OwnGroups'
        BY <2>0, <3>1, <3>3 DEF SupervisorInv, SupervisorTyped, CallGoes, OwnGroups
      <3>5. Underway' /\ Ending'
        BY <1>a, <2>0, <3>1, <3>3 DEF SupervisorInv, Underway, Ending, Ts!Session, CallGoes
      <3>6. Ts!StoppedIsGone'
        BY <2>0, <3>3 DEF SupervisorInv, Ts!StoppedIsGone, Ts!Session
      <3>7. Ts!FailedStartLeavesNothing'
        BY <3>1 DEF CallGoes, Ts!FailedStartLeavesNothing
      <3>  QED  BY <3>4, <3>5, <3>6, <3>7 DEF SupervisorInv
    <2>  QED  BY <1>3, <2>1, <2>2 DEF Ts!MarkStopping
  <1>4. CASE Ts!CheckSession
    <2>0. /\ pane' = pane /\ group' = group /\ foreign' = foreign /\ lost' = lost
          /\ coordination' = coordination /\ manifest' = manifest /\ manifest # None
          /\ op.call = "stop" /\ op.pc = "session"
      BY <1>4 DEF Ts!CheckSession, Ts!world, Ts!files, SupervisorInv, Underway, Ending
    <2>1. CASE op' = [op EXCEPT !.pc = "endSession", !.bound = Ts!Bound(Ts!Candidates), !.aliens = foreign]
      <3>1. Ts!Candidates \subseteq Ts!Worker
        BY <1>a, <2>0 DEF SupervisorInv, SupervisorTyped, Ts!Candidates, Ts!Manifest
      <3>2. Ts!Bound(Ts!Candidates) \in SUBSET Ts!Worker /\ Ts!Bound(Ts!Candidates) \cap foreign = {}
            /\ foreign \in SUBSET Ts!Worker
        BY <3>1 DEF SupervisorInv, SupervisorTyped, OwnGroups, Ts!Bound
      <3>4. /\ op' \in SupervisorCalls /\ op'.pc = "endSession" /\ op'.call = "stop"
            /\ op'.bound \cap op'.aliens = {}
        <4> DEFINE b == Ts!Bound(Ts!Candidates)
        <4>1. op' = [op EXCEPT !.pc = "endSession", !.bound = b, !.aliens = foreign]
          BY <2>1
        <4>2. b \in SUBSET Ts!Worker /\ b \cap foreign = {} /\ foreign \in SUBSET Ts!Worker
          BY <3>2
        <4>  HIDE DEF b
        <4>3. /\ op' \in SupervisorCalls /\ op'.pc = "endSession" /\ op'.call = op.call
              /\ op'.bound = b /\ op'.aliens = foreign
          <5>1. op \in SupervisorCalls
            BY <1>c
          <5>2. ASSUME NEW f \in SUBSET Ts!Worker, op' = [op EXCEPT !.pc = "endSession", !.bound = b, !.aliens = f]
                PROVE  /\ op' \in SupervisorCalls /\ op'.pc = "endSession" /\ op'.call = op.call
                       /\ op'.bound = b /\ op'.aliens = f
            BY <4>2, <5>1, <5>2 DEF SupervisorCalls, SupervisorPc
          <5>  QED  BY <4>1, <4>2, <5>2
        <4>  QED  BY <2>0, <4>2, <4>3
      <3>5. SupervisorTyped' /\ OwnGroups'
        BY <2>0, <3>4 DEF SupervisorInv, SupervisorTyped, OwnGroups
      <3>6. Underway' /\ Ending'
        BY <1>a, <2>0, <3>4 DEF SupervisorInv, Underway, Ending, Ts!Session
      <3>  QED  BY <2>0, <3>4, <3>5, <3>6, WorldGoes DEF Ts!Session
    <2>2. CASE Ts!Goto("finish")
      <3>1. CallGoes("finish", op)
        BY <2>2, Gone DEF SupervisorPc
      <3>2. SupervisorTyped' /\ OwnGroups'
        BY <2>0, <3>1 DEF SupervisorInv, SupervisorTyped, CallGoes, OwnGroups
      <3>3. Underway' /\ Ending'
        BY <1>a, <2>0, <3>1 DEF SupervisorInv, Underway, Ending, Ts!Session, CallGoes
      <3>  QED  BY <2>0, <3>1, <3>2, <3>3, WorldGoes DEF Ts!Session, CallGoes
    <2>3. CASE op' = Ts!Rest
      <3>1. CallGoes("idle", Ts!Rest) /\ op'.call = None
        BY <2>3, RestIs, RestGone DEF CallGoes
      <3>2. SupervisorTyped' /\ OwnGroups'
        BY <2>0, <3>1 DEF SupervisorInv, SupervisorTyped, CallGoes, OwnGroups
      <3>3. Underway' /\ Ending'
        BY <1>a, <2>0, <3>1 DEF SupervisorInv, Underway, Ending, Ts!Session, CallGoes
      <3>  QED  BY <2>0, <3>2, <3>3, WorldGoes DEF Ts!Session
    <2>  QED  BY <1>4, <2>1, <2>2, <2>3 DEF Ts!CheckSession, Ts!Goto
  <1>5. CASE Ts!Finish
    <2>0. /\ pane' = pane /\ group' = group /\ foreign' = foreign /\ lost' = lost
          /\ coordination' = coordination /\ manifest # None /\ op.call = "stop" /\ op.pc = "finish"
          /\ op' = Ts!Rest
      BY <1>5 DEF Ts!Finish, Ts!world, SupervisorInv, Underway, Ending
    <2>1. CallGoes("idle", Ts!Rest) /\ op'.call = None
      BY <2>0, RestIs, RestGone DEF CallGoes
    <2>2. CASE manifest' = manifest
      <3>2. SupervisorTyped' /\ OwnGroups'
        BY <2>0, <2>1, <2>2 DEF SupervisorInv, SupervisorTyped, CallGoes, OwnGroups
      <3>3. Underway' /\ Ending'
        BY <1>a, <2>0, <2>1, <2>2 DEF SupervisorInv, Underway, Ending, Ts!Session, CallGoes
      <3>  QED  BY <2>0, <2>2, <3>2, <3>3, WorldGoes DEF Ts!Session
    <2>3. CASE /\ ~ Ts!Session /\ Ts!Alive(manifest.workers) = {}
               /\ manifest' = [manifest EXCEPT !.stopped = TRUE]
      <3>1. manifest \in Ts!Manifest
        BY <2>0 DEF SupervisorInv, SupervisorTyped
      <3>2. manifest' \in Ts!Manifest /\ manifest'.workers = manifest.workers
        BY <2>3, <3>1 DEF Ts!Manifest
      <3>3. \A w \in manifest.workers: group[w] = {}
        BY <2>3 DEF Ts!Alive
      <3>4. SupervisorTyped' /\ OwnGroups'
        BY <2>0, <2>1, <3>2 DEF SupervisorInv, SupervisorTyped, CallGoes, OwnGroups
      <3>5. Underway' /\ Ending'
        BY <1>a, <2>0, <2>1, <3>2 DEF SupervisorInv, Underway, Ending, Ts!Session, CallGoes
      <3>6. Ts!StoppedIsGone'
        BY <2>0, <2>3, <3>2, <3>3 DEF Ts!StoppedIsGone, Ts!Session
      <3>7. Ts!FailedStartLeavesNothing'
        BY <1>a, <3>2 DEF Ts!FailedStartLeavesNothing
      <3>  QED  BY <3>4, <3>5, <3>6, <3>7 DEF SupervisorInv
    <2>  QED  BY <1>5, <2>2, <2>3 DEF Ts!Finish
  <1>6. CASE Ts!Forget
    <2>0. /\ pane' = pane /\ group' = group /\ foreign' = foreign
          /\ coordination' = coordination /\ op.call = "start" /\ op.pc = "forget"
          /\ op' = Ts!Rest /\ ~ Ts!Session /\ coordination = "none"
      BY <1>6 DEF Ts!Forget, Ts!world, SupervisorInv, Underway, Ending
    <2>1. CallGoes("idle", Ts!Rest) /\ op'.call = None
      BY <2>0, RestIs, RestGone DEF CallGoes
    <2>2. manifest' \in {manifest, None} /\ lost' \in BOOLEAN /\ (lost => lost')
          /\ (manifest' # None => lost')
      BY <1>6 DEF Ts!Forget, SupervisorInv, SupervisorTyped
    <2>3. SupervisorTyped' /\ OwnGroups'
      BY <2>0, <2>1, <2>2 DEF SupervisorInv, SupervisorTyped, CallGoes, OwnGroups
    <2>4. Underway' /\ Ending'
      BY <1>a, <2>0, <2>1, <2>2 DEF SupervisorInv, Underway, Ending, Ts!Session, CallGoes
    <2>5. Ts!StoppedIsGone' /\ Ts!FailedStartLeavesNothing'
      BY <2>0, <2>2 DEF SupervisorInv, Ending, Ts!StoppedIsGone, Ts!FailedStartLeavesNothing, Ts!Session
    <2>  QED  BY <2>3, <2>4, <2>5 DEF SupervisorInv
  <1>  QED  BY <1>1, <1>2, <1>3, <1>4, <1>5, <1>6

\* Panes and groups end; the call goes on, or rests.
LEMMA GroupsGo ==
    ASSUME SupervisorParameters, SupervisorInv,
           pane' \in [Ts!Worker -> {"none", "shell", "up", "dead"}],
           group' \in [Ts!Worker -> SUBSET {"leader", "child"}],
           foreign' \subseteq Ts!Worker, lost' \in BOOLEAN, lost => lost',
           coordination' = coordination, manifest' = manifest,
           \A w \in Ts!Worker: group[w] = {} => group'[w] = {},
           \A w \in Ts!Worker: pane[w] = "none" => pane'[w] = "none",
           \A w \in Ts!Worker: pane'[w] = "up" =>
             pane[w] = "up" /\ "leader" \in group'[w] /\ (w \in foreign' => w \in foreign),
           \/ op' = op
           \/ op' = Ts!Rest /\ (op.call = "stop" \/ lost')
           \/ \E l \in {"term", "kill", "finish", "forget"}:
                /\ CallGoes(l, op)
                /\ l # "finish" => \A w \in Ts!Worker: pane'[w] = "none"
                /\ l = "finish" => op.call = "stop"
                /\ l = "forget" => op.call = "start"
                /\ op.pc \in {"endSession", "term", "kill"}
    PROVE  SupervisorInv'
  <1>a. None \notin Ts!Manifest /\ None \notin {"start", "stop"}
    BY DEF SupervisorParameters, Ts!NoneFits
  <1>1. OwnGroups'
    BY DEF OwnGroups, SupervisorInv
  <1>2. Ts!Session' => Ts!Session
    BY DEF Ts!Session, SupervisorInv, SupervisorTyped
  <1>3. CASE op' = op
    <2>1. SupervisorTyped'
      BY <1>3 DEF SupervisorInv, SupervisorTyped
    <2>2. Underway' /\ Ending'
      BY <1>2, <1>3 DEF SupervisorInv, Underway, Ending
    <2>  QED  BY <1>1, <1>2, <1>3, <2>1, <2>2, WorldGoes
  <1>4. CASE op' = Ts!Rest /\ (op.call = "stop" \/ lost')
    <2>1. CallGoes("idle", Ts!Rest) /\ op'.call = None
      BY <1>4, RestIs, RestGone DEF CallGoes
    <2>2. SupervisorTyped'
      BY <2>1 DEF SupervisorInv, SupervisorTyped, CallGoes
    <2>3. Underway' /\ Ending'
      BY <1>a, <2>1 DEF SupervisorInv, Underway, Ending, CallGoes
    <2>4. op'.pc = "idle" /\ ~ lost' => op.pc = "idle" \/ manifest # None
      BY <1>4 DEF SupervisorInv, Ending
    <2>  QED  BY <1>1, <1>2, <2>2, <2>3, <2>4, WorldGoes
  <1>5. ASSUME NEW l \in {"term", "kill", "finish", "forget"}, CallGoes(l, op),
               l # "finish" => \A w \in Ts!Worker: pane'[w] = "none",
               l = "finish" => op.call = "stop", l = "forget" => op.call = "start",
               op.pc \in {"endSession", "term", "kill"}
        PROVE  SupervisorInv'
    <2>1. SupervisorTyped'
      BY <1>5 DEF SupervisorInv, SupervisorTyped, CallGoes
    <2>2. l # "finish" => ~ Ts!Session'
      BY <1>5 DEF Ts!Session
    <2>3. Underway'
      BY <1>5 DEF SupervisorInv, Underway, CallGoes
    <2>4. Ending'
      BY <1>5, <2>2 DEF SupervisorInv, Ending, CallGoes
    <2>  QED  BY <1>1, <1>2, <1>5, <2>1, <2>3, <2>4, WorldGoes DEF CallGoes
  <1>  QED  BY <1>3, <1>4, <1>5

LEMMA EndingSteps ==
    ASSUME SupervisorParameters, SupervisorInv,
           Ts!EndSession \/ Ts!EndSessionFails \/ Ts!Terminate \/ Ts!KillGroups \/ Ts!Kill
    PROVE  SupervisorInv'
  <1>c. /\ pane \in [Ts!Worker -> {"none", "shell", "up", "dead"}]
        /\ group \in [Ts!Worker -> SUBSET {"leader", "child"}]
        /\ foreign \subseteq Ts!Worker /\ lost \in BOOLEAN
        /\ \A w \in Ts!Worker: pane[w] = "up" => "leader" \in group[w] /\ w \notin foreign
        /\ op.pc \in {"term", "kill"} => \A w \in Ts!Worker: pane[w] = "none"
    BY DEF SupervisorInv, SupervisorTyped, OwnGroups, Ending, Ts!Session
  <1>1. CASE Ts!EndSession
    <2>1. CallGoes("term", op)
      BY <1>1, Gone DEF Ts!EndSession, SupervisorPc
    <2>2. /\ pane' = [w \in Ts!Worker |-> "none"] /\ foreign' = foreign /\ lost' = lost
          /\ coordination' = coordination /\ manifest' = manifest /\ op.pc = "endSession"
      BY <1>1 DEF Ts!EndSession, Ts!files
    <2>3. PICK s \in SUBSET Ts!Worker: group' = [w \in Ts!Worker |-> IF w \in s THEN group[w] ELSE {}]
      BY <1>1 DEF Ts!EndSession
    <2>4. /\ group' \in [Ts!Worker -> SUBSET {"leader", "child"}]
          /\ \A w \in Ts!Worker: group[w] = {} => group'[w] = {}
      BY <1>c, <2>3
    <2>5. /\ pane' \in [Ts!Worker -> {"none", "shell", "up", "dead"}]
          /\ \A w \in Ts!Worker: pane'[w] = "none"
      BY <2>2
    <2>  QED  BY <1>c, <2>1, <2>2, <2>4, <2>5, GroupsGo
  <1>2. CASE Ts!EndSessionFails
    <2> DEFINE ended == IF op.call = "stop" THEN {} ELSE op.bound
    <2>1. /\ foreign' = foreign /\ lost' = (lost \/ op.call = "start") /\ op' = Ts!Rest
          /\ coordination' = coordination /\ manifest' = manifest /\ op.pc = "endSession"
          /\ group' = [w \in Ts!Worker |-> IF w \in ended THEN {} ELSE group[w]]
          /\ pane' = [w \in Ts!Worker |-> IF w \in ended /\ pane[w] = "up" THEN "dead" ELSE pane[w]]
      BY <1>2 DEF Ts!EndSessionFails, Ts!files
    <2>  HIDE DEF ended
    <2>2. op.call \in {"start", "stop"}
      BY <2>1 DEF SupervisorInv, Underway
    <2>3. /\ pane' \in [Ts!Worker -> {"none", "shell", "up", "dead"}]
          /\ group' \in [Ts!Worker -> SUBSET {"leader", "child"}]
          /\ \A w \in Ts!Worker: group[w] = {} => group'[w] = {}
          /\ \A w \in Ts!Worker: pane[w] = "none" => pane'[w] = "none"
          /\ \A w \in Ts!Worker: pane'[w] = "up" => pane[w] = "up" /\ "leader" \in group'[w]
      BY <1>c, <2>1
    <2>  QED  BY <1>c, <2>1, <2>2, <2>3, GroupsGo
  <1>3. CASE Ts!Terminate
    <2>1. CallGoes("kill", op)
      BY <1>3, Gone DEF Ts!Terminate, SupervisorPc
    <2>2. /\ pane' = pane /\ foreign' = foreign /\ lost' = lost
          /\ coordination' = coordination /\ manifest' = manifest /\ op.pc = "term"
      BY <1>3 DEF Ts!Terminate, Ts!files
    <2>3. PICK s: group' = [w \in Ts!Worker |-> IF w \in s THEN {} ELSE group[w]]
      BY <1>3 DEF Ts!Terminate
    <2>4. /\ group' \in [Ts!Worker -> SUBSET {"leader", "child"}]
          /\ \A w \in Ts!Worker: group[w] = {} => group'[w] = {}
      BY <1>c, <2>3
    <2>  QED  BY <1>c, <2>1, <2>2, <2>4, GroupsGo
  <1>4. CASE Ts!KillGroups
    <2>1. op.call \in {"start", "stop"}
      BY <1>4 DEF Ts!KillGroups, SupervisorInv, Underway
    <2>2. /\ pane' = pane /\ foreign' = foreign /\ lost' = lost
          /\ coordination' = coordination /\ manifest' = manifest /\ op.pc = "kill"
          /\ group' = [w \in Ts!Worker |-> IF w \in op.bound THEN {} ELSE group[w]]
      BY <1>4 DEF Ts!KillGroups, Ts!files
    <2>3. CallGoes(IF op.call = "stop" THEN "finish" ELSE "forget", op)
      BY <1>4, Gone DEF Ts!KillGroups, SupervisorPc
    <2>4. /\ group' \in [Ts!Worker -> SUBSET {"leader", "child"}]
          /\ \A w \in Ts!Worker: group[w] = {} => group'[w] = {}
      BY <1>c, <2>2
    <2>5. CASE op.call = "stop" /\ CallGoes("finish", op)
      BY <1>c, <2>2, <2>4, <2>5, GroupsGo
    <2>6. CASE op.call = "start" /\ CallGoes("forget", op)
      BY <1>c, <2>2, <2>4, <2>6, GroupsGo
    <2>  QED  BY <2>1, <2>3, <2>5, <2>6
  <1>5. CASE Ts!Kill
    <2>1. /\ pane' = pane /\ group' = group /\ foreign' = foreign /\ lost' = TRUE
          /\ coordination' = coordination /\ manifest' = manifest /\ op' = Ts!Rest
      BY <1>5 DEF Ts!Kill, Ts!files, Ts!world
    <2>  QED  BY <1>c, <2>1, GroupsGo
  <1>  QED  BY <1>1, <1>2, <1>3, <1>4, <1>5

LEMMA ProcessSteps ==
    ASSUME SupervisorParameters, SupervisorInv, NEW w \in Ts!Worker,
           Ts!Fork(w) \/ Ts!Exit(w, "leader") \/ Ts!Exit(w, "child") \/ Ts!Reuse(w)
    PROVE  SupervisorInv'
  <1>c. /\ pane \in [Ts!Worker -> {"none", "shell", "up", "dead"}]
        /\ group \in [Ts!Worker -> SUBSET {"leader", "child"}]
        /\ foreign \subseteq Ts!Worker /\ lost \in BOOLEAN
        /\ \A v \in Ts!Worker: pane[v] = "up" => "leader" \in group[v] /\ v \notin foreign
    BY DEF SupervisorInv, SupervisorTyped, OwnGroups
  <1>1. CASE Ts!Fork(w)
    <2>1. /\ pane' = pane /\ foreign' = foreign /\ lost' = lost /\ op' = op
          /\ coordination' = coordination /\ manifest' = manifest
          /\ group[w] = {"leader"} /\ group' = [group EXCEPT ![w] = {"leader", "child"}]
      BY <1>1 DEF Ts!Fork, Ts!files
    <2>2. /\ group' \in [Ts!Worker -> SUBSET {"leader", "child"}]
          /\ \A v \in Ts!Worker: group[v] = {} => group'[v] = {}
          /\ \A v \in Ts!Worker: pane[v] = "up" => "leader" \in group'[v]
      BY <1>c, <2>1
    <2>  QED  BY <1>c, <2>1, <2>2, GroupsGo
  <1>2. ASSUME NEW p \in {"leader", "child"}, Ts!Exit(w, p) PROVE SupervisorInv'
    <2>1. /\ foreign' = foreign /\ lost' = lost /\ op' = op
          /\ coordination' = coordination /\ manifest' = manifest
          /\ group' = [group EXCEPT ![w] = @ \ {p}]
          /\ pane' = IF p = "leader" /\ pane[w] = "up" THEN [pane EXCEPT ![w] = "dead"] ELSE pane
      BY <1>2 DEF Ts!Exit, Ts!files
    <2>2. /\ group' \in [Ts!Worker -> SUBSET {"leader", "child"}]
          /\ group'[w] = group[w] \ {p} /\ \A v \in Ts!Worker: v # w => group'[v] = group[v]
      BY <1>c, <2>1
    <2>3. /\ pane' \in [Ts!Worker -> {"none", "shell", "up", "dead"}]
          /\ \A v \in Ts!Worker: v # w => pane'[v] = pane[v]
          /\ pane[w] = "none" => pane'[w] = "none"
          /\ pane'[w] = "up" => pane[w] = "up" /\ p # "leader"
      BY <1>c, <2>1
    <2>4. \A v \in Ts!Worker: /\ group[v] = {} => group'[v] = {}
                              /\ pane[v] = "none" => pane'[v] = "none"
                              /\ pane'[v] = "up" => pane[v] = "up" /\ "leader" \in group'[v]
      BY <1>c, <2>2, <2>3
    <2>  QED  BY <1>c, <2>1, <2>2, <2>3, <2>4, GroupsGo
  <1>3. CASE Ts!Reuse(w)
    <2>1. /\ pane' = pane /\ group' = group /\ lost' = lost /\ op' = op
          /\ coordination' = coordination /\ manifest' = manifest
          /\ group[w] = {} /\ foreign' = foreign \cup {w}
      BY <1>3 DEF Ts!Reuse, Ts!files
    <2>2. pane[w] # "up"
      BY <1>c, <2>1
    <2>  QED  BY <1>c, <2>1, <2>2, GroupsGo
  <1>  QED  BY <1>1, <1>2, <1>3

LEMMA SupervisorStepKeeps == SupervisorParameters /\ SupervisorInv /\ [Ts!Next]_(Ts!vars) => SupervisorInv'
  <1> SUFFICES ASSUME SupervisorParameters, SupervisorInv, [Ts!Next]_(Ts!vars)
               PROVE  SupervisorInv'
    OBVIOUS
  <1>1. CASE UNCHANGED Ts!vars
    BY <1>1 DEF Ts!vars, SupervisorInv, SupervisorTyped, OwnGroups, Underway, Ending, Ts!Session,
                Ts!StoppedIsGone, Ts!FailedStartLeavesNothing
  <1>  QED  BY <1>1, StartSteps, StopSteps, EndingSteps, ProcessSteps DEF Ts!Next

\* A supervisor signals the groups of its own workers only, a team it says is stopped is gone, and
\* a start that failed leaves nothing behind (team/supervisor.ts).
THEOREM StoppedTeamsGone ==
    ASSUME SupervisorParameters
    PROVE  Ts!Spec => [](Ts!SignalsOwnGroups /\ Ts!StoppedIsGone /\ Ts!FailedStartLeavesNothing)
  <1>1. SupervisorInv /\ [Ts!Next]_Ts!vars => SupervisorInv'
    BY SupervisorStepKeeps
  <1>2. Ts!Init => SupervisorInv
    BY SupervisorInitially
  <1>3. SupervisorInv => Ts!SignalsOwnGroups /\ Ts!StoppedIsGone /\ Ts!FailedStartLeavesNothing
    BY SupervisorImplied
  <1> QED  BY <1>1, <1>2, <1>3, PTL DEF Ts!Spec

-----------------------------------------------------------------------------
(* Bounded sets of numbers have a least and a greatest element.            *)

LEMMA Least ==
    ASSUME NEW T \in SUBSET Nat, T # {}
    PROVE  \E x \in T: \A y \in T: x <= y
  <1> DEFINE Down == {0 .. x: x \in T}
  <1>1. Down \subseteq FiniteSubsetsOf(Nat) /\ Down # {}
    <2>1. ASSUME NEW x \in T PROVE 0 .. x \in FiniteSubsetsOf(Nat)
      <3>1. x \in Int /\ x \in Nat
        OBVIOUS
      <3>2. IsFiniteSet(0 .. x)
        BY <3>1, FS_Interval
      <3>  QED  BY <3>1, <3>2 DEF FiniteSubsetsOf
    <2>  QED  BY <2>1
  <1>2. IsWellFoundedOn(StrictSubsetOrdering(Nat), FiniteSubsetsOf(Nat))
    BY FS_StrictSubsetOrderingWellFounded
  <1>3. PICK d \in Down: \A e \in Down: <<e, d>> \notin StrictSubsetOrdering(Nat)
    <2> HIDE DEF Down
    <2>  QED  BY <1>1, <1>2, WFMin
  <1>4. PICK x \in T: d = 0 .. x
    OBVIOUS
  <1>5. ASSUME NEW y \in T PROVE x <= y
    <2>1. <<0 .. y, 0 .. x>> \notin StrictSubsetOrdering(Nat)
      BY <1>3, <1>4
    <2>2. 0 .. y \in SUBSET Nat /\ 0 .. x \in SUBSET Nat /\ x \in Nat /\ y \in Nat
      OBVIOUS
    <2>3. CASE y < x
      <3>1. 0 .. y \subseteq 0 .. x
        BY <2>2, <2>3
      <3>2. x \in 0 .. x /\ x \notin 0 .. y
        BY <2>2, <2>3
      <3>3. <<0 .. y, 0 .. x>> \in StrictSubsetOrdering(Nat)
        BY <2>2, <3>1, <3>2 DEF StrictSubsetOrdering
      <3>  QED  BY <2>1, <3>3
    <2>  QED  BY <2>2, <2>3
  <1>  QED  BY <1>5

LEMMA Greatest ==
    ASSUME NEW T \in SUBSET Nat, T # {}, NEW b \in Nat, \A x \in T: x <= b
    PROVE  \E x \in T: \A y \in T: x >= y
  <1> DEFINE U == {u \in Nat: \A x \in T: x <= u}
  <1>1. b \in U /\ U \in SUBSET Nat
    OBVIOUS
  <1>2. PICK u \in U: \A v \in U: u <= v
    <2>  HIDE DEF U
    <2>  QED  BY <1>1, Least
  <1>3. CASE u \in T
    BY <1>2, <1>3
  <1>4. CASE u \notin T
    <2>1. \A x \in T: x <= u - 1
      BY <1>2, <1>4
    <2>2. u - 1 \in Nat
      <3>1. PICK x \in T: x \in Nat
        OBVIOUS
      <3>2. x <= u - 1 /\ u \in Nat
        BY <2>1, <1>2
      <3>  QED  BY <3>1, <3>2
    <2>3. u - 1 \in U
      BY <2>1, <2>2
    <2>  QED  BY <1>2, <2>3
  <1>  QED  BY <1>3, <1>4

LEMMA MinIs ==
    ASSUME NEW T \in SUBSET Nat, T # {}
    PROVE  Mb!Min(T) \in T /\ \A y \in T: Mb!Min(T) <= y
  BY Least DEF Mb!Min

LEMMA MaxIs ==
    ASSUME NEW T \in SUBSET Nat, T # {}, NEW b \in Nat, \A x \in T: x <= b
    PROVE  Mb!Max(T) \in T /\ \A y \in T: Mb!Max(T) >= y
  BY Greatest DEF Mb!Max

LEMMA MaxOfOne == ASSUME NEW x \in Nat PROVE Mb!Max({x}) = x
  BY DEF Mb!Max

-----------------------------------------------------------------------------
(* Mailbox.  An id is sent once, and owed to whoever sent it until it is   *)
(* marked; the ids of the older file come first and are sent as they were. *)

Message == [id: Nat, text: Text, delivered: BOOLEAN]
SendEvent == [kind: {"send"}, id: Nat, text: Text, delivered: BOOLEAN]
MarkEvent == [kind: {"delivered"}, id: Nat]
MailEvent == SendEvent \cup MarkEvent

IsSend(k) == k \in DOMAIN mail /\ mail[k].kind = "send"
Waiting(id) == \A k \in DOMAIN mail: mail[k].id = id => mail[k].kind = "send" /\ ~ mail[k].delivered

MailTyped ==
    /\ legacy \in Seq(Message) /\ mail \in Seq(MailEvent)
    /\ sender \in [Sender -> [pc: {"idle", "migrate", "act"}, call: {"send", "mark", None},
                              arg: Text \cup Nat \cup {None}]]
    /\ \A c \in Sender: sender[c].pc # "idle" /\ sender[c].call = "send" => sender[c].arg \in Text
    /\ cutOff \in BOOLEAN

Holding ==
    /\ \A c \in Sender: sender[c].pc # "idle" => mailLock = c
    /\ \A c \in Sender: sender[c].pc = "act" => mail # <<>> \/ legacy = <<>>
    /\ \A c \in Sender: sender[c].pc = "migrate" =>
         Mb!Missing # {} /\ \A k \in DOMAIN mail: mail[k].id \in DOMAIN legacy

LegacyFits ==
    /\ \A k \in DOMAIN legacy: legacy[k].id = k
    /\ \A j, k \in DOMAIN legacy:
         legacy[j].text = legacy[k].text => j = k \/ legacy[j].delivered \/ legacy[k].delivered

MailFits ==
    /\ \A j, k: IsSend(j) /\ IsSend(k) /\ mail[j].id = mail[k].id => j = k
    /\ \A k: IsSend(k) => mail[k].id <= Len(legacy) + k
    /\ \A k \in DOMAIN mail: mail[k].id \in Mb!Ids(mail)
    /\ \A k: IsSend(k) /\ mail[k].id \in DOMAIN legacy =>
         /\ mail[k].text = legacy[mail[k].id].text
         /\ mail[k].delivered = legacy[mail[k].id].delivered
    /\ \A j, k: (/\ IsSend(j) /\ IsSend(k) /\ mail[j].text = mail[k].text
                 /\ Waiting(mail[j].id) /\ Waiting(mail[k].id)) => j = k

Migrating == \E c \in Sender: sender[c].pc = "migrate"

Owing ==
    /\ mail = <<>> \/ Migrating => owed = {}
    /\ \A id \in owed: id \in Mb!Ids(mail) /\ Waiting(id)
    /\ ~ cutOff /\ ~ Migrating /\ mail # <<>> => Mb!Missing = {}

MailInv == MailTyped /\ LegacyFits /\ Holding /\ MailFits /\ Owing

LEMMA MailFacts ==
    ASSUME MailTyped
    PROVE  /\ DOMAIN mail = 1 .. Len(mail) /\ Len(mail) \in Nat
           /\ DOMAIN legacy = 1 .. Len(legacy) /\ Len(legacy) \in Nat
           /\ \A k \in DOMAIN mail:
                /\ mail[k] \in MailEvent /\ mail[k].id \in Nat /\ mail[k].kind \in {"send", "delivered"}
                /\ mail[k].kind = "send" =>
                     mail[k] \in SendEvent /\ mail[k].delivered \in BOOLEAN /\ mail[k].text \in Text
           /\ \A k \in DOMAIN legacy: /\ legacy[k] \in Message /\ legacy[k].text \in Text
                                      /\ legacy[k].delivered \in BOOLEAN
           /\ mail # <<>> <=> Len(mail) > 0
           /\ legacy # <<>> <=> Len(legacy) > 0
  <1>1. /\ DOMAIN mail = 1 .. Len(mail) /\ Len(mail) \in Nat
        /\ DOMAIN legacy = 1 .. Len(legacy) /\ Len(legacy) \in Nat
        /\ \A k \in DOMAIN mail: mail[k] \in MailEvent
        /\ \A k \in DOMAIN legacy: legacy[k] \in Message
    BY DEF MailTyped
  <1>2. \A e \in MailEvent: /\ e.id \in Nat /\ e.kind \in {"send", "delivered"}
                            /\ e.kind = "send" =>
                                 e \in SendEvent /\ e.delivered \in BOOLEAN /\ e.text \in Text
    BY DEF MailEvent, SendEvent, MarkEvent
  <1>3. \A m \in Message: m.text \in Text /\ m.delivered \in BOOLEAN
    BY DEF Message
  <1>4. (mail # <<>> <=> Len(mail) > 0) /\ (legacy # <<>> <=> Len(legacy) > 0)
    BY EmptySeq DEF MailTyped
  <1>  QED  BY <1>1, <1>2, <1>3, <1>4

\* What the journal says of a message is said by its one send event.
LEMMA JournalSays ==
    ASSUME MailTyped, MailFits
    PROVE  /\ \A id: id \in Mb!Ids(mail) <=> \E k: IsSend(k) /\ mail[k].id = id
           /\ \A m: m \in Mb!FromJournal(mail) <=>
                \E k: IsSend(k) /\ m = Mb!Message(mail[k].id, mail[k].text, ~ Waiting(mail[k].id))
  <1>1. \A id: id \in Mb!Ids(mail) <=> \E k: IsSend(k) /\ mail[k].id = id
    BY DEF Mb!Ids, IsSend
  <1>2. ASSUME NEW k, IsSend(k)
        PROVE  Mb!Max({j \in DOMAIN mail: mail[j].kind = "send" /\ mail[j].id = mail[k].id}) = k
    <2>1. {j \in DOMAIN mail: mail[j].kind = "send" /\ mail[j].id = mail[k].id} = {k}
      BY <1>2 DEF MailFits, IsSend
    <2>2. k \in Nat
      BY <1>2, MailFacts DEF IsSend
    <2>  QED  BY <2>1, <2>2, MaxOfOne
  <1>3. \A id: (\E k \in DOMAIN mail: mail[k].id = id /\ (mail[k].kind = "send" => mail[k].delivered))
               <=> ~ Waiting(id)
    BY MailFacts DEF Waiting
  <1>4. \A m: m \in Mb!FromJournal(mail) <=>
          \E id \in Mb!Ids(mail):
            m = Mb!Message(id,
                  mail[Mb!Max({j \in DOMAIN mail: mail[j].kind = "send" /\ mail[j].id = id})].text,
                  \E k \in DOMAIN mail: mail[k].id = id /\ (mail[k].kind = "send" => mail[k].delivered))
    BY DEF Mb!FromJournal
  <1>5. \A id: (\E k \in DOMAIN mail: mail[k].id = id /\ (mail[k].kind = "send" => mail[k].delivered))
               = ~ Waiting(id)
    BY <1>3, Zenon
  <1>6. \A m: m \in Mb!FromJournal(mail) <=>
          \E id \in Mb!Ids(mail):
            m = Mb!Message(id,
                  mail[Mb!Max({j \in DOMAIN mail: mail[j].kind = "send" /\ mail[j].id = id})].text,
                  ~ Waiting(id))
    <2>1. ASSUME NEW id
          PROVE  Mb!Message(id,
                   mail[Mb!Max({j \in DOMAIN mail: mail[j].kind = "send" /\ mail[j].id = id})].text,
                   \E k \in DOMAIN mail: mail[k].id = id /\ (mail[k].kind = "send" => mail[k].delivered))
                 = Mb!Message(id,
                   mail[Mb!Max({j \in DOMAIN mail: mail[j].kind = "send" /\ mail[j].id = id})].text,
                   ~ Waiting(id))
      <3>1. (\E k \in DOMAIN mail: mail[k].id = id /\ (mail[k].kind = "send" => mail[k].delivered))
               = ~ Waiting(id)
        BY <1>5
      <3>  QED  BY <3>1, Zenon
    <2>2. \A id: Mb!Message(id,
                   mail[Mb!Max({j \in DOMAIN mail: mail[j].kind = "send" /\ mail[j].id = id})].text,
                   \E k \in DOMAIN mail: mail[k].id = id /\ (mail[k].kind = "send" => mail[k].delivered))
                 = Mb!Message(id,
                   mail[Mb!Max({j \in DOMAIN mail: mail[j].kind = "send" /\ mail[j].id = id})].text,
                   ~ Waiting(id))
      BY <2>1, Zenon
    <2>3. ASSUME NEW m, NEW id \in Mb!Ids(mail),
                 m = Mb!Message(id,
                   mail[Mb!Max({j \in DOMAIN mail: mail[j].kind = "send" /\ mail[j].id = id})].text,
                   ~ Waiting(id))
          PROVE  m \in Mb!FromJournal(mail)
      <3>1. m = Mb!Message(id,
                   mail[Mb!Max({j \in DOMAIN mail: mail[j].kind = "send" /\ mail[j].id = id})].text,
                   \E k \in DOMAIN mail: mail[k].id = id /\ (mail[k].kind = "send" => mail[k].delivered))
        BY <2>1, <2>3, Zenon
      <3>  QED  BY <1>4, <3>1, Zenon
    <2>4. ASSUME NEW m \in Mb!FromJournal(mail)
          PROVE  \E id \in Mb!Ids(mail):
            m = Mb!Message(id,
                   mail[Mb!Max({j \in DOMAIN mail: mail[j].kind = "send" /\ mail[j].id = id})].text,
                   ~ Waiting(id))
      <3>1. PICK id \in Mb!Ids(mail):
            m = Mb!Message(id,
                   mail[Mb!Max({j \in DOMAIN mail: mail[j].kind = "send" /\ mail[j].id = id})].text,
                   \E k \in DOMAIN mail: mail[k].id = id /\ (mail[k].kind = "send" => mail[k].delivered))
        BY <1>4, Zenon
      <3>2. m = Mb!Message(id,
                   mail[Mb!Max({j \in DOMAIN mail: mail[j].kind = "send" /\ mail[j].id = id})].text,
                   ~ Waiting(id))
        BY <2>1, <3>1, Zenon
      <3>  QED  BY <3>2, Zenon
    <2>  QED  BY <2>3, <2>4, Zenon
  <1>7. ASSUME NEW m, NEW id \in Mb!Ids(mail),
               m = Mb!Message(id,
                  mail[Mb!Max({j \in DOMAIN mail: mail[j].kind = "send" /\ mail[j].id = id})].text,
                  ~ Waiting(id))
        PROVE  \E k: IsSend(k) /\ m = Mb!Message(mail[k].id, mail[k].text, ~ Waiting(mail[k].id))
    <2>1. PICK k: IsSend(k) /\ mail[k].id = id
      BY <1>1
    <2>  QED  BY <2>1, <1>2, <1>7, Zenon
  <1>8. ASSUME NEW m, NEW k, IsSend(k), m = Mb!Message(mail[k].id, mail[k].text, ~ Waiting(mail[k].id))
        PROVE  m \in Mb!FromJournal(mail)
    <2>1. mail[k].id \in Mb!Ids(mail)
      BY <1>1, <1>8
    <2>  QED  BY <2>1, <1>2, <1>6, <1>8, Zenon
  <1>  QED  BY <1>1, <1>6, <1>7, <1>8, Zenon

\* The ids of the file are its positions, and what is missing is what the journal lacks.
LEMMA MissingIs ==
    ASSUME MailTyped, LegacyFits
    PROVE  /\ Mb!Missing = (1 .. Len(legacy)) \ Mb!Ids(mail)
           /\ mail = <<>> => Mb!Ids(mail) = {}
  <1>1. Mb!Missing = (1 .. Len(legacy)) \ Mb!Ids(mail)
    BY MailFacts DEF Mb!Missing, LegacyFits
  <1>2. mail = <<>> => Mb!Ids(mail) = {}
    BY DEF Mb!Ids
  <1>  QED  BY <1>1, <1>2

\* Who lists the mailbox sees the journal's messages, or those of the file.
LEMMA ListedIs ==
    ASSUME MailTyped, MailFits
    PROVE  /\ mail # <<>> => \A m: m \in Mb!Listed <=>
                \E k: IsSend(k) /\ m = Mb!Message(mail[k].id, mail[k].text, ~ Waiting(mail[k].id))
           /\ mail = <<>> => \A m: m \in Mb!Listed <=> \E k \in DOMAIN legacy: m = legacy[k]
  <1>1. mail = <<>> => \A m: m \in Mb!Listed <=> \E k \in DOMAIN legacy: m = legacy[k]
    BY DEF Mb!Listed, Mb!ToSet
  <1>2. mail # <<>> => Mb!Listed = Mb!FromJournal(mail)
    BY DEF Mb!Listed
  <1>  QED  BY <1>1, <1>2, JournalSays

LEMMA MailImplied == MailInv => Mb!InboxKeepsPromises
  <1> SUFFICES ASSUME MailInv, ~ cutOff, \A c \in Sender: sender[c].pc # "migrate" \/ mail = <<>>
               PROVE  /\ \A id \in owed: \E m \in Mb!Listed: m.id = id /\ ~ m.delivered
                      /\ \A m, n \in Mb!Listed: ~ m.delivered /\ ~ n.delivered /\ m.text = n.text => m = n
                      /\ \A k \in DOMAIN legacy:
                           \E m \in Mb!Listed: m.id = k /\ (legacy[k].delivered => m.delivered)
    BY DEF Mb!InboxKeepsPromises
  <1> USE DEF MailInv
  <1>1. ASSUME NEW k
        PROVE  LET m == Mb!Message(mail[k].id, mail[k].text, ~ Waiting(mail[k].id))
               IN m.id = mail[k].id /\ m.text = mail[k].text /\ (m.delivered <=> ~ Waiting(mail[k].id))
    BY DEF Mb!Message
  <1>2. CASE mail = <<>>
    <2>1. owed = {}
      BY <1>2 DEF Owing
    <2>2. \A m, n \in Mb!Listed: ~ m.delivered /\ ~ n.delivered /\ m.text = n.text => m = n
      BY <1>2, ListedIs DEF LegacyFits
    <2>3. \A k \in DOMAIN legacy: legacy[k] \in Mb!Listed /\ legacy[k].id = k
      BY <1>2, ListedIs DEF LegacyFits
    <2>  QED  BY <2>1, <2>2, <2>3
  <1>3. CASE mail # <<>>
    <2>1. Mb!Missing = {}
      BY <1>3 DEF Owing, Migrating
    <2>2. ASSUME NEW id \in owed PROVE \E m \in Mb!Listed: m.id = id /\ ~ m.delivered
      <3>1. PICK k: IsSend(k) /\ mail[k].id = id
        BY JournalSays DEF Owing
      <3>2. Waiting(id)
        BY DEF Owing
      <3>  DEFINE m == Mb!Message(mail[k].id, mail[k].text, ~ Waiting(mail[k].id))
      <3>3. m \in Mb!Listed
        BY <1>3, <3>1, ListedIs
      <3>  QED  BY <3>1, <3>2, <3>3, <1>1
    <2>3. ASSUME NEW m \in Mb!Listed, NEW n \in Mb!Listed,
                 ~ m.delivered, ~ n.delivered, m.text = n.text
          PROVE  m = n
      <3>1. PICK j: IsSend(j) /\ m = Mb!Message(mail[j].id, mail[j].text, ~ Waiting(mail[j].id))
        BY <1>3, <2>3, ListedIs
      <3>2. PICK k: IsSend(k) /\ n = Mb!Message(mail[k].id, mail[k].text, ~ Waiting(mail[k].id))
        BY <1>3, <2>3, ListedIs
      <3>3. Waiting(mail[j].id) /\ Waiting(mail[k].id) /\ mail[j].text = mail[k].text
        BY <1>1, <2>3, <3>1, <3>2
      <3>4. j = k
        BY <3>1, <3>2, <3>3 DEF MailFits
      <3>  QED  BY <3>1, <3>2, <3>4
    <2>4. ASSUME NEW k \in DOMAIN legacy
          PROVE  \E m \in Mb!Listed: m.id = k /\ (legacy[k].delivered => m.delivered)
      <3>1. k \in Mb!Ids(mail)
        BY <2>1, MissingIs, MailFacts
      <3>2. PICK j: IsSend(j) /\ mail[j].id = k
        BY <3>1, JournalSays
      <3>3. mail[j].delivered = legacy[k].delivered
        BY <3>2 DEF MailFits
      <3>4. legacy[k].delivered => ~ Waiting(mail[j].id)
        BY <3>2, <3>3 DEF IsSend, Waiting
      <3>  DEFINE m == Mb!Message(mail[j].id, mail[j].text, ~ Waiting(mail[j].id))
      <3>5. m \in Mb!Listed
        BY <1>3, <3>2, ListedIs
      <3>  QED  BY <3>2, <3>4, <3>5, <1>1
    <2>  QED  BY <2>2, <2>3, <2>4
  <1>  QED  BY <1>2, <1>3

LEMMA MailInitially == Mb!Init => MailInv
  <1> SUFFICES ASSUME Mb!Init PROVE MailInv
    OBVIOUS
  <1>1. legacy \in Seq(Message) /\ \A k \in DOMAIN legacy: legacy[k].id = k
    <2>0. PICK n \in 0 .. 2: \E s \in [1 .. n -> [text: Text, delivered: BOOLEAN]]:
            legacy = [k \in DOMAIN s |-> Mb!Message(k, s[k].text, s[k].delivered)]
      BY DEF Mb!Init
    <2>1. PICK s \in [1 .. n -> [text: Text, delivered: BOOLEAN]]:
            legacy = [k \in DOMAIN s |-> Mb!Message(k, s[k].text, s[k].delivered)]
      BY <2>0
    <2>2. DOMAIN s = 1 .. n /\ n \in Nat
      OBVIOUS
    <2>3. \A k \in 1 .. n: s[k].text \in Text /\ s[k].delivered \in BOOLEAN
      OBVIOUS
    <2>4. \A k \in 1 .. n: /\ Mb!Message(k, s[k].text, s[k].delivered) \in Message
                           /\ Mb!Message(k, s[k].text, s[k].delivered).id = k
      BY <2>2, <2>3 DEF Mb!Message, Message
    <2>5. legacy = [k \in 1 .. n |-> Mb!Message(k, s[k].text, s[k].delivered)]
      BY <2>1, <2>2
    <2>  HIDE DEF Mb!Message
    <2>6. legacy \in [1 .. n -> Message]
      BY <2>4, <2>5
    <2>  QED  BY <2>2, <2>4, <2>5, <2>6
  <1>2. MailTyped
    <2>1. Mb!Rest \in [pc: {"idle", "migrate", "act"}, call: {"send", "mark", None},
                       arg: Text \cup Nat \cup {None}]
      BY DEF Mb!Rest
    <2>2. sender = [c \in Sender |-> Mb!Rest] /\ mail = <<>> /\ cutOff = FALSE
      BY DEF Mb!Init
    <2>3. \A c \in Sender: sender[c].pc = "idle"
      BY <2>2 DEF Mb!Rest
    <2>  HIDE DEF Mb!Rest
    <2>4. sender \in [Sender -> [pc: {"idle", "migrate", "act"}, call: {"send", "mark", None},
                       arg: Text \cup Nat \cup {None}]]
      BY <2>1, <2>2
    <2>5. mail \in Seq(MailEvent) /\ cutOff \in BOOLEAN
      BY <2>2, EmptySeq
    <2>  QED  BY <1>1, <2>3, <2>4, <2>5 DEF MailTyped
  <1>3. LegacyFits
    BY <1>1 DEF Mb!Init, LegacyFits
  <1>4. Holding /\ MailFits /\ Owing
    BY DEF Mb!Init, Holding, MailFits, Owing, Mb!Rest, IsSend, Migrating
  <1>  QED  BY <1>2, <1>3, <1>4 DEF MailInv

-----------------------------------------------------------------------------
\* An event at the end of the journal: what is said of the messages before and after it.
LEMMA Appended ==
    ASSUME MailTyped, NEW e \in MailEvent, mail' = Append(mail, e)
    PROVE  /\ mail' \in Seq(MailEvent) /\ mail' # <<>> /\ Len(mail)' = Len(mail) + 1
           /\ \A k: k \in DOMAIN mail' <=> k \in DOMAIN mail \/ k = Len(mail) + 1
           /\ \A k \in DOMAIN mail: mail'[k] = mail[k] /\ k < Len(mail) + 1
           /\ mail'[Len(mail) + 1] = e
           /\ \A k: IsSend(k)' <=> IsSend(k) \/ (k = Len(mail) + 1 /\ e.kind = "send")
           /\ \A id: Waiting(id)' <=> Waiting(id) /\ (e.id = id => e.kind = "send" /\ ~ e.delivered)
           /\ \A id: id \in Mb!Ids(mail)' <=> id \in Mb!Ids(mail) \/ (e.kind = "send" /\ e.id = id)
  <1>1. /\ mail' \in Seq(MailEvent) /\ Len(mail)' = Len(mail) + 1
        /\ DOMAIN mail = 1 .. Len(mail) /\ Len(mail) \in Nat
        /\ DOMAIN mail' = 1 .. Len(mail) + 1
        /\ \A k \in DOMAIN mail: mail'[k] = mail[k]
        /\ mail'[Len(mail) + 1] = e
    BY DEF MailTyped
  <1>2. mail' # <<>>
    BY <1>1
  <1>3. /\ \A k: k \in DOMAIN mail' <=> k \in DOMAIN mail \/ k = Len(mail) + 1
        /\ \A k \in DOMAIN mail: mail'[k] = mail[k] /\ k < Len(mail) + 1
    BY <1>1
  <1>4. \A k: IsSend(k)' <=> IsSend(k) \/ (k = Len(mail) + 1 /\ e.kind = "send")
    BY <1>1, <1>3 DEF IsSend
  <1>5. \A id: Waiting(id)' <=> Waiting(id) /\ (e.id = id => e.kind = "send" /\ ~ e.delivered)
    BY <1>1, <1>3 DEF Waiting
  <1>6. \A id: id \in Mb!Ids(mail)' <=> id \in Mb!Ids(mail) \/ (e.kind = "send" /\ e.id = id)
    BY <1>1, <1>3 DEF Mb!Ids
  <1>  QED  BY <1>1, <1>2, <1>3, <1>4, <1>5, <1>6

LEMMA MailBegins ==
    ASSUME MailInv, Mb!NoneFits, NEW c \in Sender, NEW call \in {"send", "mark"}, NEW arg \in Text \cup Nat,
           call = "send" => arg \in Text, Mb!Begin(c, call, arg)
    PROVE  MailInv'
  <1> DEFINE pc == IF mail = <<>> /\ legacy # <<>> THEN "migrate" ELSE "act"
  <1>1. /\ legacy' = legacy /\ mail' = mail /\ owed' = owed /\ cutOff' = cutOff
        /\ mailLock = None /\ mailLock' = c
        /\ sender' = [sender EXCEPT ![c] = [pc |-> pc, call |-> call, arg |-> arg]]
    BY DEF Mb!Begin
  <1>2. \A d \in Sender: sender[d].pc = "idle"
    BY <1>1 DEF MailInv, Holding, Mb!NoneFits
  <1>3. /\ sender' \in [Sender -> [pc: {"idle", "migrate", "act"}, call: {"send", "mark", None},
                              arg: Text \cup Nat \cup {None}]]
        /\ sender'[c].pc = pc /\ sender'[c].call = call /\ sender'[c].arg = arg
        /\ \A d \in Sender: d # c => sender'[d].pc = "idle"
    BY <1>1, <1>2 DEF MailInv, MailTyped
  <1>4. MailTyped'
    BY <1>1, <1>3 DEF MailInv, MailTyped
  <1>5. LegacyFits' /\ MailFits'
    BY <1>1 DEF MailInv, LegacyFits, MailFits, IsSend, Waiting, Mb!Ids
  <1>6. (Mb!Missing = {})' <=> Mb!Missing = {}
    BY <1>1 DEF Mb!Missing, Mb!Ids
  <1>7. Migrating' <=> mail = <<>> /\ legacy # <<>>
    BY <1>3 DEF Migrating
  <1>8. ~ Migrating
    BY <1>2 DEF Migrating
  <1>9. Owing'
    BY <1>1, <1>6, <1>7, <1>8 DEF MailInv, Owing, Waiting, Mb!Ids
  <1>10. mail = <<>> /\ legacy # <<>> => Mb!Missing # {} /\ DOMAIN mail = {}
    BY MissingIs, MailFacts DEF MailInv
  <1>11. Holding'
    BY <1>1, <1>3, <1>6, <1>10 DEF Holding
  <1>  QED  BY <1>4, <1>5, <1>9, <1>11 DEF MailInv

LEMMA MailMigrates ==
    ASSUME MailInv, Mb!NoneFits, NEW c \in Sender, Mb!Migrate(c)
    PROVE  MailInv'
  <1> DEFINE k0 == Mb!Min(Mb!Missing)
             e == Mb!Sent(legacy[k0])
             pc == IF Mb!Cardinality(Mb!Missing) = 1 THEN "act" ELSE "migrate"
  <1> USE DEF MailInv
  <1>1. /\ legacy' = legacy /\ mail' = Append(mail, e) /\ owed' = owed /\ cutOff' = cutOff
        /\ mailLock' = mailLock /\ sender[c].pc = "migrate"
        /\ sender' = [sender EXCEPT ![c].pc = pc]
    BY DEF Mb!Migrate
  <1>2. mailLock = c /\ Mb!Missing # {} /\ owed = {} /\ Migrating
        /\ \A k \in DOMAIN mail: mail[k].id \in DOMAIN legacy
    BY <1>1 DEF Holding, Owing, Migrating
  <1>3. Mb!Missing = (1 .. Len(legacy)) \ Mb!Ids(mail) /\ Len(legacy) \in Nat
    BY MissingIs, MailFacts
  <1>4. k0 \in Mb!Missing
    BY <1>2, <1>3, MinIs
  <1>5. k0 \in DOMAIN legacy /\ k0 \notin Mb!Ids(mail) /\ k0 \in Nat /\ k0 <= Len(legacy)
    BY <1>3, <1>4, MailFacts
  <1>6. /\ e \in SendEvent /\ e \in MailEvent /\ e.kind = "send" /\ e.id = k0
        /\ e.text = legacy[k0].text /\ e.delivered = legacy[k0].delivered
    <2>1. legacy[k0] \in Message /\ legacy[k0].id = k0
      BY <1>5, MailFacts DEF LegacyFits
    <2>2. \A m \in Message: /\ Mb!Sent(m) \in SendEvent /\ Mb!Sent(m).kind = "send" /\ Mb!Sent(m).id = m.id
                            /\ Mb!Sent(m).text = m.text /\ Mb!Sent(m).delivered = m.delivered
      BY DEF Mb!Sent, Message, SendEvent
    <2>  QED  BY <2>1, <2>2 DEF MailEvent
  <1>  HIDE DEF e, k0
  <1>7. (pc = "act" <=> Mb!Missing = {k0}) /\ pc \in {"act", "migrate"}
    <2>1. \A S: Mb!Cardinality(S) = Cardinality(S)
      BY ZenonT(60) DEF Mb!Cardinality, Cardinality, Mb!IsFiniteSet, IsFiniteSet
    <2>2. IsFiniteSet(Mb!Missing)
      <3>1. IsFiniteSet(1 .. Len(legacy))
        BY <1>3, FS_Interval
      <3>2. IsFiniteSet((1 .. Len(legacy)) \ Mb!Ids(mail))
        BY <3>1, FS_Difference
      <3>  QED  BY <1>3, <3>2
    <2>3. Cardinality(Mb!Missing) = 1 <=> \E x: Mb!Missing = {x}
      BY <2>2, FS_Singleton
    <2>  QED  BY <2>1, <2>3, <1>4
  <1>  HIDE DEF pc
  <1>8. /\ sender' \in [Sender -> [pc: {"idle", "migrate", "act"}, call: {"send", "mark", None},
                              arg: Text \cup Nat \cup {None}]]
        /\ sender'[c].pc = pc /\ sender'[c].call = sender[c].call /\ sender'[c].arg = sender[c].arg
        /\ \A d \in Sender: d # c => sender'[d] = sender[d]
    BY <1>1, <1>7 DEF MailTyped
  <1>9. \A d \in Sender: d # c => sender'[d].pc = "idle"
    BY <1>2, <1>8 DEF Holding
  <1>10. MailTyped'
    BY <1>1, <1>6, <1>8, <1>9, Appended DEF MailTyped
  <1>11. LegacyFits'
    BY <1>1 DEF LegacyFits
  <1>12. \A id: id \in Mb!Ids(mail)' <=> id \in Mb!Ids(mail) \/ id = k0
    BY <1>1, <1>6, Appended
  <1>13. \A id: id \in Mb!Missing' <=> id \in Mb!Missing /\ id # k0
    BY <1>1, <1>12 DEF Mb!Missing, LegacyFits
  <1>14. \A j, k: IsSend(j)' /\ IsSend(k)' /\ mail'[j].id = mail'[k].id => j = k
    <2>1. \A k: IsSend(k) => mail[k].id \in Mb!Ids(mail)
      BY JournalSays
    <2>  QED  BY <2>1, <1>1, <1>5, <1>6, Appended DEF MailFits, IsSend
  <1>15. \A k: IsSend(k)' => mail'[k].id <= Len(legacy)' + k
    BY <1>1, <1>5, <1>6, Appended, MailFacts DEF MailFits, IsSend
  <1>16. \A k \in DOMAIN mail': mail'[k].id \in Mb!Ids(mail)' /\ mail'[k].id \in DOMAIN legacy
    BY <1>1, <1>2, <1>5, <1>6, <1>12, Appended DEF MailFits
  <1>17. \A k: IsSend(k)' /\ mail'[k].id \in DOMAIN legacy' =>
           /\ mail'[k].text = legacy'[mail'[k].id].text
           /\ mail'[k].delivered = legacy'[mail'[k].id].delivered
    BY <1>1, <1>6, Appended DEF MailFits, IsSend
  <1>18. \A j, k, x, y: (/\ IsSend(j)' /\ IsSend(k)' /\ mail'[j].text = mail'[k].text
                         /\ x = mail'[j].id /\ y = mail'[k].id /\ Waiting(x)' /\ Waiting(y)') => j = k
    <2>  SUFFICES ASSUME NEW j, NEW k, IsSend(j)', IsSend(k)', mail'[j].text = mail'[k].text,
                         NEW x, NEW y, x = mail'[j].id, y = mail'[k].id, Waiting(x)', Waiting(y)'
                  PROVE  j = k
      OBVIOUS
    <2>1. ~ mail'[j].delivered /\ ~ mail'[k].delivered
      BY DEF IsSend, Waiting
    <2>2. /\ mail'[j].text = legacy[x].text /\ mail'[j].delivered = legacy[x].delivered
          /\ mail'[k].text = legacy[y].text /\ mail'[k].delivered = legacy[y].delivered
          /\ x \in DOMAIN legacy /\ y \in DOMAIN legacy
      BY <1>1, <1>16, <1>17 DEF IsSend
    <2>3. x = y
      BY <2>1, <2>2 DEF LegacyFits
    <2>  QED  BY <2>3, <1>14
  <1>19. MailFits'
    BY <1>14, <1>15, <1>16, <1>17, <1>18 DEF MailFits, Waiting, IsSend
  <1>20. Migrating' <=> pc = "migrate"
    BY <1>8, <1>9 DEF Migrating
  <1>21. Owing'
    BY <1>1, <1>2, <1>4, <1>7, <1>13, <1>20 DEF Owing
  <1>22. mail' # <<>>
    BY <1>1, <1>6, Appended
  <1>23. pc = "migrate" => Mb!Missing' # {}
    BY <1>4, <1>7, <1>13
  <1>24. Holding'
    BY <1>1, <1>2, <1>8, <1>9, <1>16, <1>22, <1>23 DEF Holding
  <1>  QED  BY <1>10, <1>11, <1>19, <1>21, <1>24


LEMMA MailActs ==
    ASSUME MailInv, Mb!NoneFits, NEW c \in Sender, sender[c].pc = "act"
    PROVE  /\ mailLock = c /\ ~ Migrating /\ \A d \in Sender: d # c => sender[d].pc = "idle"
           /\ mail = <<>> => legacy = <<>> /\ Mb!Listed = {} /\ Mb!Missing = {}
           /\ mail # <<>> => \A m: m \in Mb!Listed <=>
                \E k: IsSend(k) /\ m = Mb!Message(mail[k].id, mail[k].text, ~ Waiting(mail[k].id))
  <1> USE DEF MailInv
  <1>1. mailLock = c /\ \A d \in Sender: d # c => sender[d].pc = "idle"
    BY DEF Holding
  <1>2. ~ Migrating
    BY <1>1 DEF Migrating
  <1>3. mail = <<>> => legacy = <<>>
    BY DEF Holding
  <1>4. legacy = <<>> => DOMAIN legacy = {}
    OBVIOUS
  <1>5. mail = <<>> => Mb!Listed = {} /\ Mb!Missing = {}
    BY <1>3, <1>4, ListedIs DEF Mb!Missing
  <1>  QED  BY <1>1, <1>2, <1>3, <1>5, ListedIs

\* After a call everybody is idle again, and nothing else matters to who holds what.
LEMMA MailRests ==
    ASSUME MailInv, NEW c \in Sender, \A d \in Sender: d # c => sender[d].pc = "idle", Mb!End(c)
    PROVE  /\ sender' \in [Sender -> [pc: {"idle", "migrate", "act"}, call: {"send", "mark", None},
                              arg: Text \cup Nat \cup {None}]]
           /\ \A d \in Sender: sender'[d].pc = "idle"
           /\ Holding' /\ ~ Migrating'
  <1>1. Mb!Rest \in [pc: {"idle", "migrate", "act"}, call: {"send", "mark", None},
                       arg: Text \cup Nat \cup {None}] /\ Mb!Rest.pc = "idle"
    BY DEF Mb!Rest
  <1>2. sender' = [sender EXCEPT ![c] = Mb!Rest]
    BY DEF Mb!End
  <1>  HIDE DEF Mb!Rest
  <1>3. /\ sender' \in [Sender -> [pc: {"idle", "migrate", "act"}, call: {"send", "mark", None},
                              arg: Text \cup Nat \cup {None}]]
        /\ \A d \in Sender: sender'[d].pc = "idle"
    BY <1>1, <1>2 DEF MailInv, MailTyped
  <1>  QED  BY <1>3 DEF Holding, Migrating

LEMMA MailSends ==
    ASSUME MailInv, Mb!NoneFits, NEW c \in Sender, Mb!ActSend(c)
    PROVE  MailInv'
  <1> DEFINE text == sender[c].arg
             same == {m \in Mb!Listed: Mb!Same(m, text)}
             n == Mb!NewId
             e == Mb!Sent(Mb!Message(n, text, FALSE))
  <1> USE DEF MailInv
  <1>1. /\ sender[c].pc = "act" /\ sender[c].call = "send" /\ Mb!End(c)
        /\ legacy' = legacy /\ cutOff' = cutOff
        /\ \/ same # {} /\ (\E m \in same: owed' = owed \cup {m.id}) /\ mail' = mail
           \/ same = {} /\ mail' = Append(mail, e) /\ owed' = owed \cup {n}
    BY DEF Mb!ActSend
  <1>2. /\ ~ Migrating /\ \A d \in Sender: d # c => sender[d].pc = "idle"
        /\ mail = <<>> => legacy = <<>> /\ Mb!Listed = {} /\ Mb!Missing = {}
        /\ mail # <<>> => \A m: m \in Mb!Listed <=>
                \E k: IsSend(k) /\ m = Mb!Message(mail[k].id, mail[k].text, ~ Waiting(mail[k].id))
    BY <1>1, MailActs
  <1>3. /\ sender' \in [Sender -> [pc: {"idle", "migrate", "act"}, call: {"send", "mark", None},
                              arg: Text \cup Nat \cup {None}]]
        /\ \A d \in Sender: sender'[d].pc = "idle"
        /\ Holding' /\ ~ Migrating'
    BY <1>1, <1>2, MailRests
  <1>4. LegacyFits' /\ text \in Text
    BY <1>1 DEF LegacyFits, MailTyped
  <1>5. ASSUME NEW k
        PROVE  LET m == Mb!Message(mail[k].id, mail[k].text, ~ Waiting(mail[k].id))
               IN m.id = mail[k].id /\ m.text = mail[k].text /\ (m.delivered <=> ~ Waiting(mail[k].id))
    BY DEF Mb!Message
  <1>6. CASE same # {} /\ (\E m \in same: owed' = owed \cup {m.id}) /\ mail' = mail
    <2>1. PICK m \in same: owed' = owed \cup {m.id}
      BY <1>6
    <2>2. m \in Mb!Listed /\ ~ m.delivered
      BY <2>1 DEF Mb!Same
    <2>3. mail # <<>>
      BY <1>2, <2>2
    <2>4. PICK k: IsSend(k) /\ m = Mb!Message(mail[k].id, mail[k].text, ~ Waiting(mail[k].id))
      BY <1>2, <2>2, <2>3
    <2>5. m.id \in Mb!Ids(mail) /\ Waiting(m.id)
      BY <1>5, <2>2, <2>4, JournalSays
    <2>6. MailTyped' /\ MailFits'
      BY <1>1, <1>3, <1>6 DEF MailTyped, MailFits, IsSend, Waiting, Mb!Ids
    <2>7. (Mb!Missing = {})' <=> Mb!Missing = {}
      BY <1>1, <1>6 DEF Mb!Missing, Mb!Ids
    <2>8. \A id \in owed': id \in Mb!Ids(mail)' /\ Waiting(id)'
      BY <1>6, <2>1, <2>5 DEF Owing, Waiting, Mb!Ids
    <2>9. Owing'
      BY <1>1, <1>2, <1>3, <1>6, <2>3, <2>7, <2>8 DEF Owing
    <2>  QED  BY <1>3, <1>4, <2>6, <2>9
  <1>7. CASE same = {} /\ mail' = Append(mail, e) /\ owed' = owed \cup {n}
    <2>1. /\ n \in Nat /\ n <= Len(legacy) + Len(mail) + 1
          /\ n \notin Mb!Ids(mail) /\ n \notin DOMAIN legacy
      <3>  DEFINE T == Mb!Ids(mail) \cup {m.id: m \in Mb!ToSet(legacy)} \cup {0}
      <3>1. \A x: x \in {m.id: m \in Mb!ToSet(legacy)} <=> x \in DOMAIN legacy
        BY DEF Mb!ToSet, LegacyFits
      <3>2. \A x \in T: x \in Nat /\ x <= Len(legacy) + Len(mail)
        <4>1. \A x \in Mb!Ids(mail): x \in Nat /\ x <= Len(legacy) + Len(mail)
          BY JournalSays, MailFacts DEF MailFits, IsSend
        <4>2. \A x \in DOMAIN legacy: x \in Nat /\ x <= Len(legacy) + Len(mail)
          BY MailFacts
        <4>  QED  BY <3>1, <4>1, <4>2, MailFacts
      <3>3. n = Mb!Max(T) + 1
        BY DEF Mb!NewId
      <3>4. 0 \in T /\ (\A x \in Mb!Ids(mail): x \in T) /\ (\A x \in DOMAIN legacy: x \in T)
        BY <3>1
      <3>  HIDE DEF T, n
      <3>5. Mb!Max(T) \in T /\ \A y \in T: Mb!Max(T) >= y
        <4>1. Len(legacy) + Len(mail) \in Nat
          BY MailFacts
        <4>2. T \in SUBSET Nat /\ T # {}
          BY <3>2, <3>4
        <4>  QED  BY <3>2, <4>1, <4>2, MaxIs
      <3>6. Mb!Max(T) \in Nat /\ Mb!Max(T) <= Len(legacy) + Len(mail) /\ \A y \in T: y \in Nat
        BY <3>2, <3>5
      <3>7. n \notin T
        BY <3>3, <3>5, <3>6
      <3>  QED  BY <3>3, <3>4, <3>6, <3>7, MailFacts
    <2>  HIDE DEF n
    <2>2. /\ e \in MailEvent /\ e.kind = "send" /\ e.id = n /\ e.text = text /\ e.delivered = FALSE
      BY <1>4, <2>1 DEF MailEvent, SendEvent, Mb!Sent, Mb!Message
    <2>  HIDE DEF e
    <2>3. /\ \A k: k \in DOMAIN mail' <=> k \in DOMAIN mail \/ k = Len(mail) + 1
          /\ \A k \in DOMAIN mail: mail'[k] = mail[k] /\ k < Len(mail) + 1
          /\ mail'[Len(mail) + 1] = e
          /\ \A k: IsSend(k)' <=> IsSend(k) \/ k = Len(mail) + 1
          /\ \A id: Waiting(id)' <=> Waiting(id)
          /\ \A id: id \in Mb!Ids(mail)' <=> id \in Mb!Ids(mail) \/ id = n
          /\ mail' \in Seq(MailEvent) /\ mail' # <<>>
      BY <1>7, <2>2, Appended
    <2>4. MailTyped'
      BY <1>1, <1>3, <2>3 DEF MailTyped
    <2>5. \A k: IsSend(k) => mail[k].id \in Mb!Ids(mail) /\ mail[k].id # n /\ k \in DOMAIN mail
      BY <2>1, JournalSays DEF IsSend
    <2>6. \A j, k: IsSend(j)' /\ IsSend(k)' /\ mail'[j].id = mail'[k].id => j = k
      BY <2>2, <2>3, <2>5 DEF MailFits
    <2>7. \A k: IsSend(k)' => mail'[k].id <= Len(legacy)' + k
      BY <1>1, <2>1, <2>2, <2>3, <2>5, MailFacts DEF MailFits
    <2>8. \A k \in DOMAIN mail': mail'[k].id \in Mb!Ids(mail)'
      BY <2>2, <2>3 DEF MailFits
    <2>9. \A k: IsSend(k)' /\ mail'[k].id \in DOMAIN legacy' =>
           /\ mail'[k].text = legacy'[mail'[k].id].text
           /\ mail'[k].delivered = legacy'[mail'[k].id].delivered
      BY <1>1, <2>1, <2>2, <2>3, <2>5 DEF MailFits
    <2>10. ASSUME NEW k, IsSend(k), mail[k].text = text, Waiting(mail[k].id) PROVE FALSE
      <3>1. mail # <<>>
        BY <2>10, MailFacts DEF IsSend
      <3>  DEFINE m == Mb!Message(mail[k].id, mail[k].text, ~ Waiting(mail[k].id))
      <3>2. m \in Mb!Listed
        BY <1>2, <2>10, <3>1
      <3>3. m.text = text /\ ~ m.delivered
        BY <1>5, <2>10
      <3>  QED  BY <1>7, <3>2, <3>3 DEF Mb!Same
    <2>11. \A j, k, x, y: (/\ IsSend(j)' /\ IsSend(k)' /\ mail'[j].text = mail'[k].text
                         /\ x = mail'[j].id /\ y = mail'[k].id /\ Waiting(x)' /\ Waiting(y)') => j = k
      BY <2>2, <2>3, <2>5, <2>10 DEF MailFits
    <2>12. MailFits'
      BY <2>6, <2>7, <2>8, <2>9, <2>11 DEF MailFits, Waiting, IsSend
    <2>13. Waiting(n)
      BY <2>1 DEF MailFits, Waiting
    <2>14. \A id \in owed': id \in Mb!Ids(mail)' /\ Waiting(id)'
      BY <1>7, <2>3, <2>13 DEF Owing
    <2>15. \A k: k \in Mb!Missing' => k \in Mb!Missing
      BY <1>1, <2>3 DEF Mb!Missing
    <2>16. cutOff \/ Mb!Missing = {}
      BY <1>2 DEF Owing
    <2>17. Owing'
      BY <1>1, <1>3, <2>3, <2>14, <2>15, <2>16 DEF Owing
    <2>  QED  BY <1>3, <1>4, <2>4, <2>12, <2>17
  <1>  QED  BY <1>1, <1>6, <1>7

LEMMA MailMarks ==
    ASSUME MailInv, Mb!NoneFits, NEW c \in Sender, Mb!ActMark(c)
    PROVE  MailInv'
  <1> DEFINE id == sender[c].arg
             e == Mb!Delivered(id)
  <1> USE DEF MailInv
  <1>1. /\ sender[c].pc = "act" /\ Mb!End(c) /\ legacy' = legacy /\ cutOff' = cutOff
        /\ \/ (\E m \in Mb!Listed: m.id = id) /\ mail' = Append(mail, e) /\ owed' = owed \ {id}
           \/ mail' = mail /\ owed' = owed
    BY DEF Mb!ActMark
  <1>2. /\ ~ Migrating /\ \A d \in Sender: d # c => sender[d].pc = "idle"
        /\ mail = <<>> => legacy = <<>> /\ Mb!Listed = {} /\ Mb!Missing = {}
        /\ mail # <<>> => \A m: m \in Mb!Listed <=>
                \E k: IsSend(k) /\ m = Mb!Message(mail[k].id, mail[k].text, ~ Waiting(mail[k].id))
    BY <1>1, MailActs
  <1>3. /\ sender' \in [Sender -> [pc: {"idle", "migrate", "act"}, call: {"send", "mark", None},
                              arg: Text \cup Nat \cup {None}]]
        /\ \A d \in Sender: sender'[d].pc = "idle"
        /\ Holding' /\ ~ Migrating'
    BY <1>1, <1>2, MailRests
  <1>4. LegacyFits'
    BY <1>1 DEF LegacyFits
  <1>5. ASSUME mail' = mail, owed' = owed PROVE MailInv'
    <2>1. MailTyped' /\ MailFits'
      BY <1>1, <1>3, <1>5 DEF MailTyped, MailFits, IsSend, Waiting, Mb!Ids
    <2>2. (Mb!Missing = {})' <=> Mb!Missing = {}
      BY <1>1, <1>5 DEF Mb!Missing, Mb!Ids
    <2>3. Owing'
      BY <1>1, <1>2, <1>3, <1>5, <2>2 DEF Owing, Waiting, Mb!Ids
    <2>  QED  BY <1>3, <1>4, <2>1, <2>3
  <1>6. CASE (\E m \in Mb!Listed: m.id = id) /\ mail' = Append(mail, e) /\ owed' = owed \ {id}
    <2>1. PICK m \in Mb!Listed: m.id = id
      BY <1>6
    <2>2. mail # <<>>
      BY <1>2, <2>1
    <2>3. PICK s: IsSend(s) /\ m = Mb!Message(mail[s].id, mail[s].text, ~ Waiting(mail[s].id))
      BY <1>2, <2>1, <2>2
    <2>4. mail[s].id = id
      BY <2>1, <2>3 DEF Mb!Message
    <2>5. id \in Mb!Ids(mail) /\ id \in Nat
      BY <2>3, <2>4, JournalSays, MailFacts DEF IsSend
    <2>6. e \in MailEvent /\ e.kind = "delivered" /\ e.id = id
      BY <2>5 DEF MailEvent, MarkEvent, Mb!Delivered
    <2>  HIDE DEF e, id
    <2>7. /\ \A k: k \in DOMAIN mail' <=> k \in DOMAIN mail \/ k = Len(mail) + 1
          /\ \A k \in DOMAIN mail: mail'[k] = mail[k] /\ k < Len(mail) + 1
          /\ mail'[Len(mail) + 1] = e
          /\ \A k: IsSend(k)' <=> IsSend(k)
          /\ \A i: Waiting(i)' <=> Waiting(i) /\ i # id
          /\ \A i: i \in Mb!Ids(mail)' <=> i \in Mb!Ids(mail)
          /\ mail' \in Seq(MailEvent) /\ mail' # <<>>
      BY <1>6, <2>6, Appended
    <2>8. MailTyped'
      BY <1>1, <1>3, <2>7 DEF MailTyped
    <2>9. \A k: IsSend(k) => k \in DOMAIN mail
      BY DEF IsSend
    <2>10. \A j, k: IsSend(j)' /\ IsSend(k)' /\ mail'[j].id = mail'[k].id => j = k
      BY <2>7, <2>9 DEF MailFits
    <2>11. \A k: IsSend(k)' => mail'[k].id <= Len(legacy)' + k
      BY <1>1, <2>7, <2>9 DEF MailFits
    <2>12. \A k \in DOMAIN mail': mail'[k].id \in Mb!Ids(mail)'
      BY <2>5, <2>6, <2>7 DEF MailFits
    <2>13. \A k: IsSend(k)' /\ mail'[k].id \in DOMAIN legacy' =>
           /\ mail'[k].text = legacy'[mail'[k].id].text
           /\ mail'[k].delivered = legacy'[mail'[k].id].delivered
      BY <1>1, <2>7, <2>9 DEF MailFits
    <2>14. \A j, k, x, y: (/\ IsSend(j)' /\ IsSend(k)' /\ mail'[j].text = mail'[k].text
                         /\ x = mail'[j].id /\ y = mail'[k].id /\ Waiting(x)' /\ Waiting(y)') => j = k
      BY <2>7, <2>9 DEF MailFits
    <2>15. MailFits'
      BY <2>10, <2>11, <2>12, <2>13, <2>14 DEF MailFits, Waiting, IsSend
    <2>16. \A i \in owed': i \in Mb!Ids(mail)' /\ Waiting(i)'
      BY <1>6, <2>7 DEF Owing
    <2>17. \A k: k \in Mb!Missing' <=> k \in Mb!Missing
      BY <1>1, <2>7 DEF Mb!Missing
    <2>18. Owing'
      BY <1>1, <1>2, <1>3, <2>2, <2>7, <2>16, <2>17 DEF Owing
    <2>  QED  BY <1>3, <1>4, <2>8, <2>15, <2>18
  <1>  QED  BY <1>1, <1>5, <1>6

LEMMA MailKilled ==
    ASSUME MailInv, Mb!NoneFits, NEW c \in Sender, Mb!Kill(c)
    PROVE  MailInv'
  <1> USE DEF MailInv
  <1>1. /\ legacy' = legacy /\ mail' = mail /\ owed' = owed /\ Mb!End(c)
        /\ cutOff' = (cutOff \/ (sender[c].pc = "migrate" /\ mail # <<>>))
        /\ sender[c].pc # "idle"
    BY DEF Mb!Kill
  <1>2. \A d \in Sender: d # c => sender[d].pc = "idle"
    BY <1>1 DEF Holding
  <1>3. /\ sender' \in [Sender -> [pc: {"idle", "migrate", "act"}, call: {"send", "mark", None},
                              arg: Text \cup Nat \cup {None}]]
        /\ \A d \in Sender: sender'[d].pc = "idle"
        /\ Holding' /\ ~ Migrating'
    BY <1>1, <1>2, MailRests
  <1>4. cutOff' \in BOOLEAN /\ (cutOff' <=> (cutOff \/ (sender[c].pc = "migrate" /\ mail # <<>>)))
    BY <1>1
  <1>5. MailTyped' /\ LegacyFits' /\ MailFits'
    BY <1>1, <1>3, <1>4 DEF MailTyped, LegacyFits, MailFits, IsSend, Waiting, Mb!Ids
  <1>6. Migrating <=> sender[c].pc = "migrate"
    BY <1>2 DEF Migrating
  <1>7. (Mb!Missing = {})' <=> Mb!Missing = {}
    BY <1>1 DEF Mb!Missing, Mb!Ids
  <1>8. Owing'
    BY <1>1, <1>3, <1>4, <1>6, <1>7 DEF Owing, Waiting, Mb!Ids
  <1>  QED  BY <1>3, <1>5, <1>8

LEMMA MailStepKeeps ==
    ASSUME MailInv, Mb!NoneFits, [Mb!Next]_(Mb!vars)
    PROVE  MailInv'
  <1>1. ASSUME NEW c \in Sender, NEW text \in Text, Mb!Send(c, text) PROVE MailInv'
    BY <1>1, MailBegins DEF Mb!Send
  <1>2. ASSUME NEW c \in Sender, NEW id \in {m.id: m \in Mb!Listed}, Mb!Mark(c, id) PROVE MailInv'
    <2>1. id \in Nat
      <3>1. PICK m \in Mb!Listed: id = m.id
        BY <1>2
      <3>2. CASE mail = <<>>
        BY <3>1, <3>2, ListedIs, MailFacts DEF MailInv, LegacyFits
      <3>3. CASE mail # <<>>
        <4>1. PICK k: IsSend(k) /\ m = Mb!Message(mail[k].id, mail[k].text, ~ Waiting(mail[k].id))
          BY <3>1, <3>3, ListedIs DEF MailInv
        <4>  QED  BY <3>1, <4>1, MailFacts DEF MailInv, IsSend, Mb!Message
      <3>  QED  BY <3>2, <3>3
    <2>2. Mb!Begin(c, "mark", id)
      BY <1>2 DEF Mb!Mark
    <2>  QED  BY <2>1, <2>2, MailBegins
  <1>3. ASSUME UNCHANGED Mb!vars PROVE MailInv'
    <2>1. /\ legacy' = legacy /\ mail' = mail /\ owed' = owed /\ cutOff' = cutOff
          /\ sender' = sender /\ mailLock' = mailLock
      BY <1>3 DEF Mb!vars
    <2>2. MailTyped' /\ LegacyFits' /\ MailFits'
      BY <2>1 DEF MailInv, MailTyped, LegacyFits, MailFits, IsSend, Waiting, Mb!Ids
    <2>3. Mb!Missing' = Mb!Missing
      BY <2>1 DEF Mb!Missing, Mb!Ids
    <2>4. Holding'
      BY <2>1, <2>3 DEF MailInv, Holding
    <2>5. Migrating' <=> Migrating
      BY <2>1 DEF Migrating
    <2>6. Owing'
      BY <2>1, <2>3, <2>5 DEF MailInv, Owing, Waiting, Mb!Ids
    <2>  QED  BY <2>2, <2>4, <2>6 DEF MailInv
  <1>  QED  BY <1>1, <1>2, <1>3, MailMigrates, MailSends, MailMarks, MailKilled DEF Mb!Next

\* What a send returned is in the inbox until it is marked, a text waits once at most, and the
\* messages of the older file are there (sendDirectMessage, markMessageDelivered and
\* listMailboxMessages in team/mailbox.ts).
THEOREM InboxKept == ASSUME Mb!NoneFits PROVE Mb!Spec => []Mb!InboxKeepsPromises
  <1>1. MailInv /\ [Mb!Next]_Mb!vars => MailInv'
    BY MailStepKeeps
  <1>2. Mb!Init => MailInv
    BY MailInitially
  <1>3. MailInv => Mb!InboxKeepsPromises
    BY MailImplied
  <1> QED  BY <1>1, <1>2, <1>3, PTL DEF Mb!Spec

-----------------------------------------------------------------------------
(* TaskCreation.  Who holds the config's lock is alone with the next       *)
(* number; who has something to be blocked by holds the dependencies'      *)
(* lock; and a file that differs from its journal has been changed before  *)
(* its creation was recorded, or is one of those that were undone.         *)

CreationParameters == MaxTasks \in Nat /\ Cr!NoneFits

Maker == [pc: {"idle", "dep", "config", "check", "find", "occupied", "journal", "count"},
          request: Request \cup {None}, task: Cr!Task \cup {None}]
Copy == [id: Cr!Id, task: Cr!Task]
Gift == [id: Cr!Id, request: Request]

MakeTyped ==
    /\ taskFile \in [Cr!Id -> Cr!Task \cup {None}] /\ history \in [Cr!Id -> Cr!Task \cup {None}]
    /\ next \in 1 .. MaxTasks + 1
    /\ creator \in [Creator -> Maker]
    /\ \A c \in Creator: creator[c].pc # "idle" => creator[c].request \in Request
    /\ rebuild \in [Creator \cup Reader -> Copy \cup {None}]
    /\ finisher \in Cr!Id \cup {None}
    /\ given \in Seq(Gift)

Locked ==
    /\ \A c \in Creator: creator[c].pc \in {"idle", "dep", "config"} <=> configLock # c
    /\ \A c \in Creator:
         creator[c].pc \notin {"idle", "dep"} /\ creator[c].request.after # {} => depLock = c
    /\ finisher # None => depLock = "worker"

Numbered ==
    /\ \A t \in Cr!Known: t <= next
    /\ \A c \in Creator: creator[c].pc \in {"journal", "count"} =>
         next \in Cr!Known /\ Cr!Current(next).request = creator[c].request
    /\ \A k \in DOMAIN given:
         /\ given[k].id \in Cr!Known /\ given[k].id < next
         /\ Cr!Current(given[k].id).request = given[k].request
    /\ \A j, k \in DOMAIN given: given[j].id = given[k].id => j = k \/ given[j].request.rid # None

AskedOnce ==
    /\ \A t, u \in Cr!Known:
         Cr!Current(t).request.rid = Cr!Current(u).request.rid => t = u \/ Cr!Current(t).request.rid = None
    /\ \A c \in Creator: creator[c].pc = "find" => creator[c].request.rid # None
    /\ \A c \in Creator: creator[c].pc = "occupied" /\ creator[c].request.rid # None =>
         \A t \in Cr!Known: Cr!Current(t).request.rid # creator[c].request.rid
    /\ \A c \in Creator: creator[c].pc \in {"find", "occupied", "journal", "count"} =>
         \A u \in creator[c].request.after: u \in Cr!Known
    /\ \A t \in Cr!Known: \A u \in Cr!Current(t).request.after: u \in Cr!Known

SameRequest ==
    /\ \A t \in Cr!Id: taskFile[t] # None /\ history[t] # None => taskFile[t].request = history[t].request
    /\ \A x \in Creator \cup Reader: rebuild[x] # None =>
         /\ history[rebuild[x].id] # None
         /\ rebuild[x].task.request = history[rebuild[x].id].request
         /\ rebuild[x].task.status \in {"pending", "in_progress"}
    /\ \A c \in Creator: creator[c].pc = "journal" =>
         /\ creator[c].task \in Cr!Task /\ creator[c].task.request = creator[c].request
         /\ creator[c].task.version = 1
         /\ \/ creator[c].task.status = "pending"
            \/ creator[c].task.status = "blocked" /\ creator[c].request.after # {}

Recorded ==
    /\ \A t \in Cr!Id: taskFile[t] = None /\ history[t] # None =>
         history[t].status \in {"pending", "in_progress"}
    /\ \A c \in Creator: creator[c].pc = "journal" =>
         /\ creator[c].task.status # "pending" => taskFile[next] = creator[c].task /\ history[next] = None
         /\ history[next] # None => history[next].version # 1
         /\ \A x \in Creator \cup Reader:
              rebuild[x] # None /\ rebuild[x].id = next => rebuild[x].task.version # 1
    /\ \A t \in Cr!Id: t \notin undone /\ taskFile[t] # None /\ history[t] # None /\ taskFile[t] # history[t] =>
         /\ history[t].version = 1
         /\ \A x \in Creator \cup Reader:
              rebuild[x] # None /\ rebuild[x].id = t => rebuild[x].task.version # 1

Clean(t) == t \notin undone /\ \A u \in Cr!Current(t).request.after: u \notin undone
Reason(t) == \/ finisher # None /\ finisher \in Cr!Current(t).request.after
             \/ \E u \in Cr!Current(t).request.after: Cr!Current(u).status # "completed"

Waits == \A t \in Cr!Known: Clean(t) => (Cr!Current(t).status = "blocked" <=> Reason(t))

MakeInv == MakeTyped /\ Locked /\ Numbered /\ AskedOnce /\ SameRequest /\ Recorded /\ Waits

LEMMA MakeFacts ==
    ASSUME MakeTyped, CreationParameters
    PROVE  /\ \A t: t \in Cr!Known <=> t \in Cr!Id /\ (taskFile[t] # None \/ history[t] # None)
           /\ \A t \in Cr!Known: Cr!Current(t) \in Cr!Task
           /\ \A t \in Cr!Id: t \in Nat /\ t # None /\ t <= MaxTasks
           /\ next \in Nat /\ next >= 1 /\ MaxTasks \in Nat
           /\ \A n \in Nat: n >= 1 /\ n <= MaxTasks => n \in Cr!Id
           /\ None \notin Creator /\ None \notin Cr!Task /\ None \notin Copy
           /\ "worker" \notin Creator /\ "worker" # None
           /\ \A t \in Cr!Id: taskFile[t] \in Cr!Task \cup {None} /\ history[t] \in Cr!Task \cup {None}
           /\ \A x \in Creator \cup Reader: rebuild[x] # None =>
                /\ rebuild[x].id \in Cr!Id /\ rebuild[x].task \in Cr!Task
                /\ rebuild[x].task # None
           /\ \A task \in Cr!Task: /\ task.request \in Request /\ task.version \in Nat /\ task.version > 0
                                   /\ task.status \in {"pending", "blocked", "in_progress", "completed"}
  <1>1. \A t: t \in Cr!Known <=> t \in Cr!Id /\ (taskFile[t] # None \/ history[t] # None)
    BY DEF Cr!Known
  <1>2. \A t \in Cr!Id: taskFile[t] \in Cr!Task \cup {None} /\ history[t] \in Cr!Task \cup {None}
    BY DEF MakeTyped
  <1>3. \A t \in Cr!Known: Cr!Current(t) \in Cr!Task
    BY <1>1, <1>2 DEF Cr!Current
  <1>4. \A t \in Cr!Id: t \in Nat /\ t # None /\ t <= MaxTasks
    BY DEF CreationParameters, Cr!NoneFits, Cr!Id
  <1>5. next \in Nat /\ next >= 1 /\ MaxTasks \in Nat
    BY DEF MakeTyped, CreationParameters
  <1>6. \A n \in Nat: n >= 1 /\ n <= MaxTasks => n \in Cr!Id
    BY <1>5 DEF Cr!Id
  <1>7. /\ None \notin Creator /\ None \notin Cr!Task /\ None \notin Copy
        /\ "worker" \notin Creator /\ "worker" # None
    BY DEF CreationParameters, Cr!NoneFits, Copy
  <1>8. \A copy \in Copy: copy.id \in Cr!Id /\ copy.task \in Cr!Task
    BY DEF Copy
  <1>9. \A x \in Creator \cup Reader: rebuild[x] # None =>
                /\ rebuild[x].id \in Cr!Id /\ rebuild[x].task \in Cr!Task
                /\ rebuild[x].task # None
    BY <1>7, <1>8 DEF MakeTyped
  <1>10. \A task \in Cr!Task: /\ task.request \in Request /\ task.version \in Nat /\ task.version > 0
                              /\ task.status \in {"pending", "blocked", "in_progress", "completed"}
    BY DEF Cr!Task, Cr!Status
  <1>  QED  BY <1>1, <1>2, <1>3, <1>4, <1>5, <1>6, <1>7, <1>9, <1>10

LEMMA CreationImplied == CreationParameters /\ MakeInv => Cr!CreatedOnce /\ Cr!WaitsForReason
  <1> SUFFICES ASSUME CreationParameters, MakeInv PROVE Cr!CreatedOnce /\ Cr!WaitsForReason
    OBVIOUS
  <1> USE DEF MakeInv
  <1>1. Cr!CreatedOnce
    BY DEF Cr!CreatedOnce, Numbered, AskedOnce
  <1>2. ASSUME NEW t \in Cr!Known, finisher = None,
               undone \cap (Cr!Current(t).request.after \cup {t}) = {}
        PROVE  (Cr!Current(t).status = "blocked")
                 <=> (\E u \in Cr!Current(t).request.after: Cr!Current(u).status # "completed")
    BY <1>2 DEF Waits, Clean, Reason
  <1>3. Cr!WaitsForReason
    BY <1>2 DEF Cr!WaitsForReason
  <1>  QED  BY <1>1, <1>3

LEMMA CreationInitially == CreationParameters /\ Cr!Init => MakeInv
  <1> SUFFICES ASSUME CreationParameters, Cr!Init PROVE MakeInv
    OBVIOUS
  <1>1. Cr!Resting \in Maker /\ Cr!Resting.pc = "idle"
    BY DEF Cr!Resting, Maker
  <1>2. /\ creator = [c \in Creator |-> Cr!Resting] /\ configLock = None /\ depLock = None
        /\ taskFile = [t \in Cr!Id |-> None] /\ history = [t \in Cr!Id |-> None] /\ next = 1
        /\ rebuild = [x \in Creator \cup Reader |-> None] /\ finisher = None /\ given = <<>>
    BY DEF Cr!Init
  <1>  HIDE DEF Cr!Resting
  <1>3. given \in Seq(Gift) /\ DOMAIN given = {}
    BY <1>2, EmptySeq
  <1>4. creator \in [Creator -> Maker] /\ \A c \in Creator: creator[c].pc = "idle"
    BY <1>1, <1>2
  <1>5. next \in 1 .. MaxTasks + 1
    BY <1>2 DEF CreationParameters
  <1>6. MakeTyped
    BY <1>2, <1>3, <1>4, <1>5 DEF MakeTyped
  <1>7. Cr!Known = {}
    BY <1>2 DEF Cr!Known
  <1>8. Locked
    BY <1>2, <1>4 DEF Locked, CreationParameters, Cr!NoneFits
  <1>9. Numbered /\ AskedOnce /\ SameRequest /\ Recorded /\ Waits
    BY <1>2, <1>3, <1>4, <1>7 DEF Numbered, AskedOnce, SameRequest, Recorded, Waits
  <1>  QED  BY <1>6, <1>8, <1>9 DEF MakeInv

-----------------------------------------------------------------------------
\* What stays when no task is written.
LEMMA TasksStay ==
    ASSUME taskFile' = taskFile, history' = history
    PROVE  Cr!Known' = Cr!Known /\ \A t: Cr!Current(t)' = Cr!Current(t)
  BY DEF Cr!Known, Cr!Current

\* Why a task waits depends on what is completed only.
LEMMA WaitsStays ==
    ASSUME MakeInv, CreationParameters, finisher' = finisher,
           \A t \in undone: t \in undone',
           Cr!Known' = Cr!Known,
           \A t, x: t \in Cr!Known /\ x = Cr!Current(t)' =>
             /\ x.request = Cr!Current(t).request
             /\ t \notin undone' => /\ x.status = "blocked" <=> Cr!Current(t).status = "blocked"
                                    /\ x.status = "completed" <=> Cr!Current(t).status = "completed"
    PROVE  Waits'
  <1> SUFFICES ASSUME NEW t \in Cr!Known, Clean(t)'
               PROVE  (Cr!Current(t).status = "blocked")' <=> Reason(t)'
    BY DEF Waits
  <1>1. Cr!Current(t)'.request = Cr!Current(t).request
    OBVIOUS
  <1>2. \A u \in Cr!Current(t).request.after: u \in Cr!Known /\ u \notin undone'
    BY <1>1 DEF MakeInv, AskedOnce, Clean
  <1>3. Clean(t) /\ t \notin undone'
    BY <1>1, <1>2 DEF Clean
  <1>4. Cr!Current(t).status = "blocked" <=> Reason(t)
    BY <1>3 DEF MakeInv, Waits
  <1>5. \A u \in Cr!Current(t).request.after:
          Cr!Current(u)'.status = "completed" <=> Cr!Current(u).status = "completed"
    BY <1>2
  <1>6. Reason(t)' <=> Reason(t)
    BY <1>1, <1>5 DEF Reason
  <1>7. Cr!Current(t)'.status = "blocked" <=> Cr!Current(t).status = "blocked"
    BY <1>3
  <1>  QED  BY <1>4, <1>6, <1>7


\* A maker's step that writes no task: what it leaves to the next one.
LEMMA MakerGoes ==
    ASSUME MakeInv, CreationParameters, NEW c \in Creator,
           taskFile' = taskFile, history' = history, finisher' = finisher, undone' = undone,
           \A d \in Creator: d # c => creator'[d] = creator[d],
           \A x \in Creator \cup Reader: rebuild'[x] = rebuild[x] \/ rebuild'[x] = None,
           next' \in Nat, next' >= next, next' = next \/ configLock = c,
           creator'[c].pc \notin {"journal", "count"},
           creator'[c].pc = "find" => creator'[c].request.rid # None,
           creator'[c].pc = "occupied" /\ creator'[c].request.rid # None =>
             \A t \in Cr!Known: Cr!Current(t).request.rid # creator'[c].request.rid,
           creator'[c].pc \in {"find", "occupied"} => \A u \in creator'[c].request.after: u \in Cr!Known,
           given' = given \/ \E t \in Cr!Known, r \in Request:
             /\ given' = Append(given, [id |-> t, request |-> r])
             /\ t < next' /\ Cr!Current(t).request = r
             /\ \A k \in DOMAIN given: given[k].id = t => r.rid # None
    PROVE  Numbered' /\ AskedOnce' /\ SameRequest' /\ Recorded' /\ Waits'
  <1> USE DEF MakeInv
  <1>1. Cr!Known' = Cr!Known /\ \A t: Cr!Current(t)' = Cr!Current(t)
    BY TasksStay
  <1>2. \A t \in Cr!Known: t \in Nat /\ t <= next /\ t <= next'
    BY MakeFacts DEF Numbered
  <1>3. \A d \in Creator: creator'[d].pc \in {"journal", "count"} =>
          d # c /\ creator'[d] = creator[d] /\ next' = next
    BY DEF Locked
  <1>4. \A k \in DOMAIN given': /\ given'[k].id \in Cr!Known /\ given'[k].id < next'
                                /\ Cr!Current(given'[k].id).request = given'[k].request
        /\ \A j, m \in DOMAIN given': given'[j].id = given'[m].id => j = m \/ given'[j].request.rid # None
    <2>1. given \in Seq(Gift) /\ \A k \in DOMAIN given: given[k].id \in Cr!Known /\ given[k].id \in Nat
      BY <1>2 DEF MakeTyped, Numbered
    <2>2. CASE given' = given
      BY <1>2, <2>1, <2>2, MakeFacts DEF Numbered
    <2>3. ASSUME NEW t \in Cr!Known, NEW r \in Request, given' = Append(given, [id |-> t, request |-> r]),
                 t < next', Cr!Current(t).request = r,
                 \A k \in DOMAIN given: given[k].id = t => r.rid # None
          PROVE  /\ \A k \in DOMAIN given': /\ given'[k].id \in Cr!Known /\ given'[k].id < next'
                                /\ Cr!Current(given'[k].id).request = given'[k].request
                 /\ \A j, m \in DOMAIN given':
                      given'[j].id = given'[m].id => j = m \/ given'[j].request.rid # None
      <3>  DEFINE g == [id |-> t, request |-> r]
      <3>1. g \in Gift /\ g.id = t /\ g.request = r
        BY MakeFacts DEF Gift
      <3>  HIDE DEF g
      <3>2. /\ Len(given) \in Nat /\ DOMAIN given = 1 .. Len(given)
            /\ DOMAIN given' = 1 .. Len(given) + 1
            /\ \A k \in DOMAIN given: given'[k] = given[k]
            /\ given'[Len(given) + 1] = g
        BY <2>1, <2>3, <3>1 DEF g
      <3>3. \A k \in DOMAIN given': k \in DOMAIN given \/ k = Len(given) + 1
        BY <3>2
      <3>4. \A k \in DOMAIN given: given[k].id < next'
        BY <1>2, <2>1, MakeFacts DEF Numbered
      <3>5. \A k \in DOMAIN given': /\ given'[k].id \in Cr!Known /\ given'[k].id < next'
                                /\ Cr!Current(given'[k].id).request = given'[k].request
        <4>1. \A k \in DOMAIN given:
                /\ given'[k].id \in Cr!Known /\ given'[k].id < next'
                /\ Cr!Current(given'[k].id).request = given'[k].request
          BY <3>2, <3>4 DEF Numbered
        <4>2. LET k == Len(given) + 1 IN
                /\ given'[k].id \in Cr!Known /\ given'[k].id < next'
                /\ Cr!Current(given'[k].id).request = given'[k].request
          BY <2>3, <3>1, <3>2
        <4>  QED  BY <3>3, <4>1, <4>2
      <3>6. \A k \in DOMAIN given: given[k].id = t => given[k].request.rid # None
        BY <2>3 DEF Numbered
      <3>7. \A j, m \in DOMAIN given':
              given'[j].id = given'[m].id => j = m \/ given'[j].request.rid # None
        <4>  SUFFICES ASSUME NEW j \in DOMAIN given', NEW m \in DOMAIN given',
                             given'[j].id = given'[m].id, j # m
                      PROVE  given'[j].request.rid # None
          OBVIOUS
        <4>1. CASE j \in DOMAIN given /\ m \in DOMAIN given
          BY <3>2, <4>1 DEF Numbered
        <4>2. CASE j \in DOMAIN given /\ m = Len(given) + 1
          BY <3>1, <3>2, <3>6, <4>2
        <4>3. CASE j = Len(given) + 1 /\ m \in DOMAIN given
          BY <2>3, <3>1, <3>2, <4>3
        <4>  QED  BY <3>3, <4>1, <4>2, <4>3
      <3>  QED  BY <3>5, <3>7
    <2>  QED  BY <2>2, <2>3
  <1>5. Numbered'
    BY <1>1, <1>2, <1>3, <1>4 DEF Numbered
  <1>6. AskedOnce'
    BY <1>1 DEF AskedOnce
  <1>7. SameRequest'
    BY <1>3 DEF SameRequest
  <1>8. Recorded'
    BY <1>3 DEF Recorded
  <1>9. Waits'
    BY <1>1, WaitsStays
  <1>  QED  BY <1>5, <1>6, <1>7, <1>8, <1>9

LEMMA GoesTo ==
    ASSUME MakeTyped, NEW c \in Creator, creator[c].pc # "idle",
           NEW p \in {"config", "check", "find", "occupied", "journal", "count"}, Cr!Goto(c, p)
    PROVE  /\ creator' \in [Creator -> Maker] /\ \A d \in Creator: d # c => creator'[d] = creator[d]
           /\ creator'[c].pc = p /\ creator'[c].request = creator[c].request
           /\ creator'[c].task = creator[c].task
           /\ \A d \in Creator: creator'[d].pc # "idle" => creator'[d].request \in Request
  <1>1. \A m \in Maker: LET n == [m EXCEPT !.pc = p]
                        IN n \in Maker /\ n.pc = p /\ n.request = m.request /\ n.task = m.task
    BY DEF Maker
  <1>2. creator' = [creator EXCEPT ![c] = [creator[c] EXCEPT !.pc = p]]
    BY DEF Cr!Goto
  <1>3. creator \in [Creator -> Maker] /\ creator[c] \in Maker
    BY DEF MakeTyped
  <1>4. /\ creator' \in [Creator -> Maker] /\ creator'[c] = [creator[c] EXCEPT !.pc = p]
        /\ \A d \in Creator: d # c => creator'[d] = creator[d]
    BY <1>1, <1>2, <1>3
  <1>5. creator'[c].pc = p /\ creator'[c].request = creator[c].request /\ creator'[c].task = creator[c].task
    BY <1>1, <1>3, <1>4
  <1>  QED  BY <1>4, <1>5 DEF MakeTyped

LEMMA GoesHome ==
    ASSUME MakeTyped, NEW c \in Creator, creator' = [creator EXCEPT ![c] = Cr!Resting]
    PROVE  /\ creator' \in [Creator -> Maker] /\ \A d \in Creator: d # c => creator'[d] = creator[d]
           /\ creator'[c].pc = "idle"
           /\ \A d \in Creator: creator'[d].pc # "idle" => creator'[d].request \in Request
  <1>1. Cr!Resting \in Maker /\ Cr!Resting.pc = "idle"
    BY DEF Cr!Resting, Maker
  <1>  HIDE DEF Cr!Resting
  <1>  QED  BY <1>1 DEF MakeTyped

\* Who leaves gives back the config's lock, and the dependencies' if it has it.
LEMMA Left ==
    ASSUME MakeInv, CreationParameters, NEW c \in Creator, configLock = c, Cr!Leave(c), finisher' = finisher
    PROVE  Locked'
  <1>1. /\ configLock' = None /\ depLock' = IF depLock = c THEN None ELSE depLock
        /\ creator'[c].pc = "idle" /\ \A d \in Creator: d # c => creator'[d] = creator[d]
    BY GoesHome DEF Cr!Leave, MakeInv
  <1>2. \A d \in Creator: creator'[d].pc \in {"idle", "dep", "config"} /\ None # d
    BY <1>1, MakeFacts DEF MakeInv, Locked
  <1>3. finisher # None => depLock' = "worker"
    BY <1>1, MakeFacts DEF MakeInv, Locked
  <1>  QED  BY <1>1, <1>2, <1>3 DEF MakeInv, Locked

LEMMA CreationBegins ==
    ASSUME MakeInv, CreationParameters, NEW c \in Creator, NEW r \in Request, Cr!createTask(c, r)
    PROVE  MakeInv'
  <1> DEFINE m == [pc |-> IF r.after = {} THEN "config" ELSE "dep", request |-> r, task |-> None]
  <1> USE DEF MakeInv
  <1>1. /\ creator[c].pc = "idle" /\ creator' = [creator EXCEPT ![c] = m]
        /\ taskFile' = taskFile /\ history' = history /\ next' = next /\ configLock' = configLock
        /\ depLock' = depLock /\ rebuild' = rebuild /\ finisher' = finisher
        /\ given' = given /\ undone' = undone
    BY DEF Cr!createTask, Cr!At, Cr!tasks, Cr!locks
  <1>2. /\ m \in Maker /\ m.pc = IF r.after = {} THEN "config" ELSE "dep"
        /\ m.request = r
    BY DEF Maker
  <1>  HIDE DEF m
  <1>3. /\ creator' \in [Creator -> Maker] /\ creator'[c] = m
        /\ \A d \in Creator: d # c => creator'[d] = creator[d]
    BY <1>1, <1>2 DEF MakeTyped
  <1>4. MakeTyped'
    BY <1>1, <1>2, <1>3 DEF MakeTyped
  <1>5. Locked'
    BY <1>1, <1>2, <1>3 DEF Locked
  <1>6. next \in Nat
    BY MakeFacts
  <1>7. Numbered' /\ AskedOnce' /\ SameRequest' /\ Recorded' /\ Waits'
    BY <1>1, <1>2, <1>3, <1>6, MakerGoes
  <1>  QED  BY <1>4, <1>5, <1>7

LEMMA LocksTaken ==
    ASSUME MakeInv, CreationParameters, NEW c \in Creator, Cr!TakeDepLock(c) \/ Cr!TakeConfigLock(c)
    PROVE  MakeInv'
  <1> USE DEF MakeInv
  <1>1. /\ taskFile' = taskFile /\ history' = history /\ next' = next /\ rebuild' = rebuild
        /\ finisher' = finisher /\ given' = given /\ undone' = undone
        /\ \/ creator[c].pc = "dep" /\ depLock = None /\ depLock' = c /\ Cr!Goto(c, "config")
                /\ configLock' = configLock
           \/ creator[c].pc = "config" /\ configLock = None /\ configLock' = c /\ Cr!Goto(c, "check")
                /\ depLock' = depLock
    BY DEF Cr!TakeDepLock, Cr!TakeConfigLock, Cr!At, Cr!tasks
  <1>2. PICK p \in {"config", "check"}: Cr!Goto(c, p) /\ (p = "check" <=> creator[c].pc = "config")
    BY <1>1
  <1>3. /\ creator' \in [Creator -> Maker] /\ \A d \in Creator: d # c => creator'[d] = creator[d]
        /\ creator'[c].pc = p /\ creator'[c].request = creator[c].request
        /\ \A d \in Creator: creator'[d].pc # "idle" => creator'[d].request \in Request
    BY <1>1, <1>2, GoesTo
  <1>4. MakeTyped'
    BY <1>1, <1>3 DEF MakeTyped
  <1>5. Locked'
    BY <1>1, <1>2, <1>3, MakeFacts DEF Locked
  <1>6. next \in Nat
    BY MakeFacts
  <1>7. Numbered' /\ AskedOnce' /\ SameRequest' /\ Recorded' /\ Waits'
    BY <1>1, <1>3, <1>6, MakerGoes
  <1>  QED  BY <1>4, <1>5, <1>7

LEMMA CreationChecks ==
    ASSUME MakeInv, CreationParameters, NEW c \in Creator, Cr!Check(c)
    PROVE  MakeInv'
  <1> USE DEF MakeInv
  <1>1. /\ taskFile' = taskFile /\ history' = history /\ next' = next /\ rebuild' = rebuild
        /\ finisher' = finisher /\ given' = given /\ undone' = undone /\ creator[c].pc = "check"
    BY DEF Cr!Check, Cr!At, Cr!tasks
  <1>2. configLock = c
    BY <1>1 DEF Locked
  <1>3. next \in Nat
    BY MakeFacts
  <1>4. ASSUME \A u \in creator[c].request.after: u \in Cr!Known,
               configLock' = configLock, depLock' = depLock,
               Cr!Goto(c, IF creator[c].request.rid = None THEN "occupied" ELSE "find")
        PROVE  MakeInv'
    <2>1. PICK p \in {"occupied", "find"}:
            Cr!Goto(c, p) /\ (p = "occupied" <=> creator[c].request.rid = None)
      BY <1>4
    <2>2. /\ creator' \in [Creator -> Maker] /\ \A d \in Creator: d # c => creator'[d] = creator[d]
          /\ creator'[c].pc = p /\ creator'[c].request = creator[c].request
          /\ \A d \in Creator: creator'[d].pc # "idle" => creator'[d].request \in Request
      BY <1>1, <2>1, GoesTo
    <2>3. MakeTyped'
      BY <1>1, <2>2 DEF MakeTyped
    <2>4. Locked'
      BY <1>1, <1>2, <1>4, <2>2 DEF Locked
    <2>5. Numbered' /\ AskedOnce' /\ SameRequest' /\ Recorded' /\ Waits'
      BY <1>1, <1>3, <1>4, <2>1, <2>2, MakerGoes
    <2>  QED  BY <2>3, <2>4, <2>5
  <1>5. ASSUME Cr!Leave(c) PROVE MakeInv'
    <2>1. /\ creator' \in [Creator -> Maker] /\ \A d \in Creator: d # c => creator'[d] = creator[d]
          /\ creator'[c].pc = "idle"
          /\ \A d \in Creator: creator'[d].pc # "idle" => creator'[d].request \in Request
      BY <1>5, GoesHome DEF Cr!Leave
    <2>2. MakeTyped'
      BY <1>1, <2>1 DEF MakeTyped
    <2>3. Locked'
      BY <1>1, <1>2, <1>5, Left
    <2>4. Numbered' /\ AskedOnce' /\ SameRequest' /\ Recorded' /\ Waits'
      BY <1>1, <1>3, <2>1, MakerGoes
    <2>  QED  BY <2>2, <2>3, <2>4
  <1>  QED  BY <1>4, <1>5 DEF Cr!Check, Cr!Req, Cr!locks


LEMMA CreationFinds ==
    ASSUME MakeInv, CreationParameters, NEW c \in Creator, Cr!Find(c)
    PROVE  MakeInv'
  <1> DEFINE found == {t \in Cr!Known: taskFile[t].request.rid = creator[c].request.rid}
  <1> USE DEF MakeInv
  <1>1. /\ taskFile' = taskFile /\ history' = history /\ rebuild' = rebuild
        /\ finisher' = finisher /\ undone' = undone /\ creator[c].pc = "find"
        /\ Cr!Readable(c, Cr!Known)
        /\ \/ /\ found = {} /\ Cr!Goto(c, "occupied") /\ next' = next /\ given' = given
              /\ configLock' = configLock /\ depLock' = depLock
           \/ Cr!Leave(c) /\ next' = next /\ given' = given
           \/ \E t \in found: /\ taskFile[t].request = creator[c].request
                              /\ next' = Cr!Max({next, t + 1}) /\ Cr!Give(c, t)
    BY DEF Cr!Find, Cr!At, Cr!tasks, Cr!locks, Cr!Req
  <1>2. configLock = c /\ creator[c].request.rid # None /\ creator[c].request \in Request
    BY <1>1 DEF Locked, AskedOnce, MakeTyped
  <1>3. next \in Nat
    BY MakeFacts
  <1>4. \A t \in Cr!Known: taskFile[t] # None /\ Cr!Current(t) = taskFile[t]
    BY <1>1, MakeFacts DEF Cr!Readable, Cr!Lost, Cr!Current
  <1>5. CASE /\ found = {} /\ Cr!Goto(c, "occupied") /\ next' = next /\ given' = given
             /\ configLock' = configLock /\ depLock' = depLock
    <2>1. /\ creator' \in [Creator -> Maker] /\ \A d \in Creator: d # c => creator'[d] = creator[d]
          /\ creator'[c].pc = "occupied" /\ creator'[c].request = creator[c].request
          /\ \A d \in Creator: creator'[d].pc # "idle" => creator'[d].request \in Request
      BY <1>1, <1>5, GoesTo
    <2>2. MakeTyped'
      BY <1>1, <1>5, <2>1 DEF MakeTyped
    <2>3. Locked'
      BY <1>1, <1>2, <1>5, <2>1 DEF Locked
    <2>4. \A t \in Cr!Known: Cr!Current(t).request.rid # creator[c].request.rid
      BY <1>4, <1>5
    <2>5. \A u \in creator[c].request.after: u \in Cr!Known
      BY <1>1 DEF AskedOnce
    <2>6. Numbered' /\ AskedOnce' /\ SameRequest' /\ Recorded' /\ Waits'
      BY <1>1, <1>3, <1>5, <2>1, <2>4, <2>5, MakerGoes
    <2>  QED  BY <2>2, <2>3, <2>6
  <1>6. ASSUME Cr!Leave(c) PROVE
          /\ creator' \in [Creator -> Maker] /\ \A d \in Creator: d # c => creator'[d] = creator[d]
          /\ creator'[c].pc = "idle"
          /\ \A d \in Creator: creator'[d].pc # "idle" => creator'[d].request \in Request
          /\ Locked'
    BY <1>1, <1>2, <1>6, GoesHome, Left DEF Cr!Leave
  <1>7. CASE Cr!Leave(c) /\ next' = next /\ given' = given
    <2>1. MakeTyped'
      BY <1>1, <1>6, <1>7 DEF MakeTyped
    <2>2. Numbered' /\ AskedOnce' /\ SameRequest' /\ Recorded' /\ Waits'
      BY <1>1, <1>3, <1>6, <1>7, MakerGoes
    <2>  QED  BY <1>6, <1>7, <2>1, <2>2
  <1>8. ASSUME NEW t \in found, taskFile[t].request = creator[c].request,
               next' = Cr!Max({next, t + 1}), Cr!Give(c, t)
        PROVE  MakeInv'
    <2>1. Cr!Leave(c) /\ given' = Append(given, [id |-> t, request |-> creator[c].request])
      BY <1>8 DEF Cr!Give, Cr!Req
    <2>2. t \in Cr!Known /\ t \in Cr!Id /\ t \in Nat /\ t <= next /\ t <= MaxTasks /\ MaxTasks \in Nat
      BY MakeFacts DEF Numbered
    <2>3. next' = next \/ next' = t + 1
      BY <1>3, <1>8, <2>2 DEF Cr!Max
    <2>4. next' \in Nat /\ next' >= next /\ next' > t
      BY <1>3, <1>8, <2>2 DEF Cr!Max
    <2>5. next' \in 1 .. MaxTasks + 1
      BY <1>3, <2>2, <2>3, <2>4 DEF MakeTyped
    <2>6. given' \in Seq(Gift)
      <3>1. [id |-> t, request |-> creator[c].request] \in Gift
        BY <1>2, <2>2 DEF Gift
      <3>  QED  BY <2>1, <3>1 DEF MakeTyped
    <2>7. MakeTyped'
      BY <1>1, <1>6, <2>1, <2>5, <2>6 DEF MakeTyped
    <2>8. Cr!Current(t).request = creator[c].request
      BY <1>4, <1>8
    <2>9. Numbered' /\ AskedOnce' /\ SameRequest' /\ Recorded' /\ Waits'
      BY <1>1, <1>2, <1>6, <2>1, <2>2, <2>4, <2>8, MakerGoes
    <2>  QED  BY <1>6, <2>1, <2>7, <2>9
  <1>  QED  BY <1>1, <1>5, <1>7, <1>8

LEMMA NumberTaken ==
    ASSUME MakeInv, CreationParameters, NEW c \in Creator, Cr!Occupied(c) \/ Cr!CountTask(c)
    PROVE  MakeInv'
  <1> USE DEF MakeInv
  <1>1. /\ taskFile' = taskFile /\ history' = history /\ rebuild' = rebuild
        /\ finisher' = finisher /\ undone' = undone /\ creator[c].pc \in {"occupied", "count"}
        /\ next' = next + 1 /\ next \in Cr!Known
        /\ \/ Cr!Give(c, next) /\ Cr!Current(next).request = creator[c].request
           \/ /\ creator' = creator /\ configLock' = configLock /\ depLock' = depLock /\ given' = given
              /\ creator[c].pc = "occupied"
    <2>1. CASE Cr!CountTask(c)
      BY <2>1 DEF Cr!CountTask, Cr!At, Cr!tasks, Numbered
    <2>2. CASE Cr!Occupied(c)
      <3>1. /\ taskFile' = taskFile /\ history' = history /\ rebuild' = rebuild
            /\ finisher' = finisher /\ undone' = undone /\ creator[c].pc = "occupied"
            /\ next' = next + 1 /\ next \in Cr!Known /\ Cr!Readable(c, {next})
            /\ \/ Cr!Give(c, next) /\ taskFile[next].request = creator[c].request
               \/ creator' = creator /\ configLock' = configLock /\ depLock' = depLock /\ given' = given
        BY <2>2 DEF Cr!Occupied, Cr!At, Cr!tasks, Cr!locks, Cr!Same, Cr!Req
      <3>2. taskFile[next] # None /\ Cr!Current(next) = taskFile[next]
        BY <3>1, MakeFacts DEF Cr!Readable, Cr!Lost, Cr!Current
      <3>  QED  BY <3>1, <3>2
    <2>  QED  BY <2>1, <2>2
  <1>2. configLock = c /\ creator[c].request \in Request
    BY <1>1 DEF Locked, MakeTyped
  <1>3. next \in Nat /\ next' \in Nat /\ next' >= next /\ next < next' /\ next' \in 1 .. MaxTasks + 1
        /\ next \in Cr!Id
    BY <1>1, MakeFacts
  <1>4. CASE /\ creator' = creator /\ configLock' = configLock /\ depLock' = depLock /\ given' = given
             /\ creator[c].pc = "occupied"
    <2>1. MakeTyped' /\ Locked'
      BY <1>1, <1>3, <1>4 DEF MakeTyped, Locked
    <2>2. \A u \in creator[c].request.after: u \in Cr!Known
      BY <1>4 DEF AskedOnce
    <2>3. creator[c].request.rid # None => \A t \in Cr!Known: Cr!Current(t).request.rid # creator[c].request.rid
      BY <1>4 DEF AskedOnce
    <2>4. Numbered' /\ AskedOnce' /\ SameRequest' /\ Recorded' /\ Waits'
      BY <1>1, <1>2, <1>3, <1>4, <2>2, <2>3, MakerGoes
    <2>  QED  BY <2>1, <2>4
  <1>5. CASE Cr!Give(c, next) /\ Cr!Current(next).request = creator[c].request
    <2>1. Cr!Leave(c) /\ given' = Append(given, [id |-> next, request |-> creator[c].request])
      BY <1>5 DEF Cr!Give, Cr!Req
    <2>2. /\ creator' \in [Creator -> Maker] /\ \A d \in Creator: d # c => creator'[d] = creator[d]
          /\ creator'[c].pc = "idle"
          /\ \A d \in Creator: creator'[d].pc # "idle" => creator'[d].request \in Request
          /\ Locked'
      BY <1>1, <1>2, <2>1, GoesHome, Left DEF Cr!Leave
    <2>3. given' \in Seq(Gift)
      <3>1. [id |-> next, request |-> creator[c].request] \in Gift
        BY <1>2, <1>3 DEF Gift
      <3>  QED  BY <2>1, <3>1 DEF MakeTyped
    <2>4. MakeTyped'
      BY <1>1, <1>3, <2>2, <2>3 DEF MakeTyped
    <2>5. \A k \in DOMAIN given: given[k].id # next
      <3>1. \A k \in DOMAIN given: given[k].id < next /\ given[k].id \in Cr!Known
        BY DEF Numbered
      <3>2. \A t \in Cr!Known: t < next => t # next
        BY <1>3, MakeFacts
      <3>  QED  BY <3>1, <3>2
    <2>6. Numbered' /\ AskedOnce' /\ SameRequest' /\ Recorded' /\ Waits'
      BY <1>1, <1>2, <1>3, <1>5, <2>1, <2>2, <2>5, MakerGoes
    <2>  QED  BY <2>2, <2>4, <2>6
  <1>  QED  BY <1>1, <1>4, <1>5

LEMMA CreationCut ==
    ASSUME MakeInv, CreationParameters, NEW c \in Creator, Cr!CutShort(c)
    PROVE  MakeInv'
  <1> USE DEF MakeInv
  <1>1. /\ taskFile' = taskFile /\ history' = history /\ given' = given
        /\ finisher' = finisher /\ undone' = undone /\ creator[c].pc # "idle"
        /\ next' \in {next} \cup IF creator[c].pc = "count" THEN {next + 1} ELSE {}
        /\ creator' = [creator EXCEPT ![c] = Cr!Resting] /\ rebuild' = [rebuild EXCEPT ![c] = None]
        /\ configLock' = (IF configLock = c THEN None ELSE configLock)
        /\ depLock' = (IF depLock = c THEN None ELSE depLock)
    BY DEF Cr!CutShort, Cr!At, Cr!tasks
  <1>2. /\ creator' \in [Creator -> Maker] /\ \A d \in Creator: d # c => creator'[d] = creator[d]
        /\ creator'[c].pc = "idle"
        /\ \A d \in Creator: creator'[d].pc # "idle" => creator'[d].request \in Request
    BY <1>1, GoesHome
  <1>3. /\ next' = next \/ (creator[c].pc = "count" /\ next' = next + 1)
        /\ next \in Nat /\ next' \in Nat /\ next' >= next /\ next' \in 1 .. MaxTasks + 1
    <2>1. creator[c].pc = "count" => next \in Cr!Id
      BY MakeFacts DEF Numbered
    <2>2. next' = next \/ (creator[c].pc = "count" /\ next' = next + 1)
      <3>1. CASE creator[c].pc = "count"
        BY <1>1, <3>1
      <3>2. CASE creator[c].pc # "count"
        BY <1>1, <3>2
      <3>  QED  BY <3>1, <3>2
    <2>3. \A t \in Cr!Id: t + 1 \in 1 .. MaxTasks + 1
      BY MakeFacts
    <2>  QED  BY <2>1, <2>2, <2>3, MakeFacts DEF MakeTyped
  <1>4. /\ \A x \in Creator \cup Reader: rebuild'[x] = rebuild[x] \/ rebuild'[x] = None
        /\ rebuild' \in [Creator \cup Reader -> Copy \cup {None}]
    BY <1>1 DEF MakeTyped
  <1>5. MakeTyped'
    BY <1>1, <1>2, <1>3, <1>4 DEF MakeTyped
  <1>6. Locked'
    BY <1>1, <1>2, MakeFacts DEF Locked
  <1>7. next' = next \/ configLock = c
    BY <1>3 DEF Locked
  <1>8. Numbered' /\ AskedOnce' /\ SameRequest' /\ Recorded' /\ Waits'
    BY <1>1, <1>2, <1>3, <1>4, <1>7, MakerGoes
  <1>  QED  BY <1>5, <1>6, <1>8


LEMMA CopyRead ==
    ASSUME MakeInv, CreationParameters, NEW x \in Creator \cup Reader, NEW t \in Cr!Id, Cr!RebuildRead(x, t)
    PROVE  MakeInv'
  <1> DEFINE copy == [id |-> t, task |-> history[t]]
  <1> USE DEF MakeInv
  <1>1. /\ taskFile' = taskFile /\ history' = history /\ next' = next /\ configLock' = configLock
        /\ depLock' = depLock /\ creator' = creator /\ finisher' = finisher /\ given' = given
        /\ undone' = undone /\ rebuild' = [rebuild EXCEPT ![x] = copy]
        /\ taskFile[t] = None /\ history[t] # None
    BY DEF Cr!RebuildRead, Cr!tasks, Cr!locks, Cr!Lost
  <1>2. copy \in Copy /\ copy.id = t /\ copy.task = history[t]
    BY <1>1, MakeFacts DEF Copy
  <1>  HIDE DEF copy
  <1>3. /\ rebuild' \in [Creator \cup Reader -> Copy \cup {None}] /\ rebuild'[x] = copy
        /\ \A y \in Creator \cup Reader: y # x => rebuild'[y] = rebuild[y]
    BY <1>1, <1>2 DEF MakeTyped
  <1>4. Cr!Known' = Cr!Known /\ \A u: Cr!Current(u)' = Cr!Current(u)
    BY <1>1, TasksStay
  <1>5. MakeTyped' /\ Locked'
    BY <1>1, <1>3 DEF MakeTyped, Locked
  <1>6. Numbered' /\ AskedOnce'
    BY <1>1, <1>4 DEF Numbered, AskedOnce
  <1>7. SameRequest'
    BY <1>1, <1>2, <1>3 DEF SameRequest, Recorded
  <1>8. Recorded'
    BY <1>1, <1>2, <1>3 DEF Recorded
  <1>9. Waits'
    BY <1>1, <1>4, WaitsStays
  <1>  QED  BY <1>5, <1>6, <1>7, <1>8, <1>9

\* Steps on tasks that keep numbers, requests and what is known.
LEMMA TasksGo ==
    ASSUME MakeInv, CreationParameters, next' = next, given' = given, creator' = creator,
           Cr!Known' = Cr!Known,
           \A t, y: t \in Cr!Known /\ y = Cr!Current(t)' => y.request = Cr!Current(t).request
    PROVE  Numbered' /\ AskedOnce'
  <1> USE DEF MakeInv
  <1>1. \A t \in Cr!Known: Cr!Current(t)'.request = Cr!Current(t).request
    OBVIOUS
  <1>  QED  BY <1>1 DEF Numbered, AskedOnce

LEMMA CopyWritten ==
    ASSUME MakeInv, CreationParameters, NEW x \in Creator \cup Reader, Cr!RebuildWrite(x)
    PROVE  MakeInv'
  <1> USE DEF MakeInv
  <1>0. PICK t, copy: t = rebuild[x].id /\ copy = rebuild[x].task
    OBVIOUS
  <1>1. /\ history' = history /\ next' = next /\ configLock' = configLock
        /\ depLock' = depLock /\ creator' = creator /\ finisher' = finisher /\ given' = given
        /\ rebuild[x] # None /\ rebuild' = [rebuild EXCEPT ![x] = None]
        /\ taskFile' = [taskFile EXCEPT ![t] = copy]
        /\ undone' = undone \cup IF history[t] = copy THEN {} ELSE {t}
    BY <1>0 DEF Cr!RebuildWrite, Cr!locks
  <1>2. /\ t \in Cr!Id /\ copy \in Cr!Task /\ copy # None /\ history[t] # None
        /\ copy.request = history[t].request /\ copy.status \in {"pending", "in_progress"}
    BY <1>0, <1>1, MakeFacts DEF SameRequest
  <1>3. /\ rebuild' \in [Creator \cup Reader -> Copy \cup {None}]
        /\ \A y \in Creator \cup Reader: rebuild'[y] = rebuild[y] \/ rebuild'[y] = None
    BY <1>1 DEF MakeTyped
  <1>4. /\ taskFile' \in [Cr!Id -> Cr!Task \cup {None}] /\ taskFile'[t] = copy
        /\ \A u \in Cr!Id: u # t => taskFile'[u] = taskFile[u]
    BY <1>1, <1>2 DEF MakeTyped
  <1>5. Cr!Known' = Cr!Known
    BY <1>1, <1>2, <1>4 DEF Cr!Known
  <1>6. \A u \in undone: u \in undone'
    BY <1>1
  <1>7. t \notin undone' => history[t] = copy
    BY <1>1
  <1>8. /\ Cr!Current(t)' = copy
        /\ \A u: u \in Cr!Known /\ u # t => Cr!Current(u)' = Cr!Current(u)
    BY <1>1, <1>2, <1>4, MakeFacts DEF Cr!Current
  <1>9. copy.request = Cr!Current(t).request
    BY <1>2 DEF Cr!Current, SameRequest
  <1>10. t \notin undone' => Cr!Current(t) = copy
    BY <1>0, <1>1, <1>2, <1>6, <1>7 DEF Cr!Current, Recorded
  <1>11. MakeTyped' /\ Locked'
    BY <1>1, <1>3, <1>4 DEF MakeTyped, Locked
  <1>12. Numbered' /\ AskedOnce'
    <2>1. \A u, y: u \in Cr!Known /\ y = Cr!Current(u)' => y.request = Cr!Current(u).request
      BY <1>8, <1>9
    <2>  QED  BY <1>1, <1>5, <2>1, TasksGo
  <1>13. SameRequest'
    BY <1>1, <1>2, <1>3, <1>4 DEF SameRequest
  <1>14. Recorded'
    <2>1. \A u \in Cr!Id: taskFile'[u] = None /\ history'[u] # None =>
            history'[u].status \in {"pending", "in_progress"}
      BY <1>1, <1>2, <1>4 DEF Recorded
    <2>2. \A c \in Creator: creator'[c].pc = "journal" =>
           /\ creator'[c].task.status # "pending" => taskFile'[next'] = creator'[c].task /\ history'[next'] = None
           /\ history'[next'] # None => history'[next'].version # 1
           /\ \A y \in Creator \cup Reader:
                rebuild'[y] # None /\ rebuild'[y].id = next' => rebuild'[y].task.version # 1
      <3>1. \A c \in Creator: creator[c].pc = "journal" => next \in Cr!Id
        BY MakeFacts DEF Numbered
      <3>  QED  BY <1>1, <1>2, <1>3, <1>4, <3>1 DEF Recorded
    <2>3. \A u \in Cr!Id: u \notin undone' /\ taskFile'[u] # None /\ history'[u] # None /\ taskFile'[u] # history'[u] =>
            /\ history'[u].version = 1
            /\ \A y \in Creator \cup Reader:
                rebuild'[y] # None /\ rebuild'[y].id = u => rebuild'[y].task.version # 1
      BY <1>1, <1>3, <1>4, <1>6, <1>7 DEF Recorded
    <2>  QED  BY <2>1, <2>2, <2>3 DEF Recorded
  <1>15. Waits'
    <2>1. \A u, y: u \in Cr!Known /\ y = Cr!Current(u)' =>
             /\ y.request = Cr!Current(u).request
             /\ u \notin undone' => /\ y.status = "blocked" <=> Cr!Current(u).status = "blocked"
                                    /\ y.status = "completed" <=> Cr!Current(u).status = "completed"
      BY <1>8, <1>9, <1>10
    <2>  QED  BY <1>1, <1>5, <1>6, <2>1, WaitsStays
  <1>  QED  BY <1>11, <1>12, <1>13, <1>14, <1>15

LEMMA FileCreated ==
    ASSUME MakeInv, CreationParameters, NEW c \in Creator, Cr!CreateFile(c)
    PROVE  MakeInv'
  <1> DEFINE task == Cr!Made(c)
             r == creator[c].request
  <1> USE DEF MakeInv
  <1>1. /\ history' = history /\ next' = next /\ configLock' = configLock
        /\ depLock' = depLock /\ rebuild' = rebuild /\ finisher' = finisher /\ given' = given
        /\ undone' = undone /\ creator[c].pc = "occupied" /\ next \in Cr!Id \ Cr!Known
        /\ Cr!Readable(c, r.after)
        /\ taskFile' = [taskFile EXCEPT ![next] = task]
        /\ creator' = [creator EXCEPT ![c].pc = "journal", ![c].task = task]
    BY DEF Cr!CreateFile, Cr!At, Cr!locks, Cr!Req
  <1>2. r \in Request /\ configLock = c /\ (r.after # {} => depLock = c)
        /\ \A u \in r.after: u \in Cr!Known
    BY <1>1 DEF MakeTyped, Locked, AskedOnce
  <1>3. /\ task \in Cr!Task /\ task.request = r /\ task.version = 1 /\ task # None
        /\ task.status = IF \A u \in r.after: Cr!Completed(u) THEN "pending" ELSE "blocked"
    <2>1. task = [request |-> r, version |-> 1,
                  status |-> IF \A u \in r.after: Cr!Completed(u) THEN "pending" ELSE "blocked"]
      BY DEF Cr!Made, Cr!Req
    <2>2. task \in Cr!Task
      BY <1>2, <2>1 DEF Cr!Task, Cr!Status
    <2>  QED  BY <2>1, <2>2, MakeFacts
  <1>  HIDE DEF task
  <1>4. \A u \in r.after: Cr!Completed(u) <=> Cr!Current(u).status = "completed"
    <2>1. \A u \in r.after: taskFile[u] # None
      BY <1>1, <1>2, MakeFacts DEF Cr!Readable, Cr!Lost
    <2>  QED  BY <2>1 DEF Cr!Completed, Cr!Current
  <1>5. /\ creator' \in [Creator -> Maker] /\ \A d \in Creator: d # c => creator'[d] = creator[d]
        /\ creator'[c].pc = "journal" /\ creator'[c].request = r /\ creator'[c].task = task
    <2>1. \A m \in Maker, k \in Cr!Task: LET n == [m EXCEPT !.pc = "journal", !.task = k]
                                IN n \in Maker /\ n.pc = "journal" /\ n.request = m.request /\ n.task = k
      BY DEF Maker
    <2>2. creator' = [creator EXCEPT ![c] = [creator[c] EXCEPT !.pc = "journal", !.task = task]]
      BY <1>1
    <2>3. creator \in [Creator -> Maker] /\ creator[c] \in Maker
      BY DEF MakeTyped
    <2>4. /\ creator' \in [Creator -> Maker]
          /\ creator'[c] = [creator[c] EXCEPT !.pc = "journal", !.task = task]
          /\ \A d \in Creator: d # c => creator'[d] = creator[d]
      BY <1>3, <2>1, <2>2, <2>3
    <2>5. LET n == [creator[c] EXCEPT !.pc = "journal", !.task = task]
          IN n.pc = "journal" /\ n.request = creator[c].request /\ n.task = task
      BY <1>3, <2>1, <2>3
    <2>  QED  BY <2>4, <2>5
  <1>6. /\ taskFile' \in [Cr!Id -> Cr!Task \cup {None}] /\ taskFile'[next] = task
        /\ \A u \in Cr!Id: u # next => taskFile'[u] = taskFile[u]
        /\ taskFile[next] = None /\ history[next] = None /\ next \in Cr!Id
    BY <1>1, <1>3, MakeFacts DEF MakeTyped
  <1>7. \A u: u \in Cr!Known' <=> u \in Cr!Known \/ u = next
    BY <1>1, <1>3, <1>6 DEF Cr!Known
  <1>8. /\ \A u: u = next => Cr!Current(u)' = task
        /\ \A u: u \in Cr!Known => u # next /\ Cr!Current(u)' = Cr!Current(u)
    BY <1>1, <1>3, <1>6, MakeFacts DEF Cr!Current
  <1>9. MakeTyped'
    BY <1>1, <1>2, <1>5, <1>6 DEF MakeTyped
  <1>10. Locked'
    BY <1>1, <1>2, <1>5 DEF Locked
  <1>11. \A d \in Creator: d # c => creator[d].pc \in {"idle", "dep", "config"}
    BY <1>2 DEF Locked
  <1>12. Numbered'
    BY <1>1, <1>3, <1>5, <1>7, <1>8, <1>11, MakeFacts DEF Numbered
  <1>13. AskedOnce'
    <2>1. r.rid # None => \A u \in Cr!Known: Cr!Current(u).request.rid # r.rid
      BY <1>1 DEF AskedOnce
    <2>2. \A u, v \in Cr!Known':
            Cr!Current(u)'.request.rid = Cr!Current(v)'.request.rid => u = v \/ Cr!Current(u)'.request.rid = None
      <3>1. \A u \in Cr!Known: r.rid = Cr!Current(u).request.rid => r.rid = None
        BY <2>1
      <3>2. \A u, v \in Cr!Known:
              Cr!Current(u).request.rid = Cr!Current(v).request.rid => u = v \/ Cr!Current(u).request.rid = None
        BY DEF AskedOnce
      <3>  QED  BY <1>3, <1>7, <1>8, <3>1, <3>2
    <2>3. \A u \in Cr!Known': \A v \in Cr!Current(u)'.request.after: v \in Cr!Known'
      BY <1>2, <1>3, <1>7, <1>8 DEF AskedOnce
    <2>  QED  BY <1>2, <1>5, <1>7, <1>11, <2>2, <2>3 DEF AskedOnce
  <1>14. \A x \in Creator \cup Reader: rebuild[x] # None => rebuild[x].id # next
    BY <1>6 DEF SameRequest
  <1>15. SameRequest'
    BY <1>1, <1>3, <1>5, <1>6, <1>11 DEF SameRequest
  <1>16. Recorded'
    BY <1>1, <1>3, <1>5, <1>6, <1>11, <1>14 DEF Recorded
  <1>17. Waits'
    <2>1. ASSUME NEW t \in Cr!Known, Clean(t)'
          PROVE  Cr!Current(t)'.status = "blocked" <=> Reason(t)'
      <3>1. \A u \in Cr!Current(t).request.after: u \in Cr!Known
        BY DEF AskedOnce
      <3>2. Clean(t) /\ (Reason(t)' <=> Reason(t))
        BY <1>1, <1>8, <2>1, <3>1 DEF Clean, Reason
      <3>  QED  BY <1>8, <3>2 DEF Waits
    <2>2. ASSUME NEW t, t = next PROVE task.status = "blocked" <=> Reason(t)'
      <3>1. r.after # {} => finisher = None
        BY <1>2, MakeFacts DEF Locked
      <3>2. Reason(t)' <=> \E u \in r.after: Cr!Current(u)'.status # "completed"
        BY <1>1, <1>3, <1>8, <2>2, <3>1 DEF Reason
      <3>3. \A u \in r.after: Cr!Current(u)' = Cr!Current(u)
        BY <1>2, <1>8
      <3>  QED  BY <1>3, <1>4, <3>2, <3>3
    <2>  QED  BY <1>7, <1>8, <2>1, <2>2 DEF Waits
  <1>  QED  BY <1>9, <1>10, <1>12, <1>13, <1>15, <1>16, <1>17


LEMMA CreationRecorded ==
    ASSUME MakeInv, CreationParameters, NEW c \in Creator, Cr!AppendCreated(c)
    PROVE  MakeInv'
  <1> USE DEF MakeInv
  <1>0. PICK t, task: t = next /\ task = creator[c].task
    OBVIOUS
  <1>1. /\ taskFile' = taskFile /\ next' = next /\ configLock' = configLock
        /\ depLock' = depLock /\ rebuild' = rebuild /\ finisher' = finisher /\ given' = given
        /\ undone' = undone /\ creator[c].pc = "journal"
        /\ history' = [history EXCEPT ![t] = task] /\ Cr!Goto(c, "count")
    BY <1>0 DEF Cr!AppendCreated, Cr!At, Cr!locks
  <1>2. /\ t \in Cr!Known /\ t \in Cr!Id /\ Cr!Current(t).request = creator[c].request
        /\ task \in Cr!Task /\ task # None /\ task.request = creator[c].request /\ task.version = 1
        /\ configLock = c
    BY <1>0, <1>1, MakeFacts DEF Numbered, SameRequest, Locked
  <1>3. /\ creator' \in [Creator -> Maker] /\ \A d \in Creator: d # c => creator'[d] = creator[d]
        /\ creator'[c].pc = "count" /\ creator'[c].request = creator[c].request
        /\ \A d \in Creator: creator'[d].pc # "idle" => creator'[d].request \in Request
    BY <1>1, GoesTo
  <1>4. /\ history' \in [Cr!Id -> Cr!Task \cup {None}] /\ history'[t] = task
        /\ \A u \in Cr!Id: u # t => history'[u] = history[u]
    BY <1>1, <1>2 DEF MakeTyped
  <1>5. Cr!Known' = Cr!Known
    BY <1>1, <1>2, <1>4, MakeFacts DEF Cr!Known
  <1>6. \A d \in Creator: d # c => creator'[d].pc \in {"idle", "dep", "config"}
    BY <1>2, <1>3 DEF Locked
  <1>7. /\ taskFile[t] = None => task.status = "pending" /\ history[t] # None
                              /\ history[t].status \in {"pending", "in_progress"}
        /\ history[t] # None => history[t].version # 1
        /\ \A x \in Creator \cup Reader:
              rebuild[x] # None /\ rebuild[x].id = t => rebuild[x].task.version # 1
    <2>1. /\ task.status # "pending" => taskFile[t] = task /\ history[t] = None
          /\ history[t] # None => history[t].version # 1
          /\ \A x \in Creator \cup Reader:
              rebuild[x] # None /\ rebuild[x].id = t => rebuild[x].task.version # 1
      BY <1>0, <1>1 DEF Recorded
    <2>2. taskFile[t] = None => history[t] # None
      BY <1>2, MakeFacts
    <2>  QED  BY <1>2, <2>1, <2>2 DEF Recorded
  <1>8. /\ \A u: u = t => Cr!Current(u)' = IF taskFile[t] # None THEN taskFile[t] ELSE task
        /\ \A u: u \in Cr!Known /\ u # t => Cr!Current(u)' = Cr!Current(u)
    BY <1>1, <1>2, <1>4, MakeFacts DEF Cr!Current
  <1>9. \A u, y: u \in Cr!Known /\ y = Cr!Current(u)' =>
             /\ y.request = Cr!Current(u).request
             /\ y.status = "blocked" <=> Cr!Current(u).status = "blocked"
             /\ y.status = "completed" <=> Cr!Current(u).status = "completed"
    <2>1. taskFile[t] # None => Cr!Current(t) = taskFile[t]
      BY DEF Cr!Current
    <2>2. taskFile[t] = None => Cr!Current(t) = history[t]
      BY DEF Cr!Current
    <2>3. \A y: y = Cr!Current(t)' =>
             /\ y.request = Cr!Current(t).request
             /\ y.status = "blocked" <=> Cr!Current(t).status = "blocked"
             /\ y.status = "completed" <=> Cr!Current(t).status = "completed"
      BY <1>2, <1>7, <1>8, <2>1, <2>2
    <2>  QED  BY <1>8, <2>3
  <1>10. MakeTyped'
    BY <1>1, <1>3, <1>4 DEF MakeTyped
  <1>11. Locked'
    BY <1>1, <1>3 DEF Locked
  <1>12. Numbered' /\ AskedOnce'
    <2>1. \A u \in Cr!Known: Cr!Current(u)'.request = Cr!Current(u).request
      BY <1>9
    <2>2. Numbered'
      BY <1>0, <1>1, <1>2, <1>3, <1>5, <1>6, <2>1 DEF Numbered
    <2>3. AskedOnce'
      BY <1>1, <1>3, <1>5, <1>6, <2>1 DEF AskedOnce
    <2>  QED  BY <2>2, <2>3
  <1>13. SameRequest'
    <2>1. taskFile[t] # None => taskFile[t].request = task.request
      BY <1>2 DEF Cr!Current
    <2>2. \A x \in Creator \cup Reader: rebuild[x] # None /\ rebuild[x].id = t =>
            rebuild[x].task.request = task.request
      <3>1. history[t] # None => history[t].request = Cr!Current(t).request
        BY <1>2 DEF SameRequest, Cr!Current
      <3>  QED  BY <1>2, <3>1 DEF SameRequest
    <2>3. \A x \in Creator \cup Reader: rebuild[x] # None => rebuild[x].id \in Cr!Id
      BY MakeFacts
    <2>  QED  BY <1>1, <1>2, <1>3, <1>4, <1>6, <2>1, <2>2, <2>3 DEF SameRequest
  <1>14. Recorded'
    <2>1. \A u \in Cr!Id: taskFile'[u] = None /\ history'[u] # None =>
            history'[u].status \in {"pending", "in_progress"}
      BY <1>1, <1>4, <1>7 DEF Recorded
    <2>2. \A u \in Cr!Id: u \notin undone' /\ taskFile'[u] # None /\ history'[u] # None /\ taskFile'[u] # history'[u] =>
            /\ history'[u].version = 1
            /\ \A y \in Creator \cup Reader:
                rebuild'[y] # None /\ rebuild'[y].id = u => rebuild'[y].task.version # 1
      BY <1>1, <1>2, <1>4, <1>7 DEF Recorded
    <2>  QED  BY <1>3, <1>6, <2>1, <2>2 DEF Recorded
  <1>15. Waits'
    BY <1>1, <1>5, <1>9, WaitsStays
  <1>  QED  BY <1>10, <1>11, <1>12, <1>13, <1>14, <1>15

-----------------------------------------------------------------------------
\* What a worker does to tasks: each one is left alone or goes on to another version that is
\* not blocked, in its file and its journal, or in its journal alone.
Onward(t) ==
    /\ t \in Cr!Known
    /\ history'[t] \in Cr!Task /\ taskFile'[t] \in {None, history'[t]}
    /\ history'[t].version # 1 /\ history'[t].request = Cr!Current(t).request
    /\ history'[t].status # "blocked"
    /\ taskFile'[t] = None => history'[t].status \in {"pending", "in_progress"}
    /\ Cr!Current(t).status = "blocked" => depLock \notin Creator

LEMMA WorkersGo ==
    ASSUME MakeInv, CreationParameters,
           taskFile' \in [Cr!Id -> Cr!Task \cup {None}], history' \in [Cr!Id -> Cr!Task \cup {None}],
           \A t \in Cr!Id: (taskFile'[t] = taskFile[t] /\ history'[t] = history[t]) \/ Onward(t),
           next' = next, creator' = creator, rebuild' = rebuild, given' = given, undone' = undone
    PROVE  /\ Cr!Known' = Cr!Known
           /\ \A t: t \in Cr!Known => \/ Cr!Current(t)' = Cr!Current(t)
                                      \/ Onward(t) /\ Cr!Current(t)' = history'[t]
           /\ Numbered' /\ AskedOnce' /\ SameRequest' /\ Recorded'
  <1> USE DEF MakeInv
  <1>1. \A t \in Cr!Id: Onward(t) => history'[t] # None
    BY MakeFacts DEF Onward
  <1>2. Cr!Known' = Cr!Known
    <2>1. \A t: t \in Cr!Known' <=> t \in Cr!Id /\ (taskFile'[t] # None \/ history'[t] # None)
      BY DEF Cr!Known
    <2>2. \A t: t \in Cr!Known' <=> t \in Cr!Known
      BY <1>1, <2>1, MakeFacts DEF Onward
    <2>  QED  BY <2>2 DEF Cr!Known
  <1>3. \A t: t \in Cr!Known => \/ Cr!Current(t)' = Cr!Current(t)
                                \/ Onward(t) /\ Cr!Current(t)' = history'[t]
    BY <1>1, MakeFacts DEF Onward, Cr!Current
  <1>4. Numbered' /\ AskedOnce'
    <2>1. \A t, y: t \in Cr!Known /\ y = Cr!Current(t)' => y.request = Cr!Current(t).request
      BY <1>3 DEF Onward
    <2>  QED  BY <1>2, <2>1, TasksGo
  <1>5. SameRequest'
    <2>1. \A t \in Cr!Id: taskFile'[t] # None /\ history'[t] # None => taskFile'[t].request = history'[t].request
      BY DEF SameRequest, Onward
    <2>2. \A x \in Creator \cup Reader: rebuild[x] # None =>
            /\ history'[rebuild[x].id] # None
            /\ rebuild[x].task.request = history'[rebuild[x].id].request
      <3>  SUFFICES ASSUME NEW x \in Creator \cup Reader, rebuild[x] # None
                    PROVE  /\ history'[rebuild[x].id] # None
                           /\ rebuild[x].task.request = history'[rebuild[x].id].request
        OBVIOUS
      <3>1. PICK t \in Cr!Id: t = rebuild[x].id
        BY MakeFacts
      <3>2. history[t] # None /\ rebuild[x].task.request = history[t].request
        BY <3>1 DEF SameRequest
      <3>3. Cr!Current(t).request = history[t].request
        BY <3>2 DEF SameRequest, Cr!Current
      <3>  QED  BY <1>1, <3>1, <3>2, <3>3 DEF Onward
    <2>  QED  BY <2>1, <2>2 DEF SameRequest
  <1>6. Recorded'
    <2>1. \A t \in Cr!Id: taskFile'[t] = None /\ history'[t] # None =>
            history'[t].status \in {"pending", "in_progress"}
      BY DEF Recorded, Onward
    <2>2. ASSUME NEW c \in Creator, creator[c].pc = "journal", NEW t, t = next
          PROVE  /\ creator[c].task.status # "pending" => taskFile'[t] = creator[c].task /\ history'[t] = None
                 /\ history'[t] # None => history'[t].version # 1
      <3>1. t \in Cr!Id
        BY <2>2, MakeFacts DEF Numbered
      <3>2. ASSUME creator[c].task.status # "pending"
            PROVE  taskFile'[t] = taskFile[t] /\ history'[t] = history[t]
        <4>1. taskFile[t] = creator[c].task /\ creator[c].task \in Cr!Task
          BY <2>2, <3>2 DEF Recorded, SameRequest
        <4>2. Cr!Current(t) = creator[c].task
          BY <4>1, MakeFacts DEF Cr!Current
        <4>3. creator[c].task.status = "blocked" /\ depLock = c
          BY <2>2, <3>2 DEF SameRequest, Locked
        <4>  QED  BY <3>1, <4>2, <4>3 DEF Onward
      <3>  QED  BY <2>2, <3>1, <3>2 DEF Recorded, Onward
    <2>3. \A t \in Cr!Id: t \notin undone /\ taskFile'[t] # None /\ history'[t] # None /\ taskFile'[t] # history'[t] =>
            taskFile'[t] = taskFile[t] /\ history'[t] = history[t]
      BY DEF Onward
    <2>  QED  BY <2>1, <2>2, <2>3 DEF Recorded
  <1>  QED  BY <1>2, <1>3, <1>4, <1>5, <1>6

\* The task a worker commits has its next version and the status he gives it.
LEMMA MovedIs ==
    ASSUME MakeInv, CreationParameters, NEW t \in Cr!Known, NEW s \in Cr!Status
    PROVE  LET m == Cr!Moved(t, s)
           IN m \in Cr!Task /\ m.status = s /\ m.request = Cr!Current(t).request /\ m.version # 1
  <1>1. Cr!Current(t) \in Cr!Task
    BY MakeFacts DEF MakeInv
  <1>2. \A k \in Cr!Task: LET m == [k EXCEPT !.status = s, !.version = @ + 1]
          IN m \in Cr!Task /\ m.status = s /\ m.request = k.request /\ m.version # 1
    <2>  SUFFICES ASSUME NEW k \in Cr!Task
                  PROVE  LET m == [k EXCEPT !.status = s, !.version = @ + 1]
                         IN m \in Cr!Task /\ m.status = s /\ m.request = k.request /\ m.version # 1
      OBVIOUS
    <2>1. k.request \in Request /\ k.version \in Nat \ {0}
      BY DEF Cr!Task
    <2>2. \A n \in Nat \ {0}: LET m == [k EXCEPT !.status = s, !.version = n]
                              IN m \in Cr!Task /\ m.status = s /\ m.request = k.request /\ m.version = n
      BY DEF Cr!Task
    <2>3. k.version + 1 \in Nat \ {0} /\ k.version + 1 # 1
      BY <2>1
    <2>  QED  BY <2>1, <2>2, <2>3
  <1>  QED  BY <1>1, <1>2 DEF Cr!Moved

\* One task goes on, in its file and its journal.
LEMMA Committed ==
    ASSUME MakeInv, CreationParameters, NEW t \in Cr!Known,
           NEW s \in {"pending", "in_progress", "completed"}, Cr!Commit(t, Cr!Moved(t, s)),
           Cr!Current(t).status # "blocked" \/ depLock \notin Creator,
           next' = next, creator' = creator, rebuild' = rebuild, given' = given, undone' = undone
    PROVE  /\ taskFile' \in [Cr!Id -> Cr!Task \cup {None}] /\ history' \in [Cr!Id -> Cr!Task \cup {None}]
           /\ Cr!Known' = Cr!Known
           /\ Numbered' /\ AskedOnce' /\ SameRequest' /\ Recorded'
           /\ \A u, y: u \in Cr!Known /\ y = Cr!Current(u)' =>
                /\ y.request = Cr!Current(u).request
                /\ u # t => y = Cr!Current(u)
                /\ u = t => y.status = s
  <1> DEFINE m == Cr!Moved(t, s)
  <1>1. m \in Cr!Task /\ m.status = s /\ m.request = Cr!Current(t).request /\ m.version # 1
    BY MovedIs DEF Cr!Status
  <1>2. taskFile' = [taskFile EXCEPT ![t] = m] /\ history' = [history EXCEPT ![t] = m] /\ t \in Cr!Id /\ m # None
    BY <1>1, MakeFacts DEF Cr!Commit, MakeInv
  <1>  HIDE DEF m
  <1>3. /\ taskFile' \in [Cr!Id -> Cr!Task \cup {None}] /\ history' \in [Cr!Id -> Cr!Task \cup {None}]
        /\ taskFile'[t] = m /\ history'[t] = m
        /\ \A u \in Cr!Id: u # t => taskFile'[u] = taskFile[u] /\ history'[u] = history[u]
    BY <1>1, <1>2 DEF MakeInv, MakeTyped
  <1>4. Onward(t)
    BY <1>1, <1>2, <1>3 DEF Onward
  <1>5. \A u \in Cr!Id: (taskFile'[u] = taskFile[u] /\ history'[u] = history[u]) \/ Onward(u)
    BY <1>3, <1>4
  <1>6. \A u, y: u \in Cr!Known /\ y = Cr!Current(u)' =>
                /\ y.request = Cr!Current(u).request
                /\ u # t => y = Cr!Current(u)
                /\ u = t => y.status = s
    BY <1>1, <1>2, <1>3, MakeFacts DEF Cr!Current, MakeInv
  <1>7. /\ Cr!Known' = Cr!Known
        /\ Numbered' /\ AskedOnce' /\ SameRequest' /\ Recorded'
    BY <1>3, <1>5, WorkersGo
  <1>  QED  BY <1>3, <1>6, <1>7

LEMMA WorkerClaims ==
    ASSUME MakeInv, CreationParameters, NEW t \in Cr!Id, Cr!Claim(t)
    PROVE  MakeInv'
  <1> USE DEF MakeInv
  <1>1. /\ next' = next /\ configLock' = configLock /\ depLock' = depLock /\ creator' = creator
        /\ rebuild' = rebuild /\ finisher' = finisher /\ given' = given /\ undone' = undone
        /\ depLock = None /\ t \in Cr!Known /\ Cr!Current(t).status \in {"pending", "blocked"}
        /\ \A u \in Cr!Current(t).request.after: Cr!Current(u).status = "completed"
        /\ Cr!Commit(t, Cr!Moved(t, "in_progress"))
    BY DEF Cr!Claim, Cr!locks, Cr!Open
  <1>2. finisher = None /\ depLock \notin Creator
    BY <1>1, MakeFacts DEF Locked
  <1>3. /\ taskFile' \in [Cr!Id -> Cr!Task \cup {None}] /\ history' \in [Cr!Id -> Cr!Task \cup {None}]
        /\ Cr!Known' = Cr!Known
        /\ Numbered' /\ AskedOnce' /\ SameRequest' /\ Recorded'
        /\ \A u, y: u \in Cr!Known /\ y = Cr!Current(u)' =>
                /\ y.request = Cr!Current(u).request
                /\ u # t => y = Cr!Current(u)
                /\ u = t => y.status = "in_progress"
    BY <1>1, <1>2, Committed
  <1>4. MakeTyped' /\ Locked'
    BY <1>1, <1>3 DEF MakeTyped, Locked
  <1>5. \A u \in Cr!Known: Cr!Current(u)'.status = "completed" <=> Cr!Current(u).status = "completed"
    BY <1>1, <1>3
  <1>6. Waits'
    <2>  SUFFICES ASSUME NEW u \in Cr!Known, Clean(u)'
                  PROVE  (Cr!Current(u).status = "blocked")' <=> Reason(u)'
      BY <1>3 DEF Waits
    <2>1. Cr!Current(u)'.request = Cr!Current(u).request
      BY <1>3
    <2>2. \A v \in Cr!Current(u).request.after: v \in Cr!Known
      BY DEF AskedOnce
    <2>3. Clean(u)
      BY <1>1, <2>1 DEF Clean
    <2>4. Reason(u)' <=> Reason(u)
      BY <1>1, <1>5, <2>1, <2>2 DEF Reason
    <2>5. Cr!Current(u).status = "blocked" <=> Reason(u)
      BY <2>3 DEF Waits
    <2>6. CASE u = t
      BY <1>1, <1>2, <1>3, <2>4, <2>6 DEF Reason
    <2>7. CASE u # t
      BY <1>3, <2>4, <2>5, <2>7
    <2>  QED  BY <2>6, <2>7
  <1>  QED  BY <1>3, <1>4, <1>6

LEMMA WorkerCompletes ==
    ASSUME MakeInv, CreationParameters, NEW t \in Cr!Id, Cr!Complete(t)
    PROVE  MakeInv'
  <1> USE DEF MakeInv
  <1>1. /\ next' = next /\ configLock' = configLock /\ depLock' = "worker" /\ creator' = creator
        /\ rebuild' = rebuild /\ finisher' = t /\ given' = given /\ undone' = undone
        /\ depLock = None /\ t \in Cr!Known /\ Cr!Current(t).status = "in_progress"
        /\ \A u \in Cr!Current(t).request.after: Cr!Current(u).status = "completed"
        /\ Cr!Commit(t, Cr!Moved(t, "completed"))
    BY DEF Cr!Complete, Cr!locks, Cr!Open
  <1>2. finisher = None /\ t # None
    BY <1>1, MakeFacts DEF Locked
  <1>3. /\ taskFile' \in [Cr!Id -> Cr!Task \cup {None}] /\ history' \in [Cr!Id -> Cr!Task \cup {None}]
        /\ Cr!Known' = Cr!Known
        /\ Numbered' /\ AskedOnce' /\ SameRequest' /\ Recorded'
        /\ \A u, y: u \in Cr!Known /\ y = Cr!Current(u)' =>
                /\ y.request = Cr!Current(u).request
                /\ u # t => y = Cr!Current(u)
                /\ u = t => y.status = "completed"
    BY <1>1, Committed
  <1>4. MakeTyped'
    BY <1>1, <1>3 DEF MakeTyped
  <1>5. Locked'
    BY <1>1, MakeFacts DEF Locked
  <1>6. Waits'
    <2>  SUFFICES ASSUME NEW u \in Cr!Known, Clean(u)'
                  PROVE  (Cr!Current(u).status = "blocked")' <=> Reason(u)'
      BY <1>3 DEF Waits
    <2>1. Cr!Current(u)'.request = Cr!Current(u).request
      BY <1>3
    <2>2. \A v \in Cr!Current(u).request.after: v \in Cr!Known
      BY DEF AskedOnce
    <2>3. Cr!Current(u).status = "blocked" <=> Reason(u)
      BY <1>1, <2>1 DEF Clean, Waits
    <2>4. Cr!Current(u)'.status = "blocked" <=> Cr!Current(u).status = "blocked"
      BY <1>1, <1>3
    <2>5. CASE t \in Cr!Current(u).request.after
      BY <1>1, <1>2, <2>1, <2>3, <2>4, <2>5 DEF Reason
    <2>6. CASE t \notin Cr!Current(u).request.after
      <3>1. \A v \in Cr!Current(u).request.after: Cr!Current(v)' = Cr!Current(v)
        BY <1>3, <2>2, <2>6
      <3>2. Reason(u)' <=> Reason(u)
        BY <1>1, <1>2, <2>1, <2>6, <3>1 DEF Reason
      <3>  QED  BY <2>3, <2>4, <3>2
    <2>  QED  BY <2>5, <2>6
  <1>  QED  BY <1>3, <1>4, <1>5, <1>6

LEMMA DependentsFreed ==
    ASSUME MakeInv, CreationParameters, Cr!Unblock
    PROVE  MakeInv'
  <1> USE DEF MakeInv
  <1>1. /\ next' = next /\ configLock' = configLock /\ depLock' = None /\ creator' = creator
        /\ rebuild' = rebuild /\ finisher' = None /\ given' = given /\ undone' = undone
        /\ finisher # None
        /\ taskFile' = [t \in Cr!Id |-> IF t \in Cr!Freed THEN Cr!Moved(t, "pending") ELSE taskFile[t]]
        /\ history' = [t \in Cr!Id |-> IF t \in Cr!Freed THEN Cr!Moved(t, "pending") ELSE history[t]]
    BY DEF Cr!Unblock
  <1>2. \A t: t \in Cr!Freed <=>
          /\ t \in Cr!Known /\ Cr!Current(t).status = "blocked" /\ finisher \in Cr!Current(t).request.after
          /\ \A u \in Cr!Current(t).request.after: Cr!Current(u).status = "completed"
    BY DEF Cr!Freed, Cr!Open
  <1>3. depLock \notin Creator
    BY <1>1, MakeFacts DEF Locked
  <1>4. \A t \in Cr!Freed: /\ Cr!Moved(t, "pending") \in Cr!Task /\ Cr!Moved(t, "pending").status = "pending"
                           /\ Cr!Moved(t, "pending").request = Cr!Current(t).request
                           /\ Cr!Moved(t, "pending").version # 1 /\ Cr!Moved(t, "pending") # None
    BY <1>2, MovedIs, MakeFacts DEF Cr!Status
  <1>5. /\ taskFile' \in [Cr!Id -> Cr!Task \cup {None}] /\ history' \in [Cr!Id -> Cr!Task \cup {None}]
        /\ \A t \in Cr!Id: IF t \in Cr!Freed
                           THEN taskFile'[t] = Cr!Moved(t, "pending") /\ history'[t] = Cr!Moved(t, "pending")
                           ELSE taskFile'[t] = taskFile[t] /\ history'[t] = history[t]
    BY <1>1, <1>4 DEF MakeTyped
  <1>6. \A t \in Cr!Id: (taskFile'[t] = taskFile[t] /\ history'[t] = history[t]) \/ Onward(t)
    BY <1>2, <1>3, <1>4, <1>5 DEF Onward
  <1>7. /\ Cr!Known' = Cr!Known
        /\ Numbered' /\ AskedOnce' /\ SameRequest' /\ Recorded'
    BY <1>1, <1>5, <1>6, WorkersGo
  <1>8. \A t, y: t \in Cr!Known /\ y = Cr!Current(t)' =>
          /\ t \in Cr!Freed => y.request = Cr!Current(t).request /\ y.status = "pending"
          /\ t \notin Cr!Freed => y = Cr!Current(t)
    BY <1>4, <1>5, MakeFacts DEF Cr!Current
  <1>9. MakeTyped'
    BY <1>1, <1>5 DEF MakeTyped
  <1>10. Locked'
    BY <1>1, <1>3 DEF Locked
  <1>11. Waits'
    <2>  SUFFICES ASSUME NEW u \in Cr!Known, Clean(u)'
                  PROVE  (Cr!Current(u).status = "blocked")' <=> Reason(u)'
      BY <1>7 DEF Waits
    <2>1. Cr!Current(u)'.request = Cr!Current(u).request
      BY <1>8
    <2>2. \A v \in Cr!Current(u).request.after: v \in Cr!Known
      BY DEF AskedOnce
    <2>3. Cr!Current(u).status = "blocked" <=> Reason(u)
      BY <1>1, <2>1 DEF Clean, Waits
    <2>4. \A v \in Cr!Known: Cr!Current(v)'.status = "completed" <=> Cr!Current(v).status = "completed"
      BY <1>2, <1>8
    <2>5. Reason(u)' <=> \E v \in Cr!Current(u).request.after: Cr!Current(v).status # "completed"
      BY <1>1, <2>1, <2>2, <2>4 DEF Reason
    <2>6. CASE u \in Cr!Freed
      BY <1>2, <1>8, <2>5, <2>6
    <2>7. CASE u \notin Cr!Freed
      BY <1>1, <1>2, <1>8, <2>3, <2>5, <2>7 DEF Reason
    <2>  QED  BY <2>6, <2>7
  <1>  QED  BY <1>7, <1>9, <1>10, <1>11

LEMMA TaskUnlinked ==
    ASSUME MakeInv, CreationParameters, NEW t \in Cr!Id, Cr!Unlink(t)
    PROVE  MakeInv'
  <1> DEFINE m == [Cr!Current(t) EXCEPT !.version = @ + 2]
  <1> USE DEF MakeInv
  <1>1. /\ next' = next /\ configLock' = configLock /\ depLock' = depLock /\ creator' = creator
        /\ rebuild' = rebuild /\ finisher' = finisher /\ given' = given /\ undone' = undone
        /\ t \in Cr!Known /\ Cr!Current(t).status \in {"pending", "in_progress"}
        /\ taskFile' = [taskFile EXCEPT ![t] = None] /\ history' = [history EXCEPT ![t] = m]
    BY DEF Cr!Unlink, Cr!locks
  <1>2. /\ m \in Cr!Task /\ m.status = Cr!Current(t).status /\ m.request = Cr!Current(t).request
        /\ m.version # 1 /\ m # None
    <2>1. \A k \in Cr!Task: LET n == [k EXCEPT !.version = @ + 2]
            IN n \in Cr!Task /\ n.status = k.status /\ n.request = k.request /\ n.version # 1
      BY DEF Cr!Task
    <2>2. Cr!Current(t) \in Cr!Task
      BY <1>1, MakeFacts
    <2>  QED  BY <2>1, <2>2, MakeFacts
  <1>  HIDE DEF m
  <1>3. /\ taskFile' \in [Cr!Id -> Cr!Task \cup {None}] /\ history' \in [Cr!Id -> Cr!Task \cup {None}]
        /\ taskFile'[t] = None /\ history'[t] = m
        /\ \A u \in Cr!Id: u # t => taskFile'[u] = taskFile[u] /\ history'[u] = history[u]
    BY <1>1, <1>2 DEF MakeTyped
  <1>4. Onward(t)
    BY <1>1, <1>2, <1>3 DEF Onward
  <1>5. \A u \in Cr!Id: (taskFile'[u] = taskFile[u] /\ history'[u] = history[u]) \/ Onward(u)
    BY <1>3, <1>4
  <1>6. /\ Cr!Known' = Cr!Known
        /\ Numbered' /\ AskedOnce' /\ SameRequest' /\ Recorded'
    BY <1>1, <1>3, <1>5, WorkersGo
  <1>7. MakeTyped' /\ Locked'
    BY <1>1, <1>3 DEF MakeTyped, Locked
  <1>8. \A u, y: u \in Cr!Known /\ y = Cr!Current(u)' =>
          y.request = Cr!Current(u).request /\ y.status = Cr!Current(u).status
    BY <1>2, <1>3, MakeFacts DEF Cr!Current
  <1>9. Waits'
    BY <1>1, <1>6, <1>8, WaitsStays
  <1>  QED  BY <1>6, <1>7, <1>9

LEMMA CreationStepKeeps ==
    ASSUME MakeInv, CreationParameters, [Cr!Next]_(Cr!vars)
    PROVE  MakeInv'
  <1>1. ASSUME UNCHANGED Cr!vars PROVE MakeInv'
    <2>1. /\ taskFile' = taskFile /\ history' = history /\ next' = next /\ configLock' = configLock
          /\ depLock' = depLock /\ creator' = creator /\ finisher' = finisher /\ given' = given
          /\ undone' = undone /\ rebuild' = rebuild
      BY <1>1 DEF Cr!vars
    <2>2. Cr!Known' = Cr!Known /\ \A u: Cr!Current(u)' = Cr!Current(u)
      BY <2>1, TasksStay
    <2>3. MakeTyped' /\ Locked' /\ SameRequest' /\ Recorded'
      BY <2>1 DEF MakeInv, MakeTyped, Locked, SameRequest, Recorded
    <2>4. Numbered' /\ AskedOnce'
      BY <2>1, <2>2, TasksGo
    <2>5. Waits'
      BY <2>1, <2>2, WaitsStays
    <2>  QED  BY <2>3, <2>4, <2>5 DEF MakeInv
  <1>2. ASSUME NEW c \in Creator, NEW r \in Request, Cr!createTask(c, r) PROVE MakeInv'
    BY <1>2, CreationBegins
  <1>3. ASSUME NEW c \in Creator,
               \/ Cr!TakeDepLock(c) \/ Cr!TakeConfigLock(c) \/ Cr!Check(c) \/ Cr!Find(c) \/ Cr!Occupied(c)
               \/ Cr!CreateFile(c) \/ Cr!AppendCreated(c) \/ Cr!CountTask(c) \/ Cr!CutShort(c)
        PROVE  MakeInv'
    BY <1>3, LocksTaken, CreationChecks, CreationFinds, NumberTaken, FileCreated, CreationRecorded, CreationCut
  <1>4. ASSUME NEW x \in Creator \cup Reader, (\E t \in Cr!Id: Cr!RebuildRead(x, t)) \/ Cr!RebuildWrite(x)
        PROVE  MakeInv'
    BY <1>4, CopyRead, CopyWritten
  <1>5. ASSUME NEW t \in Cr!Id, Cr!Claim(t) \/ Cr!Complete(t) \/ Cr!Unlink(t) PROVE MakeInv'
    BY <1>5, WorkerClaims, WorkerCompletes, TaskUnlinked
  <1>6. ASSUME Cr!Next PROVE MakeInv'
    BY <1>2, <1>3, <1>4, <1>5, <1>6, DependentsFreed DEF Cr!Next
  <1>  QED  BY <1>1, <1>6

\* However creations are cut short, repeated or overtaken, and files lost and rebuilt, a request
\* makes one task, and a task waits exactly while it has to (createTask in team/tasks.ts).
THEOREM TasksCreatedOnce ==
    ASSUME CreationParameters
    PROVE  Cr!Spec => [](Cr!CreatedOnce /\ Cr!WaitsForReason)
  <1>1. MakeInv /\ [Cr!Next]_Cr!vars => MakeInv'
    BY CreationStepKeeps
  <1>2. Cr!Init => MakeInv
    BY CreationInitially
  <1>3. MakeInv => Cr!CreatedOnce /\ Cr!WaitsForReason
    BY CreationImplied
  <1> QED  BY <1>1, <1>2, <1>3, PTL DEF Cr!Spec

-----------------------------------------------------------------------------
(* NativeTeam.  What a manifest, a call or an answer says has ended, has   *)
(* ended or failed to be cancelled; and as long as calls do not overlap, a *)
(* run is named by the manifest or by the call that will write the next.   *)

NativeParameters == NumWorkers \in Nat /\ Nt!NoneFits

Statuses == {"running", "finished", "cancelled"}
Entries == [run: Nat, status: Statuses]
RunRecords == [worker: Nat, call: Nat, status: Statuses]
Manifests == [workers: [Nt!Worker -> Entries], stopped: BOOLEAN]
Calls == [pc: Nt!Writing \cup {"idle", "status"}, call: Nat, read: Manifests \cup {None},
          at: 0 .. NumWorkers, workers: Seq(Entries)]

NativeTyped ==
    /\ nativeManifest \in Manifests \cup {None}
    /\ runs \in Seq(RunRecords)
    /\ nativeOp \in [Process -> Calls]
    /\ overlapped \in BOOLEAN
    /\ calls \in Nat

Over(r) == runs[r].status # "running" \/ r \in uncancelled

EntryFits(e, k) ==
    /\ e.run \in DOMAIN runs /\ runs[e.run].worker = k
    /\ e.status # "running" => Over(e.run)

Whole(m) ==
    \A k \in Nt!Worker:
        /\ EntryFits(m.workers[k], k)
        /\ m.stopped => Over(m.workers[k].run)

Starter == {"start", "resume"}

\* A run named anew is the one that was named, or this call's and later.
Renamed(p, k) ==
    /\ nativeOp[p].read # None => nativeOp[p].read.workers[k].run <= nativeOp[p].workers[k].run
    /\ \/ runs[nativeOp[p].workers[k].run].call = nativeOp[p].call
       \/ nativeOp[p].read # None /\ nativeOp[p].workers[k].run = nativeOp[p].read.workers[k].run

\* How far a call has come.
Has(p) ==
    /\ nativeOp[p].pc \notin {"idle", "start"} => nativeOp[p].read # None
    /\ nativeOp[p].read # None => Whole(nativeOp[p].read)
    /\ nativeOp[p].pc \in Starter \cup {"status"} => Len(nativeOp[p].workers) = nativeOp[p].at
    /\ nativeOp[p].pc \in Starter \cup {"status"} =>
         \A k \in 1 .. nativeOp[p].at: EntryFits(nativeOp[p].workers[k], k)
    /\ nativeOp[p].pc \in Starter => \A k \in 1 .. nativeOp[p].at: Renamed(p, k)
    /\ nativeOp[p].pc = "status" =>
         \A k \in 1 .. nativeOp[p].at: nativeOp[p].workers[k].run = nativeOp[p].read.workers[k].run
    /\ nativeOp[p].pc = "shutdown" => \A k \in 1 .. nativeOp[p].at: Over(nativeOp[p].read.workers[k].run)

\* Some manifest, written or in the making, names the run, or nobody has to.
Makes(q, r) == nativeOp[q].pc \in Starter /\ \E k \in 1 .. nativeOp[q].at: nativeOp[q].workers[k].run = r
Traced(r) ==
    \/ r \in Nt!NamedRuns \/ runs[r].call \in broken \/ Nt!Superseded(r)
    \/ \E q \in Process: Makes(q, r)

InTurn ==
    /\ \A p, q \in Process: nativeOp[p].pc \in Nt!Writing /\ nativeOp[q].pc \in Nt!Writing => p = q
    /\ \A p \in Process: nativeOp[p].pc \in Nt!Writing => nativeOp[p].read = nativeManifest
    /\ \A r \in DOMAIN runs: Traced(r)

NativeInv ==
    /\ NativeTyped
    /\ nativeManifest # None => Whole(nativeManifest)
    /\ \A p \in Process: Has(p)
    /\ \A r \in informed: r \in DOMAIN runs /\ Over(r)
    /\ ~ overlapped => InTurn

LEMMA NativeImplied == ASSUME NativeParameters, NativeInv PROVE Nt!NobodyLost
  <1> SUFFICES ASSUME ~ overlapped
               PROVE  /\ Nt!Quiet => \A r \in DOMAIN runs:
                           Nt!Active(r) => \/ r \in Nt!NamedRuns \/ runs[r].call \in broken
                                           \/ Nt!Superseded(r)
                      /\ Nt!Quiet /\ nativeManifest # None =>
                           (nativeManifest.stopped =>
                              \A r \in Nt!NamedRuns: Nt!Active(r) => r \in uncancelled)
                      /\ \A r \in informed: Nt!Active(r) => r \in uncancelled
    BY DEF Nt!NobodyLost
  <1>1. ASSUME Nt!Quiet, NEW r \in DOMAIN runs
        PROVE  r \in Nt!NamedRuns \/ runs[r].call \in broken \/ Nt!Superseded(r)
    <2>1. \A q \in Process: ~ Makes(q, r)
      BY <1>1 DEF Nt!Quiet, Makes, Starter, Nt!Writing
    <2>  QED  BY <2>1 DEF NativeInv, InTurn, Traced
  <1>2. ASSUME nativeManifest # None, nativeManifest.stopped, NEW r \in Nt!NamedRuns, Nt!Active(r)
        PROVE  r \in uncancelled
    BY <1>2 DEF NativeInv, Whole, Over, Nt!NamedRuns, Nt!Active
  <1>3. \A r \in informed: Nt!Active(r) => r \in uncancelled
    BY DEF NativeInv, Over, Nt!Active
  <1>  QED  BY <1>1, <1>2, <1>3

LEMMA NativeInitially == ASSUME NativeParameters, Nt!Init PROVE NativeInv
  <1>1. NativeTyped
    <2>1. Nt!Resting \in Calls
      BY DEF NativeParameters, Nt!Resting, Calls
    <2>2. runs = <<>> /\ nativeOp = [p \in Process |-> Nt!Resting] /\ nativeManifest = None
          /\ overlapped = FALSE /\ calls = 0
      BY DEF Nt!Init
    <2>3. nativeOp \in [Process -> Calls]
      BY <2>1, <2>2
    <2>4. runs \in Seq(RunRecords)
      BY <2>2
    <2>  QED  BY <2>2, <2>3, <2>4 DEF NativeTyped
  <1>2. \A p \in Process: nativeOp[p].pc = "idle" /\ nativeOp[p].read = None /\ nativeOp[p].at = 0
    BY DEF Nt!Init, Nt!Resting
  <1>3. \A p \in Process: Has(p)
    BY <1>2 DEF Has, Starter
  <1>4. InTurn
    BY <1>2 DEF InTurn, Nt!Init, Nt!Writing
  <1>  QED  BY <1>1, <1>3, <1>4 DEF NativeInv, Nt!Init

\* Runs are added, end and fail to be cancelled, but do not change otherwise.
Ages ==
    /\ DOMAIN runs \subseteq DOMAIN runs'
    /\ \A r \in DOMAIN runs: runs'[r].worker = runs[r].worker /\ runs'[r].call = runs[r].call
    /\ \A r \in DOMAIN runs: Over(r) => Over(r)'

LEMMA EntryAges == ASSUME Ages, NEW e, NEW k, EntryFits(e, k) PROVE EntryFits(e, k)'
  BY DEF Ages, EntryFits

LEMMA WholeAges == ASSUME Ages, NEW m, Whole(m) PROVE Whole(m)'
  <1>1. \A k \in Nt!Worker: EntryFits(m.workers[k], k)'
    BY EntryAges DEF Whole
  <1>2. \A k \in Nt!Worker: m.stopped => Over(m.workers[k].run)'
    BY DEF Whole, EntryFits, Ages
  <1>  QED  BY <1>1, <1>2 DEF Whole

LEMMA HasAges ==
    ASSUME NativeParameters, NativeInv, Ages, NEW p \in Process, nativeOp'[p] = nativeOp[p]
    PROVE  Has(p)'
  <1>1. Has(p) /\ nativeOp[p].at <= NumWorkers /\ nativeOp[p].at \in Nat
    BY DEF NativeInv, NativeTyped, Calls, NativeParameters
  <1>2. nativeOp[p].read # None => Whole(nativeOp[p].read)'
    BY <1>1, WholeAges DEF Has
  <1>3. nativeOp[p].pc \in Starter \cup {"status"} =>
          \A k \in 1 .. nativeOp[p].at: EntryFits(nativeOp[p].workers[k], k)'
    BY <1>1, EntryAges DEF Has
  <1>4. nativeOp[p].pc \in Starter => \A k \in 1 .. nativeOp[p].at: Renamed(p, k)'
    <2> SUFFICES ASSUME nativeOp[p].pc \in Starter, NEW k \in 1 .. nativeOp[p].at
                 PROVE  Renamed(p, k)'
      OBVIOUS
    <2>1. Renamed(p, k) /\ nativeOp[p].workers[k].run \in DOMAIN runs
      BY <1>1 DEF Has, EntryFits
    <2>  QED  BY <2>1 DEF Renamed, Ages
  <1>5. nativeOp[p].pc = "shutdown" => \A k \in 1 .. nativeOp[p].at: Over(nativeOp[p].read.workers[k].run)'
    <2> SUFFICES ASSUME nativeOp[p].pc = "shutdown", NEW k \in 1 .. nativeOp[p].at
                 PROVE  Over(nativeOp[p].read.workers[k].run)'
      OBVIOUS
    <2>1. Over(nativeOp[p].read.workers[k].run) /\ nativeOp[p].read # None /\ k \in Nt!Worker
      BY <1>1 DEF Has, Nt!Worker, NativeParameters
    <2>2. nativeOp[p].read.workers[k].run \in DOMAIN runs
      BY <1>1, <2>1 DEF Has, Whole, EntryFits
    <2>  QED  BY <2>1, <2>2 DEF Ages
  <1>  HIDE DEF NativeInv
  <1>6. /\ nativeOp[p].pc \notin {"idle", "start"} => nativeOp[p].read # None
        /\ nativeOp[p].pc \in Starter \cup {"status"} => Len(nativeOp[p].workers) = nativeOp[p].at
        /\ nativeOp[p].pc = "status" =>
             \A k \in 1 .. nativeOp[p].at: nativeOp[p].workers[k].run = nativeOp[p].read.workers[k].run
    BY <1>1 DEF Has
  <1>  QED  BY <1>2, <1>3, <1>4, <1>5, <1>6 DEF Has

\* A step of one call, which leaves the others and what they name as they are.
LEMMA NativeGoes ==
    ASSUME NativeParameters, NativeInv, Ages, NativeTyped', NEW p \in Process,
           \A q \in Process: q # p => nativeOp'[q] = nativeOp[q],
           nativeManifest' # nativeManifest /\ nativeManifest' # None => Whole(nativeManifest)',
           \A r \in informed': r \in informed \/ (r \in DOMAIN runs' /\ Over(r)'),
           Has(p)', ~ overlapped' => InTurn'
    PROVE  NativeInv'
  <1>1. nativeManifest' # None => Whole(nativeManifest)'
    <2>1. CASE nativeManifest' = nativeManifest
      <3>1. \A m: Whole(m) => Whole(m)'
        BY WholeAges
      <3>2. nativeManifest # None => Whole(nativeManifest)
        BY DEF NativeInv
      <3>  QED  BY <2>1, <3>1, <3>2
    <2>  QED  BY <2>1
  <1>2. \A q \in Process: Has(q)'
    BY HasAges
  <1>3. \A r \in informed': r \in DOMAIN runs' /\ Over(r)'
    BY DEF NativeInv, Ages
  <1>  QED  BY <1>1, <1>2, <1>3 DEF NativeInv

\* A call that starts nothing, or goes on with it, keeps what it named.
LEMMA TracedKept ==
    ASSUME NativeParameters, NativeInv, Ages, NEW p \in Process,
           \A q \in Process: q # p => nativeOp'[q] = nativeOp[q],
           Nt!NamedRuns \subseteq Nt!NamedRuns', broken \subseteq broken',
           nativeOp[p].pc \in Starter =>
             /\ nativeOp'[p].pc = nativeOp[p].pc /\ nativeOp'[p].at >= nativeOp[p].at /\ nativeOp'[p].at \in Nat
             /\ \A k \in 1 .. nativeOp[p].at: nativeOp'[p].workers[k] = nativeOp[p].workers[k],
           NEW r \in DOMAIN runs, Traced(r)
    PROVE  Traced(r)'
  <1>1. CASE r \in Nt!NamedRuns \/ runs[r].call \in broken
    BY <1>1 DEF Traced, Ages
  <1>2. CASE Nt!Superseded(r)
    BY <1>2 DEF Traced, Nt!Superseded, Ages
  <1>3. ASSUME NEW q \in Process, Makes(q, r) PROVE Traced(r)'
    <2>1. nativeOp[q].at \in Nat
      BY DEF NativeInv, NativeTyped, Calls, NativeParameters
    <2>2. Makes(q, r)'
      BY <1>3, <2>1 DEF Makes
    <2>  QED  BY <2>2 DEF Traced
  <1>  QED  BY <1>1, <1>2, <1>3 DEF Traced

NativeBegun(p) ==
    /\ nativeOp \in [Process -> Calls] /\ nativeOp[p] \in Calls
    /\ nativeOp[p].at \in Nat /\ nativeOp[p].at <= NumWorkers /\ NumWorkers \in Nat /\ calls \in Nat
    /\ nativeManifest \in Manifests \cup {None} /\ None \notin Manifests
    /\ nativeOp[p].read \in Manifests \cup {None} /\ nativeOp[p].workers \in Seq(Entries)
    /\ runs \in Seq(RunRecords)
    /\ Nt!Worker = 1 .. NumWorkers /\ DOMAIN runs = 1 .. Len(runs) /\ Len(runs) \in Nat
    /\ Has(p)

LEMMA NativeBegins ==
    ASSUME NativeParameters, NativeInv, NEW p \in Process PROVE NativeBegun(p)
  <1>1. None \notin Manifests
    BY DEF NativeParameters, Nt!NoneFits, Manifests, Entries, Statuses
  <1>  QED  BY <1>1 DEF NativeBegun, NativeInv, NativeTyped, Calls, NativeParameters, Nt!Worker

LEMMA CallStep ==
    ASSUME NativeParameters, NativeInv, NEW p \in Process, NEW pc \in Nt!Writing \cup {"status"},
           Nt!Call(p, pc)
    PROVE  NativeInv'
  <1>1. NativeBegun(p)
    BY NativeBegins
  <1> DEFINE n == [Nt!Resting EXCEPT !.pc = pc, !.call = calls', !.read = nativeManifest]
  <1>2. /\ n \in Calls /\ nativeOp' = [nativeOp EXCEPT ![p] = n] /\ nativeOp[p].pc = "idle"
        /\ n.pc = pc /\ n.at = 0 /\ n.workers = <<>> /\ n.read = nativeManifest
    <2>1. calls' \in Nat /\ 0 \in 0 .. NumWorkers /\ <<>> \in Seq(Entries)
      BY <1>1 DEF NativeBegun, Nt!Call
    <2>2. Nt!Resting \in Calls
      BY <1>1, <2>1 DEF NativeBegun, Calls, Nt!Resting
    <2>3. n \in Calls
      BY <1>1, <2>1, <2>2 DEF NativeBegun, Calls
    <2>4. n.pc = pc /\ n.at = 0 /\ n.workers = <<>> /\ n.read = nativeManifest
      BY DEF Nt!Resting
    <2>  HIDE DEF n
    <2>5. nativeOp' = [nativeOp EXCEPT ![p] = n] /\ nativeOp[p].pc = "idle"
      BY DEF Nt!Call, Nt!At, n
    <2>  QED  BY <2>3, <2>4, <2>5
  <1>3. nativeOp'[p] = n /\ \A q \in Process: q # p => nativeOp'[q] = nativeOp[q]
    <2>  HIDE DEF n
    <2>  QED  BY <1>1, <1>2 DEF NativeBegun
  <1>  HIDE DEF n
  <1>4. NativeTyped'
    BY <1>1, <1>2 DEF NativeBegun, NativeTyped, Nt!Call, NativeInv
  <1>5. Ages
    BY DEF Ages, Over, Nt!Call
  <1>9. nativeManifest' = nativeManifest
    BY DEF Nt!Call
  <1>6. Has(p)'
    <2>1. nativeManifest # None => Whole(nativeManifest)'
      <3>1. \A m: Whole(m) => Whole(m)'
        BY <1>5, WholeAges
      <3>2. nativeManifest # None => Whole(nativeManifest)
        BY DEF NativeInv
      <3>  QED  BY <3>1, <3>2 DEF Nt!Call
    <2>2. nativeOp'[p].pc \notin {"idle", "start"} => nativeOp'[p].read # None
      BY <1>2, <1>3 DEF Nt!Call
    <2>3. nativeOp'[p].read # None => Whole(nativeOp[p].read)'
      BY <1>2, <1>3, <1>9, <2>1
    <2>  QED  BY <1>2, <1>3, <2>2, <2>3 DEF Has
  <1>7. ASSUME ~ overlapped' PROVE InTurn'
    <2>1. ~ overlapped /\ (pc \in Nt!Writing => \A q \in Process: nativeOp[q].pc \notin Nt!Writing)
      BY <1>1, <1>7 DEF Nt!Call, NativeInv, NativeTyped
    <2>2. InTurn
      BY <2>1 DEF NativeInv
    <2>3. \A q, s \in Process: nativeOp'[q].pc \in Nt!Writing /\ nativeOp'[s].pc \in Nt!Writing => q = s
      BY <1>2, <1>3, <2>1, <2>2 DEF InTurn
    <2>4. \A q \in Process: nativeOp'[q].pc \in Nt!Writing => nativeOp'[q].read = nativeManifest'
      BY <1>2, <1>3, <2>2 DEF InTurn, Nt!Call
    <2>5. \A r \in DOMAIN runs': Traced(r)'
      <3>1. Nt!NamedRuns' = Nt!NamedRuns /\ nativeOp[p].pc \notin Starter
        BY <1>2 DEF Nt!NamedRuns, Nt!Call, Starter
      <3>  QED  BY <1>3, <1>5, <2>2, <3>1, TracedKept DEF InTurn, Nt!Call
    <2>  QED  BY <2>3, <2>4, <2>5 DEF InTurn
  <1>8. \A r \in informed': r \in informed
    BY DEF Nt!Call
  <1>10. ~ overlapped' => InTurn'
    BY <1>7
  <1>  QED  BY <1>3, <1>4, <1>5, <1>6, <1>8, <1>9, <1>10, NativeGoes

\* What a step of a call that has begun, and does not write, leaves in turn.
LEMMA StaysInTurn ==
    ASSUME NativeParameters, NativeInv, Ages, NEW p \in Process,
           \A q \in Process: q # p => nativeOp'[q] = nativeOp[q],
           nativeManifest' = nativeManifest, broken' = broken, overlapped' = overlapped,
           \A r \in DOMAIN runs': r \in DOMAIN runs \/ Traced(r)',
           nativeOp'[p].pc \in Nt!Writing => nativeOp[p].pc \in Nt!Writing /\ nativeOp'[p].read = nativeOp[p].read,
           nativeOp[p].pc \in Starter =>
             /\ nativeOp'[p].pc = nativeOp[p].pc /\ nativeOp'[p].at >= nativeOp[p].at /\ nativeOp'[p].at \in Nat
             /\ \A k \in 1 .. nativeOp[p].at: nativeOp'[p].workers[k] = nativeOp[p].workers[k]
    PROVE  ~ overlapped' => InTurn'
  <1> SUFFICES ASSUME ~ overlapped PROVE InTurn'
    OBVIOUS
  <1>1. InTurn
    BY DEF NativeInv
  <1>2. \A q, s \in Process: nativeOp'[q].pc \in Nt!Writing /\ nativeOp'[s].pc \in Nt!Writing => q = s
    BY <1>1 DEF InTurn
  <1>3. \A q \in Process: nativeOp'[q].pc \in Nt!Writing => nativeOp'[q].read = nativeManifest'
    BY <1>1 DEF InTurn
  <1>4. \A r \in DOMAIN runs': Traced(r)'
    <2>1. Nt!NamedRuns' = Nt!NamedRuns
      BY DEF Nt!NamedRuns
    <2>  QED  BY <1>1, <2>1, TracedKept DEF InTurn
  <1>  QED  BY <1>2, <1>3, <1>4 DEF InTurn

\* One more worker of a call that goes through them.
Extended(p, e) ==
    /\ \A q \in Process: q # p => nativeOp'[q] = nativeOp[q]
    /\ nativeOp'[p].pc = nativeOp[p].pc /\ nativeOp'[p].call = nativeOp[p].call /\ nativeOp'[p].read = nativeOp[p].read
    /\ nativeOp'[p].at = nativeOp[p].at + 1 /\ Len(nativeOp'[p].workers) = nativeOp[p].at + 1
    /\ \A k \in 1 .. nativeOp[p].at: nativeOp'[p].workers[k] = nativeOp[p].workers[k]
    /\ nativeOp'[p].workers[nativeOp[p].at + 1] = e

LEMMA Extends ==
    ASSUME NEW p \in Process, NativeBegun(p), nativeOp[p].at < NumWorkers, NEW e \in Entries,
           nativeOp[p].pc \in Starter \cup {"status"},
           nativeOp' = [nativeOp EXCEPT ![p].at = @ + 1, ![p].workers = Append(@, e)]
    PROVE  Extended(p, e) /\ nativeOp' \in [Process -> Calls]
  <1> DEFINE n == [nativeOp[p] EXCEPT !.at = nativeOp[p].at + 1, !.workers = Append(nativeOp[p].workers, e)]
  <1>1. Len(nativeOp[p].workers) = nativeOp[p].at
    BY DEF NativeBegun, Has
  <1>2. /\ Append(nativeOp[p].workers, e) \in Seq(Entries)
        /\ Len(Append(nativeOp[p].workers, e)) = nativeOp[p].at + 1
        /\ \A k \in 1 .. nativeOp[p].at: Append(nativeOp[p].workers, e)[k] = nativeOp[p].workers[k]
        /\ Append(nativeOp[p].workers, e)[nativeOp[p].at + 1] = e
    BY <1>1 DEF NativeBegun
  <1>3. nativeOp[p].at + 1 \in 0 .. NumWorkers
    BY DEF NativeBegun
  <1>4. /\ n \in Calls /\ n.pc = nativeOp[p].pc /\ n.call = nativeOp[p].call /\ n.read = nativeOp[p].read
        /\ n.at = nativeOp[p].at + 1 /\ n.workers = Append(nativeOp[p].workers, e)
    BY <1>2, <1>3 DEF NativeBegun, Calls
  <1>5. nativeOp' = [nativeOp EXCEPT ![p] = n]
    BY DEF NativeBegun
  <1>  HIDE DEF n
  <1>6. nativeOp'[p] = n /\ nativeOp' \in [Process -> Calls] /\ \A q \in Process: q # p => nativeOp'[q] = nativeOp[q]
    BY <1>4, <1>5 DEF NativeBegun
  <1>  QED  BY <1>2, <1>4, <1>6 DEF Extended

LEMMA HasExtends ==
    ASSUME NativeParameters, NativeInv, Ages, NEW p \in Process, NEW e, NEW j \in Nat,
           j = nativeOp[p].at + 1, Extended(p, e), j <= NumWorkers,
           nativeOp[p].pc \in Starter \cup {"status"},
           \A x, k: x = e /\ k = j => EntryFits(x, k)',
           nativeOp[p].pc \in Starter => \A k: k = j => Renamed(p, k)',
           nativeOp[p].pc = "status" => e.run = nativeOp[p].read.workers[j].run
    PROVE  Has(p)'
  <1>0. NativeBegun(p)
    BY NativeBegins
  <1>1. NativeBegun(p) /\ j \in 1 .. NumWorkers
    <2>1. nativeOp[p].at \in Nat /\ NumWorkers \in Nat
      BY <1>0 DEF NativeBegun
    <2>  QED  BY <1>0, <2>1
  <1>2. \A k \in 1 .. nativeOp'[p].at: (k \in 1 .. nativeOp[p].at /\ nativeOp'[p].workers[k] = nativeOp[p].workers[k])
                                 \/ (k = j /\ nativeOp'[p].workers[k] = e)
    BY <1>1 DEF NativeBegun, Extended
  <1>3. nativeOp'[p].read # None => Whole(nativeOp[p].read)'
    BY <1>1, WholeAges DEF Extended, NativeBegun, Has
  <1>4. \A k \in 1 .. nativeOp'[p].at: EntryFits(nativeOp[p].workers[k], k)'
    <2>1. \A k \in 1 .. nativeOp[p].at: EntryFits(nativeOp[p].workers[k], k)
      BY <1>1 DEF NativeBegun, Has
    <2>2. \A x, k: EntryFits(x, k) => EntryFits(x, k)'
      BY EntryAges
    <2>  QED  BY <1>2, <2>1, <2>2
  <1>5. nativeOp[p].pc \in Starter => \A k \in 1 .. nativeOp'[p].at: Renamed(p, k)'
    <2> SUFFICES ASSUME nativeOp[p].pc \in Starter, NEW k \in 1 .. nativeOp'[p].at
                 PROVE  Renamed(p, k)'
      OBVIOUS
    <2>1. CASE k \in 1 .. nativeOp[p].at /\ nativeOp'[p].workers[k] = nativeOp[p].workers[k]
      <3>1. Renamed(p, k) /\ nativeOp[p].workers[k].run \in DOMAIN runs
        BY <1>1, <2>1 DEF NativeBegun, Has, EntryFits
      <3>  QED  BY <2>1, <3>1 DEF Renamed, Ages, Extended
    <2>2. CASE k = j
      BY <2>2
    <2>  QED  BY <1>2, <2>1, <2>2
  <1>6. nativeOp[p].pc = "status" => \A k \in 1 .. nativeOp'[p].at: nativeOp'[p].workers[k].run = nativeOp'[p].read.workers[k].run
    <2>1. nativeOp[p].pc = "status" => \A k \in 1 .. nativeOp[p].at: nativeOp[p].workers[k].run = nativeOp[p].read.workers[k].run
      BY <1>1 DEF NativeBegun, Has
    <2>2. nativeOp'[p].read = nativeOp[p].read
      BY DEF Extended
    <2>  QED  BY <1>2, <2>1, <2>2
  <1>7. /\ nativeOp'[p].pc \notin {"idle", "start"} => nativeOp'[p].read # None
        /\ Len(nativeOp'[p].workers) = nativeOp'[p].at /\ nativeOp'[p].pc # "shutdown"
        /\ nativeOp'[p].pc \in Starter \cup {"status"}
    BY <1>1 DEF NativeBegun, Has, Extended, Starter
  <1>  QED  BY <1>3, <1>4, <1>5, <1>6, <1>7 DEF Has, Extended

LEMMA LaunchStep ==
    ASSUME NativeParameters, NativeInv, NEW p \in Process, Nt!Launch(p)
    PROVE  NativeInv'
  <1>1. NativeBegun(p)
    BY NativeBegins
  <1> DEFINE n == Len(runs) + 1
             r0 == [worker |-> nativeOp[p].at + 1, call |-> nativeOp[p].call, status |-> "running"]
             e == [run |-> n, status |-> "running"]
             j == nativeOp[p].at + 1
  <1>2. /\ nativeOp[p].pc \in Starter /\ nativeOp[p].at < NumWorkers /\ runs' = Append(runs, r0)
        /\ j \in Nat /\ j <= NumWorkers
    BY <1>1 DEF Nt!Launch, Nt!Left, Nt!Started, Starter, NativeBegun
  <1>3. r0 \in RunRecords
    BY <1>1, <1>2 DEF NativeBegun, Calls, RunRecords, Statuses
  <1>4. /\ runs' \in Seq(RunRecords)
        /\ DOMAIN runs' = DOMAIN runs \cup {n} /\ n \notin DOMAIN runs /\ Len(runs') = n /\ n \in Nat
        /\ \A r \in DOMAIN runs: runs'[r] = runs[r] /\ r < n
        /\ runs'[n] = r0
    <2>  HIDE DEF r0
    <2>  QED  BY <1>1, <1>2, <1>3 DEF NativeBegun
  <1>5. e \in Entries
    BY <1>4 DEF Entries, Statuses
  <1>6. nativeOp' = [nativeOp EXCEPT ![p].at = @ + 1, ![p].workers = Append(@, e)]
    BY <1>4 DEF Nt!Launch, Nt!Named
  <1>7. Extended(p, e) /\ nativeOp' \in [Process -> Calls]
    <2>  HIDE DEF e
    <2>  QED  BY <1>1, <1>2, <1>5, <1>6, Extends
  <1>8. Ages
    BY <1>4 DEF Ages, Over, Nt!Launch, Nt!Unchanged
  <1>9. NativeTyped'
    BY <1>4, <1>7 DEF NativeTyped, NativeInv, Nt!Launch, Nt!Unchanged
  <1>10. \A x, k: x = e /\ k = j => EntryFits(x, k)'
    BY <1>4 DEF EntryFits
  <1>11. \A k: k = j => Renamed(p, k)'
    <2>1. nativeOp'[p].workers[j] = e /\ nativeOp'[p].call = nativeOp[p].call /\ nativeOp'[p].read = nativeOp[p].read
      BY <1>7 DEF Extended
    <2>2. nativeOp[p].read # None => nativeOp[p].read.workers[j].run \in DOMAIN runs
      BY <1>1, <1>2 DEF NativeBegun, Has, Whole, EntryFits
    <2>3. nativeOp[p].read # None => nativeOp[p].read.workers[j].run <= n
      BY <1>1, <1>4, <2>2 DEF NativeBegun
    <2>4. runs'[e.run].call = nativeOp[p].call
      BY <1>4
    <2>  HIDE DEF e, j
    <2>5. nativeOp'[p].workers[j].run = n
      BY <2>1 DEF e
    <2>6. nativeOp'[p].read # None => nativeOp'[p].read.workers[j].run <= nativeOp'[p].workers[j].run
      BY <2>1, <2>3, <2>5
    <2>7. runs'[nativeOp'[p].workers[j].run].call = nativeOp'[p].call
      BY <2>1, <2>4
    <2>  QED  BY <2>6, <2>7 DEF Renamed
  <1>12. Has(p)'
    <2>1. nativeOp[p].pc # "status"
      BY <1>2 DEF Starter
    <2>  HIDE DEF e
    <2>  QED  BY <1>2, <1>7, <1>8, <1>10, <1>11, <2>1, HasExtends
  <1>13. \A r \in DOMAIN runs': r \in DOMAIN runs \/ Traced(r)'
    <2>1. nativeOp'[p].pc = nativeOp[p].pc /\ nativeOp'[p].at = j /\ nativeOp'[p].workers[j].run = n /\ j \in 1 .. j
      <3>1. nativeOp[p].at \in Nat
        BY <1>1 DEF NativeBegun
      <3>2. nativeOp'[p].workers[j] = e
        BY <1>7 DEF Extended
      <3>  QED  BY <1>7, <3>1, <3>2 DEF Extended
    <2>2. \A r: r = n => Makes(p, r)'
      <3>  HIDE DEF n, j
      <3>  QED  BY <1>2, <2>1 DEF Makes
    <2>3. \A r: r = n => Traced(r)'
      BY <2>2 DEF Traced
    <2>  QED  BY <1>4, <2>3
  <1>14. ~ overlapped' => InTurn'
    <2>1. nativeOp'[p].at >= nativeOp[p].at /\ nativeOp'[p].at \in Nat
      BY <1>1, <1>7 DEF NativeBegun, Extended
    <2>2. /\ nativeManifest' = nativeManifest /\ broken' = broken /\ overlapped' = overlapped
      BY DEF Nt!Launch, Nt!Unchanged
    <2>  QED  BY <1>7, <1>8, <1>13, <2>1, <2>2, StaysInTurn DEF Extended
  <1>15. nativeManifest' = nativeManifest /\ \A r \in informed': r \in informed
    BY DEF Nt!Launch, Nt!Unchanged
  <1>  QED  BY <1>7, <1>8, <1>9, <1>12, <1>14, <1>15, NativeGoes DEF Extended

\* A worker that is not started anew, and one whose run is asked for.
LEMMA SkippedStep ==
    ASSUME NativeParameters, NativeInv, NEW p \in Process, Nt!LaunchSkipped(p) \/ Nt!Query(p)
    PROVE  NativeInv'
  <1>1. NativeBegun(p)
    BY NativeBegins
  <1> DEFINE j == nativeOp[p].at + 1
             w == nativeOp[p].read.workers[nativeOp[p].at + 1]
  <1>2. nativeOp[p].pc \in {"resume", "status"} /\ nativeOp[p].at < NumWorkers /\ j \in Nt!Worker
    BY <1>1 DEF NativeBegun, Nt!LaunchSkipped, Nt!Query, Nt!Left, Nt!At
  <1>3. nativeOp[p].read \in Manifests /\ w \in Entries /\ EntryFits(w, j)
    BY <1>1, <1>2 DEF NativeBegun, Has, Whole, Manifests
  <1>4. \E e \in Entries:
          /\ e.run = w.run
          /\ e.status # "running" => Over(w.run)
          /\ nativeOp' = [nativeOp EXCEPT ![p].at = @ + 1, ![p].workers = Append(@, e)]
    <2>1. w \in Entries /\ w.run = w.run /\ (w.status # "running" => Over(w.run))
      BY <1>3 DEF EntryFits
    <2> DEFINE v == [w EXCEPT !.status = runs[w.run].status]
    <2>2. v \in Entries /\ v.run = w.run /\ (v.status # "running" => Over(w.run))
      <3>1. w.run \in DOMAIN runs /\ runs[w.run].status \in Statuses
        <4>1. \A r \in DOMAIN runs: runs[r].status \in Statuses
          <5>1. runs \in Seq(RunRecords)
            BY <1>1 DEF NativeBegun
          <5>2. \A r \in DOMAIN runs: runs[r] \in RunRecords
            BY <5>1
          <5>  QED  BY <5>2 DEF RunRecords
        <4>  HIDE DEF w
        <4>  QED  BY <1>3, <4>1 DEF EntryFits
      <3>  HIDE DEF w
      <3>2. v \in Entries /\ v.run = w.run /\ v.status = runs[w.run].status
        BY <1>3, <3>1 DEF Entries
      <3>  HIDE DEF v
      <3>  QED  BY <3>1, <3>2 DEF Over
    <2>3. \/ nativeOp' = [nativeOp EXCEPT ![p].at = @ + 1, ![p].workers = Append(@, w)]
          \/ nativeOp' = [nativeOp EXCEPT ![p].at = @ + 1, ![p].workers = Append(@, v)]
      BY DEF Nt!LaunchSkipped, Nt!Query
    <2>  HIDE DEF v, w
    <2>  QED  BY <2>1, <2>2, <2>3
  <1>5. PICK e \in Entries:
          /\ e.run = w.run
          /\ e.status # "running" => Over(w.run)
          /\ nativeOp' = [nativeOp EXCEPT ![p].at = @ + 1, ![p].workers = Append(@, e)]
    BY <1>4
  <1>6. Extended(p, e) /\ nativeOp' \in [Process -> Calls]
    BY <1>1, <1>2, <1>5, Extends DEF Starter
  <1>7. /\ runs' = runs /\ nativeManifest' = nativeManifest /\ informed' = informed
        /\ uncancelled' = uncancelled /\ broken' = broken /\ overlapped' = overlapped /\ calls' = calls
    BY DEF Nt!LaunchSkipped, Nt!Query, Nt!Unchanged
  <1>8. Ages
    BY <1>7 DEF Ages, Over
  <1>9. NativeTyped'
    BY <1>6, <1>7 DEF NativeTyped, NativeInv
  <1>10. \A x, k: x = e /\ k = j => EntryFits(x, k)'
    BY <1>3, <1>5, <1>7 DEF EntryFits, Over
  <1>11. nativeOp[p].pc \in Starter => \A k: k = j => Renamed(p, k)'
    <2>1. nativeOp'[p].workers[j] = e /\ nativeOp'[p].read = nativeOp[p].read /\ w = nativeOp'[p].read.workers[j]
      BY <1>6 DEF Extended
    <2>2. w.run \in Nat /\ nativeOp'[p].read # None
      BY <1>1, <1>3, <2>1 DEF Entries, NativeBegun
    <2>3. nativeOp'[p].workers[j].run = w.run /\ nativeOp'[p].read.workers[j].run = w.run
      BY <1>5, <2>1
    <2>  HIDE DEF j, w
    <2>  QED  BY <2>2, <2>3 DEF Renamed
  <1>12. Has(p)'
    <2>1. j \in Nat /\ j <= NumWorkers /\ e.run = nativeOp[p].read.workers[j].run
      BY <1>1, <1>2, <1>5 DEF NativeBegun
    <2>  HIDE DEF w
    <2>  QED  BY <1>2, <1>6, <1>8, <1>10, <1>11, <2>1, HasExtends DEF Starter
  <1>14. ~ overlapped' => InTurn'
    <2>1. nativeOp'[p].at >= nativeOp[p].at /\ nativeOp'[p].at \in Nat
      BY <1>1, <1>6 DEF NativeBegun, Extended
    <2>  QED  BY <1>6, <1>7, <1>8, <2>1, StaysInTurn DEF Extended
  <1>  QED  BY <1>6, <1>7, <1>8, <1>9, <1>12, <1>14, NativeGoes DEF Extended

\* A call that ends, whatever it was.
LEMMA Rested ==
    ASSUME NativeParameters, NativeInv, NEW p \in Process, Nt!Return(p)
    PROVE  /\ nativeOp' \in [Process -> Calls] /\ nativeOp'[p].pc = "idle" /\ nativeOp'[p].read = None
           /\ \A q \in Process: q # p => nativeOp'[q] = nativeOp[q]
           /\ Has(p)'
  <1>1. NativeBegun(p)
    BY NativeBegins
  <1>2. /\ nativeOp' \in [Process -> Calls] /\ nativeOp'[p].pc = "idle" /\ nativeOp'[p].read = None
        /\ \A q \in Process: q # p => nativeOp'[q] = nativeOp[q]
    <2>1. Nt!Resting \in Calls /\ Nt!Resting.pc = "idle" /\ Nt!Resting.read = None
      BY <1>1 DEF NativeBegun, Nt!Resting, Calls
    <2>  QED  BY <1>1, <2>1 DEF NativeBegun, Nt!Return
  <1>  QED  BY <1>2 DEF Has, Starter

\* A call that breaks off: what it named is broken with it, or still named.
LEMMA BreaksStep ==
    ASSUME NativeParameters, NativeInv, NEW p \in Process, Nt!StartFails(p) \/ Nt!Kill(p)
    PROVE  NativeInv'
  <1>1. NativeBegun(p)
    BY NativeBegins
  <1>2. /\ runs' = runs /\ nativeManifest' = nativeManifest /\ informed' = informed
        /\ uncancelled' = uncancelled /\ overlapped' = overlapped /\ calls' = calls
        /\ broken' = broken \cup {nativeOp[p].call} /\ Nt!Return(p)
    BY DEF Nt!StartFails, Nt!Kill
  <1>3. /\ nativeOp' \in [Process -> Calls] /\ nativeOp'[p].pc = "idle"
        /\ \A q \in Process: q # p => nativeOp'[q] = nativeOp[q]
        /\ Has(p)'
    BY <1>2, Rested
  <1>4. Ages
    BY <1>2 DEF Ages, Over
  <1>5. NativeTyped'
    BY <1>2, <1>3 DEF NativeTyped, NativeInv
  <1>6. ASSUME ~ overlapped PROVE InTurn'
    <2>1. InTurn
      BY <1>6 DEF NativeInv
    <2>2. \A q, s \in Process: nativeOp'[q].pc \in Nt!Writing /\ nativeOp'[s].pc \in Nt!Writing => q = s
      BY <1>3, <2>1 DEF InTurn, Nt!Writing
    <2>3. \A q \in Process: nativeOp'[q].pc \in Nt!Writing => nativeOp'[q].read = nativeManifest'
      BY <1>2, <1>3, <2>1 DEF InTurn, Nt!Writing
    <2>4. ASSUME NEW r \in DOMAIN runs PROVE Traced(r)'
      <3>1. CASE r \in Nt!NamedRuns
        BY <1>2, <3>1 DEF Traced, Nt!NamedRuns
      <3>2. CASE runs[r].call \in broken \/ Nt!Superseded(r)
        BY <1>2, <3>2 DEF Traced, Nt!Superseded
      <3>3. ASSUME NEW q \in Process, q # p, Makes(q, r) PROVE Traced(r)'
        BY <1>3, <3>3 DEF Traced, Makes
      <3>4. CASE Makes(p, r)
        <4>1. PICK k \in 1 .. nativeOp[p].at: nativeOp[p].workers[k].run = r
          BY <3>4 DEF Makes
        <4>2. Renamed(p, k) /\ k \in Nt!Worker
          BY <1>1, <3>4 DEF NativeBegun, Has, Makes
        <4>3. nativeOp[p].read = nativeManifest
          BY <2>1, <3>4 DEF InTurn, Makes, Starter, Nt!Writing
        <4>4. CASE runs[r].call = nativeOp[p].call
          BY <1>2, <4>4 DEF Traced
        <4>5. CASE nativeOp[p].read # None /\ r = nativeOp[p].read.workers[k].run
          <5>1. r \in Nt!NamedRuns'
            BY <1>2, <4>2, <4>3, <4>5 DEF Nt!NamedRuns
          <5>  QED  BY <5>1 DEF Traced
        <4>  QED  BY <4>1, <4>2, <4>4, <4>5 DEF Renamed
      <3>  QED  BY <2>1, <3>1, <3>2, <3>3, <3>4 DEF InTurn, Traced
    <2>  QED  BY <1>2, <2>2, <2>3, <2>4 DEF InTurn
  <1>  QED  BY <1>2, <1>3, <1>4, <1>5, <1>6, NativeGoes

LEMMA StatusStep ==
    ASSUME NativeParameters, NativeInv, NEW p \in Process, Nt!Status(p)
    PROVE  NativeInv'
  <1>1. NativeBegun(p)
    BY NativeBegins
  <1>2. /\ runs' = runs /\ nativeManifest' = nativeManifest /\ broken' = broken
        /\ uncancelled' = uncancelled /\ overlapped' = overlapped /\ calls' = calls /\ Nt!Return(p)
        /\ nativeOp[p].pc = "status" /\ ~ Nt!Left(p)
    BY DEF Nt!Status, Nt!At
  <1>3. /\ nativeOp' \in [Process -> Calls] /\ nativeOp'[p].pc = "idle"
        /\ \A q \in Process: q # p => nativeOp'[q] = nativeOp[q]
        /\ Has(p)'
    BY <1>2, Rested
  <1>4. Ages
    BY <1>2 DEF Ages, Over
  <1>5. NativeTyped'
    BY <1>2, <1>3 DEF NativeTyped, NativeInv
  <1>6. ~ overlapped' => InTurn'
    BY <1>2, <1>3, <1>4, StaysInTurn DEF Nt!Writing, Starter
  <1>7. \A k \in Nt!Worker:
          /\ nativeOp[p].workers[k] \in Entries /\ EntryFits(nativeOp[p].workers[k], k)
          /\ nativeOp[p].read.stopped => Over(nativeOp[p].workers[k].run)
    <2>1. nativeOp[p].at = NumWorkers /\ Len(nativeOp[p].workers) = NumWorkers
      BY <1>1, <1>2 DEF NativeBegun, Nt!Left, Has
    <2>2. \A k \in Nt!Worker: /\ EntryFits(nativeOp[p].workers[k], k)
                              /\ nativeOp[p].workers[k].run = nativeOp[p].read.workers[k].run
      BY <1>1, <1>2, <2>1 DEF NativeBegun, Has
    <2>3. \A k \in Nt!Worker: nativeOp[p].read.stopped => Over(nativeOp[p].read.workers[k].run)
      BY <1>1, <1>2 DEF NativeBegun, Has, Whole
    <2>4. \A k \in Nt!Worker: nativeOp[p].workers[k] \in Entries
      BY <1>1, <2>1 DEF NativeBegun
    <2>  QED  BY <2>2, <2>3, <2>4
  <1>8. \A r \in informed': r \in informed \/ (r \in DOMAIN runs' /\ Over(r)')
    <2>1. CASE Nt!Told(p) /\ ~ nativeOp[p].read.stopped
      BY <2>1 DEF Nt!Status
    <2>2. CASE ~ (Nt!Told(p) /\ ~ nativeOp[p].read.stopped)
      <3>1. \A k \in Nt!Worker: /\ nativeOp[p].workers[k].run \in DOMAIN runs
                                /\ Over(nativeOp[p].workers[k].run)
        BY <1>7, <2>2 DEF Nt!Told, EntryFits
      <3>2. informed' = informed \cup {nativeOp[p].workers[k].run: k \in Nt!Worker}
        BY <2>2 DEF Nt!Status
      <3>3. \A r \in DOMAIN runs: Over(r) => r \in DOMAIN runs' /\ Over(r)'
        BY <1>2 DEF Over
      <3>  QED  BY <3>1, <3>2, <3>3
    <2>  QED  BY <2>1, <2>2
  <1>  QED  BY <1>2, <1>3, <1>4, <1>5, <1>6, <1>8, NativeGoes

\* Runs that end, or are cancelled, or fail to be.
LEMMA RunEndsStep ==
    ASSUME NativeParameters, NativeInv, NEW r \in DOMAIN runs, Nt!RunEnds(r)
    PROVE  NativeInv'
  <1>1. /\ nativeManifest' = nativeManifest /\ informed' = informed /\ nativeOp' = nativeOp
        /\ uncancelled' = uncancelled /\ overlapped' = overlapped /\ calls' = calls /\ broken' = broken
        /\ runs' = [runs EXCEPT ![r].status = "finished"]
    BY DEF Nt!RunEnds, Nt!Unchanged
  <1>2. runs \in Seq(RunRecords)
    BY DEF NativeInv, NativeTyped
  <1> DEFINE x == [runs[r] EXCEPT !.status = "finished"]
  <1>3. /\ x \in RunRecords /\ x.status = "finished"
        /\ x.worker = runs[r].worker /\ x.call = runs[r].call
    <2>1. runs[r] \in RunRecords
      BY <1>2
    <2>  QED  BY <2>1 DEF RunRecords, Statuses
  <1>4. runs' = [runs EXCEPT ![r] = x]
    BY <1>1
  <1>  HIDE DEF x
  <1>5. /\ runs' \in Seq(RunRecords) /\ DOMAIN runs' = DOMAIN runs
        /\ runs'[r] = x /\ \A s \in DOMAIN runs: s # r => runs'[s] = runs[s]
    BY <1>2, <1>3, <1>4
  <1>6. Ages
    BY <1>1, <1>3, <1>5 DEF Ages, Over
  <1>7. NativeTyped'
    BY <1>1, <1>5 DEF NativeTyped, NativeInv
  <1>8. \A p \in Process: Has(p)'
    BY <1>1, <1>6, HasAges
  <1>9. nativeManifest' # None => Whole(nativeManifest)'
    <2>1. \A m: Whole(m) => Whole(m)'
      BY <1>6, WholeAges
    <2>  QED  BY <1>1, <2>1 DEF NativeInv
  <1>10. \A s \in informed': s \in DOMAIN runs' /\ Over(s)'
    BY <1>1, <1>6 DEF NativeInv, Ages
  <1>11. ASSUME ~ overlapped PROVE InTurn'
    <2>1. InTurn
      BY <1>11 DEF NativeInv
    <2>2. \A s \in DOMAIN runs: runs'[s].worker = runs[s].worker /\ runs'[s].call = runs[s].call
      BY <1>6 DEF Ages
    <2>3. \A s \in DOMAIN runs: Traced(s) => Traced(s)'
      BY <1>1, <1>5, <2>2 DEF Traced, Nt!NamedRuns, Nt!Superseded, Makes
    <2>  QED  BY <1>1, <1>5, <2>1, <2>3 DEF InTurn
  <1>  QED  BY <1>1, <1>7, <1>8, <1>9, <1>10, <1>11 DEF NativeInv

LEMMA CancelStep ==
    ASSUME NativeParameters, NativeInv, NEW p \in Process, Nt!CancelRun(p) \/ Nt!CancelFails(p)
    PROVE  NativeInv'
  <1>1. NativeBegun(p)
    BY NativeBegins
  <1> DEFINE j == nativeOp[p].at + 1
             r == nativeOp[p].read.workers[nativeOp[p].at + 1].run
  <1>2. /\ nativeOp[p].pc = "shutdown" /\ nativeOp[p].at < NumWorkers /\ j \in Nt!Worker /\ j \in 0 .. NumWorkers
        /\ nativeOp' = [nativeOp EXCEPT ![p].at = @ + 1]
    BY <1>1 DEF NativeBegun, Nt!CancelRun, Nt!CancelFails, Nt!Past, Nt!AfterFailure, Nt!Left, Nt!At
  <1>3. r \in DOMAIN runs
    BY <1>1, <1>2 DEF NativeBegun, Has, Whole, EntryFits
  <1>4. /\ nativeManifest' = nativeManifest /\ broken' = broken /\ informed' = informed
        /\ overlapped' = overlapped /\ calls' = calls
    BY DEF Nt!CancelRun, Nt!CancelFails, Nt!Unchanged
  <1> DEFINE n == [nativeOp[p] EXCEPT !.at = j]
  <1>5. n \in Calls /\ n.at = j /\ n.pc = nativeOp[p].pc /\ n.read = nativeOp[p].read
    BY <1>1, <1>2 DEF NativeBegun, Calls
  <1>6. /\ nativeOp' \in [Process -> Calls] /\ nativeOp'[p] = n
        /\ \A q \in Process: q # p => nativeOp'[q] = nativeOp[q]
    <2>1. nativeOp' = [nativeOp EXCEPT ![p] = n]
      BY <1>2
    <2>  HIDE DEF n
    <2>  QED  BY <1>1, <1>5, <2>1 DEF NativeBegun
  <1>7. /\ runs' \in Seq(RunRecords) /\ DOMAIN runs' = DOMAIN runs
        /\ \A s \in DOMAIN runs: s # r => runs'[s] = runs[s]
        /\ runs'[r].worker = runs[r].worker /\ runs'[r].call = runs[r].call
        /\ uncancelled \subseteq uncancelled'
        /\ runs'[r].status # "running" \/ r \in uncancelled'
    <2>1. CASE Nt!CancelRun(p)
      <3> DEFINE x == [runs[r] EXCEPT !.status = IF @ = "running" THEN "cancelled" ELSE @]
      <3>1. runs[r] \in RunRecords
        <4>1. runs \in Seq(RunRecords)
          BY <1>1 DEF NativeBegun
        <4>  HIDE DEF r
        <4>  QED  BY <1>3, <4>1
      <3>2. /\ x \in RunRecords /\ x.worker = runs[r].worker /\ x.call = runs[r].call
            /\ x.status # "running"
        <4>  HIDE DEF r
        <4>  QED  BY <3>1 DEF RunRecords, Statuses
      <3>3. runs' = [runs EXCEPT ![r] = x] /\ uncancelled' = uncancelled
        BY <2>1 DEF Nt!CancelRun, Nt!Target, Nt!Unchanged
      <3>4. runs \in Seq(RunRecords)
        BY <1>1 DEF NativeBegun
      <3>  HIDE DEF x, r
      <3>  QED  BY <1>3, <3>2, <3>3, <3>4
    <2>2. CASE Nt!CancelFails(p)
      BY <1>1, <2>2 DEF NativeBegun, Nt!CancelFails, Nt!Target
    <2>  QED  BY <2>1, <2>2
  <1>8. Ages
    BY <1>7 DEF Ages, Over
  <1>9. NativeTyped'
    BY <1>4, <1>6, <1>7 DEF NativeTyped, NativeInv
  <1>10. Has(p)'
    <2>1. nativeOp'[p].read # None /\ nativeOp'[p].pc = "shutdown" /\ nativeOp'[p].at = j /\ nativeOp'[p].read = nativeOp[p].read
      BY <1>1, <1>2, <1>5, <1>6 DEF NativeBegun, Has
    <2>2. Whole(nativeOp[p].read)'
      <3>1. \A m: Whole(m) => Whole(m)'
        BY <1>8, WholeAges
      <3>  QED  BY <1>1, <2>1, <3>1 DEF NativeBegun, Has
    <2>3. \A k \in 1 .. j: Over(nativeOp[p].read.workers[k].run)'
      <3> SUFFICES ASSUME NEW k \in 1 .. j PROVE Over(nativeOp[p].read.workers[k].run)'
        OBVIOUS
      <3>1. CASE k = j
        BY <1>7, <2>1, <3>1 DEF Over
      <3>2. CASE k \in 1 .. nativeOp[p].at
        <4>1. Over(nativeOp[p].read.workers[k].run) /\ nativeOp[p].read.workers[k].run \in DOMAIN runs
          BY <1>1, <1>2, <3>2 DEF NativeBegun, Has, Whole, EntryFits
        <4>2. \A s \in DOMAIN runs: Over(s) => Over(s)'
          BY <1>8 DEF Ages
        <4>  QED  BY <2>1, <4>1, <4>2
      <3>  QED  BY <1>1, <3>1, <3>2 DEF NativeBegun
    <2>  QED  BY <2>1, <2>2, <2>3 DEF Has, Starter
  <1>11. ~ overlapped' => InTurn'
    <2>1. nativeOp'[p].read = nativeOp[p].read /\ nativeOp[p].pc \notin Starter /\ nativeOp[p].pc \in Nt!Writing
      BY <1>2, <1>5, <1>6 DEF Starter, Nt!Writing
    <2>  QED  BY <1>4, <1>6, <1>7, <1>8, <2>1, StaysInTurn
  <1>  QED  BY <1>4, <1>6, <1>8, <1>9, <1>10, <1>11, NativeGoes

\* What a call that writes the manifest leaves in turn.
LEMMA WritesInTurn ==
    ASSUME NativeParameters, NativeInv, NEW p \in Process, nativeOp[p].pc \in Nt!Writing,
           \A q \in Process: q # p => nativeOp'[q] = nativeOp[q],
           nativeOp'[p].pc = "idle", runs' = runs, broken' = broken, ~ overlapped,
           \A r \in DOMAIN runs: r \in Nt!NamedRuns \/ Makes(p, r) => Traced(r)'
    PROVE  InTurn'
  <1>1. InTurn
    BY DEF NativeInv
  <1>2. \A q \in Process: nativeOp'[q].pc \notin Nt!Writing
    BY <1>1 DEF InTurn, Nt!Writing
  <1>3. ASSUME NEW r \in DOMAIN runs PROVE Traced(r)'
    <2>1. CASE runs[r].call \in broken \/ Nt!Superseded(r)
      BY <2>1 DEF Traced, Nt!Superseded
    <2>2. ASSUME NEW q \in Process, Makes(q, r) PROVE Makes(p, r)
      <3>1. q = p
        BY <1>1, <2>2 DEF InTurn, Makes, Starter, Nt!Writing
      <3>  QED  BY <2>2, <3>1
    <2>3. CASE r \in Nt!NamedRuns \/ Makes(p, r)
      BY <2>3
    <2>  QED  BY <1>1, <2>1, <2>2, <2>3 DEF InTurn, Traced
  <1>  QED  BY <1>2, <1>3 DEF InTurn

LEMMA ShutDownStep ==
    ASSUME NativeParameters, NativeInv, NEW p \in Process, Nt!ShutDown(p)
    PROVE  NativeInv'
  <1>1. NativeBegun(p)
    BY NativeBegins
  <1>2. /\ runs' = runs /\ informed' = informed /\ broken' = broken
        /\ uncancelled' = uncancelled /\ overlapped' = overlapped /\ calls' = calls /\ Nt!Return(p)
        /\ nativeOp[p].pc = "shutdown" /\ ~ Nt!Left(p)
    BY DEF Nt!ShutDown, Nt!At, Nt!Unchanged
  <1>3. /\ nativeOp' \in [Process -> Calls] /\ nativeOp'[p].pc = "idle"
        /\ \A q \in Process: q # p => nativeOp'[q] = nativeOp[q]
        /\ Has(p)'
    BY <1>2, Rested
  <1>4. Ages
    BY <1>2 DEF Ages, Over
  <1> DEFINE f == [k \in Nt!Worker |-> [nativeOp[p].read.workers[k] EXCEPT !.status = "cancelled"]]
  <1>5. nativeOp[p].read \in Manifests /\ Whole(nativeOp[p].read) /\ \A k \in Nt!Worker: Over(nativeOp[p].read.workers[k].run)
    BY <1>1, <1>2 DEF NativeBegun, Has, Nt!Left
  <1>6. \A k \in Nt!Worker: /\ f[k] \in Entries /\ f[k].run = nativeOp[p].read.workers[k].run
                            /\ f[k].status = "cancelled"
    <2>1. \A x \in Entries: LET y == [x EXCEPT !.status = "cancelled"]
                            IN  y \in Entries /\ y.run = x.run /\ y.status = "cancelled"
      BY DEF Entries, Statuses
    <2>2. \A k \in Nt!Worker: nativeOp[p].read.workers[k] \in Entries
      BY <1>5 DEF Manifests
    <2>  QED  BY <2>1, <2>2
  <1>7. nativeManifest' = [workers |-> f, stopped |-> TRUE]
    BY DEF Nt!ShutDown, Nt!SaveManifest
  <1>8. nativeManifest' \in Manifests /\ nativeManifest'.workers = f
    <2>1. f \in [Nt!Worker -> Entries]
      BY <1>6
    <2>  HIDE DEF f
    <2>  QED  BY <1>7, <2>1 DEF Manifests
  <1>  HIDE DEF f
  <1>9. NativeTyped'
    BY <1>2, <1>3, <1>8 DEF NativeTyped, NativeInv
  <1>10. Whole(nativeManifest)'
    BY <1>2, <1>5, <1>6, <1>8 DEF Whole, EntryFits, Over
  <1>11. ASSUME ~ overlapped' PROVE InTurn'
    <2>1. InTurn
      BY <1>2, <1>11 DEF NativeInv
    <2>2. nativeOp[p].read = nativeManifest /\ nativeManifest # None
      BY <1>1, <1>2, <1>5, <2>1 DEF NativeBegun, InTurn, Nt!Writing
    <2>3. nativeManifest' # None
      BY <1>1, <1>8 DEF NativeBegun
    <2>4. ASSUME NEW r \in Nt!NamedRuns PROVE Traced(r)'
      <3>1. PICK k \in Nt!Worker: r = nativeManifest.workers[k].run
        BY <2>2 DEF Nt!NamedRuns
      <3>2. r = f[k].run
        BY <1>6, <2>2, <3>1
      <3>3. r \in Nt!NamedRuns'
        BY <1>8, <2>3, <3>2 DEF Nt!NamedRuns
      <3>  QED  BY <3>3 DEF Traced
    <2>5. \A r: ~ Makes(p, r)
      BY <1>2 DEF Makes, Starter
    <2>  QED  BY <1>2, <1>3, <1>11, <2>4, <2>5, WritesInTurn DEF Nt!Writing
  <1>  QED  BY <1>2, <1>3, <1>4, <1>9, <1>10, <1>11, NativeGoes

LEMMA LaunchedStep ==
    ASSUME NativeParameters, NativeInv, NEW p \in Process, Nt!Launched(p)
    PROVE  NativeInv'
  <1>1. NativeBegun(p)
    BY NativeBegins
  <1>2. /\ runs' = runs /\ informed' = informed /\ broken' = broken
        /\ uncancelled' = uncancelled /\ overlapped' = overlapped /\ calls' = calls /\ Nt!Return(p)
        /\ nativeOp[p].pc \in Starter /\ ~ Nt!Left(p)
    BY DEF Nt!Launched, Nt!Unchanged, Starter
  <1>3. /\ nativeOp' \in [Process -> Calls] /\ nativeOp'[p].pc = "idle"
        /\ \A q \in Process: q # p => nativeOp'[q] = nativeOp[q]
        /\ Has(p)'
    BY <1>2, Rested
  <1>4. Ages
    BY <1>2 DEF Ages, Over
  <1> DEFINE f == nativeOp[p].workers
  <1>5. nativeOp[p].at = NumWorkers /\ Len(f) = NumWorkers
    BY <1>1, <1>2 DEF NativeBegun, Has, Nt!Left
  <1>6. \A k \in Nt!Worker: EntryFits(f[k], k) /\ Renamed(p, k)
    BY <1>1, <1>2, <1>5 DEF NativeBegun, Has
  <1>7. nativeManifest' = [workers |-> f, stopped |-> FALSE]
    BY DEF Nt!Launched, Nt!SaveManifest, Nt!NewNames
  <1>8. f \in [Nt!Worker -> Entries] /\ Nt!Worker = 1 .. NumWorkers /\ None \notin Manifests
    BY <1>1, <1>5 DEF NativeBegun
  <1>9. nativeManifest' \in Manifests /\ nativeManifest'.workers = f /\ ~ nativeManifest'.stopped
    <2>  HIDE DEF f
    <2>  QED  BY <1>7, <1>8 DEF Manifests
  <1>10. NativeTyped'
    BY <1>2, <1>3, <1>9 DEF NativeTyped, NativeInv
  <1>11. Whole(nativeManifest)'
    BY <1>2, <1>6, <1>9 DEF Whole, EntryFits, Over
  <1>12. ASSUME ~ overlapped' PROVE InTurn'
    <2>1. InTurn
      BY <1>2, <1>12 DEF NativeInv
    <2>2. nativeOp[p].read = nativeManifest
      BY <1>2, <2>1 DEF InTurn, Starter, Nt!Writing
    <2>3. nativeManifest' # None
      BY <1>8, <1>9
    <2>4. \A k \in Nt!Worker: f[k].run \in Nt!NamedRuns'
      BY <1>9, <2>3 DEF Nt!NamedRuns
    <2>5. ASSUME NEW r \in Nt!NamedRuns PROVE Traced(r)'
      <3>1. nativeManifest # None /\ \E k \in Nt!Worker: r = nativeManifest.workers[k].run
        BY DEF Nt!NamedRuns
      <3>2. PICK k \in Nt!Worker: r = nativeManifest.workers[k].run
        BY <3>1
      <3>3. /\ r \in DOMAIN runs /\ runs[r].worker = k
            /\ f[k].run \in DOMAIN runs /\ runs[f[k].run].worker = k /\ r <= f[k].run
        BY <1>6, <2>2, <3>1, <3>2 DEF NativeInv, Whole, EntryFits, Renamed
      <3>4. CASE r = f[k].run
        BY <2>4, <3>4 DEF Traced
      <3>5. CASE r # f[k].run
        <4>1. f[k].run > r
          BY <1>1, <3>3, <3>5 DEF NativeBegun
        <4>2. Nt!Superseded(r)'
          BY <1>2, <3>3, <4>1 DEF Nt!Superseded
        <4>  QED  BY <4>2 DEF Traced
      <3>  QED  BY <3>4, <3>5
    <2>6. ASSUME NEW r, Makes(p, r) PROVE Traced(r)'
      BY <1>5, <1>8, <2>4, <2>6 DEF Makes, Traced
    <2>  QED  BY <1>2, <1>3, <1>12, <2>5, <2>6, WritesInTurn DEF Starter, Nt!Writing
  <1>  QED  BY <1>2, <1>3, <1>4, <1>10, <1>11, <1>12, NativeGoes

LEMMA NativeStepKeeps == NativeParameters /\ NativeInv /\ [Nt!Next]_(Nt!vars) => NativeInv'
  <1> SUFFICES ASSUME NativeParameters, NativeInv, [Nt!Next]_(Nt!vars)
               PROVE  NativeInv'
    OBVIOUS
  <1>1. CASE UNCHANGED Nt!vars
    <2>1. Ages
      BY <1>1 DEF Ages, Over, Nt!vars
    <2>  QED  BY <1>1 DEF Nt!vars, NativeInv, NativeTyped, InTurn, Traced, Makes, Has, Renamed, Whole,
                          EntryFits, Over, Nt!NamedRuns, Nt!Superseded
  <1>2. ASSUME NEW p \in Process,
               \/ \E pc \in Nt!Writing \cup {"status"}: Nt!Call(p, pc)
               \/ Nt!Launch(p) \/ Nt!StartFails(p) \/ Nt!LaunchSkipped(p) \/ Nt!Launched(p)
               \/ Nt!CancelRun(p) \/ Nt!CancelFails(p) \/ Nt!ShutDown(p)
               \/ Nt!Query(p) \/ Nt!Status(p) \/ Nt!Kill(p)
        PROVE  NativeInv'
    BY <1>2, CallStep, LaunchStep, BreaksStep, SkippedStep, LaunchedStep, CancelStep, ShutDownStep,
       StatusStep
  <1>3. ASSUME NEW r \in DOMAIN runs, Nt!RunEnds(r) PROVE NativeInv'
    BY <1>3, RunEndsStep
  <1>  QED  BY <1>1, <1>2, <1>3 DEF Nt!Next

\* As long as calls do not overlap: a run at work is named by the manifest, unless the call that
\* started it broke off or a later run took its worker; the runs of a stopped team are over, but for
\* those whose cancellation failed; and so is every run somebody was told is over
\* (team/native-supervisor.ts).
THEOREM NobodyIsLost == ASSUME NativeParameters PROVE Nt!Spec => []Nt!NobodyLost
  <1>1. NativeInv /\ [Nt!Next]_Nt!vars => NativeInv'
    BY NativeStepKeeps
  <1>2. Nt!Init => NativeInv
    BY NativeInitially
  <1>3. NativeInv => Nt!NobodyLost
    BY NativeImplied
  <1> QED  BY <1>1, <1>2, <1>3, PTL DEF Nt!Spec

-----------------------------------------------------------------------------
(* AgentRuntime.  An agent that was told to close and is not closed is at  *)
(* whoever is closing it, or its close() failed.  The sweep has told those *)
(* it passed, and agents are only added behind them.                       *)

AgentRecord == [disposed: BOOLEAN, closed: BOOLEAN]
RunRecord == [agent: Nat \cup {None}, status: Ar!Ended \cup {"running"}]
CallerRecord ==
    [pc: {"idle", "creating", "sending", "waiting", "closing", "sweeping", "disposing"},
     at: Nat, from: Nat \cup {None}]

RuntimeTyped ==
    /\ disposed \in BOOLEAN
    /\ agent \in Seq(AgentRecord) /\ managed \in Seq(DOMAIN agent) /\ run \in Seq(RunRecord)
    /\ caller \in [Caller -> CallerRecord]
    /\ sdkFaults \in Nat

Sweeper(c) == caller[c].pc \in {"sweeping", "disposing"}

\* The agents dispose() has come past, and the one it is at.
Passed(c) ==
    /\ caller[c].at <= Len(managed)
    /\ \A i \in 1 .. caller[c].at: agent[managed[i]].disposed
    /\ caller[c].pc = "disposing" =>
         /\ caller[c].at + 1 \in DOMAIN managed
         /\ agent[managed[caller[c].at + 1]].disposed

Sweeping ==
    /\ \A c \in Caller: Sweeper(c) => disposed /\ swept = None /\ Passed(c)
    /\ \A c, d \in Caller: Sweeper(c) /\ Sweeper(d) => c = d
    /\ ~ disposed => swept = None
    /\ \A c \in Caller: caller[c].pc = "closing" =>
         caller[c].at \in DOMAIN agent /\ agent[caller[c].at].disposed

\* Agents whose close() is under way, and those for which it failed.
Held(a) == \E c \in Caller:
    \/ caller[c].pc = "closing" /\ caller[c].at = a
    \/ caller[c].pc = "disposing" /\ managed[caller[c].at + 1] = a
Lost == {a \in DOMAIN agent: agent[a].disposed /\ ~ agent[a].closed /\ ~ Held(a)}

SweptFits == swept # None => swept \subseteq DOMAIN agent /\ \A a \in swept: agent[a].disposed
ToldFits == \A t \in told: t[2] = "result" => t[1] # "error"

RuntimeInv ==
    /\ RuntimeTyped /\ Sweeping /\ SweptFits /\ ToldFits
    /\ Cardinality(Lost) <= sdkFaults

LEMMA LostFinite ==
    ASSUME RuntimeTyped
    PROVE  IsFiniteSet(Lost) /\ Cardinality(Lost) \in Nat /\ IsFiniteSet(DOMAIN agent)
  <1>1. DOMAIN agent = 1 .. Len(agent) /\ Len(agent) \in Nat
    BY DEF RuntimeTyped
  <1>2. IsFiniteSet(DOMAIN agent)
    BY <1>1, FS_Interval
  <1>3. Lost \subseteq DOMAIN agent
    BY DEF Lost
  <1>  QED  BY <1>2, <1>3, FS_Subset, FS_CardinalityType

LEMMA RuntimeImplied == ASSUME RuntimeInv PROVE Ar!DisposedIsClosed
  <1>1. ASSUME swept # None
        PROVE  /\ \A a \in swept: agent[a].disposed
               /\ Cardinality({a \in swept: ~agent[a].closed /\ ~Ar!ClosedByOther(a)}) <= sdkFaults
    <2> DEFINE S == {a \in swept: ~agent[a].closed /\ ~Ar!ClosedByOther(a)}
    <2>1. S \subseteq Lost
      <3>1. ASSUME NEW a \in S PROVE ~ Held(a)
        BY <1>1 DEF RuntimeInv, Sweeping, Sweeper, Held, Ar!ClosedByOther, Ar!At
      <3>  QED  BY <1>1, <3>1 DEF RuntimeInv, SweptFits, Lost
    <2>2. Cardinality(S) <= Cardinality(Lost) /\ Cardinality(S) \in Nat
      <3> HIDE DEF S
      <3>1. IsFiniteSet(Lost)
        BY LostFinite DEF RuntimeInv
      <3>  QED  BY <2>1, <3>1, FS_Subset, FS_CardinalityType
    <2>3. Cardinality(Lost) \in Nat /\ sdkFaults \in Nat
      BY LostFinite DEF RuntimeInv, RuntimeTyped
    <2> HIDE DEF S
    <2>4. Cardinality(S) <= sdkFaults
      BY <2>2, <2>3 DEF RuntimeInv
    <2>  QED  BY <1>1, <2>4 DEF RuntimeInv, SweptFits, S
  <1>2. \A t \in told: t[2] = "result" => t[1] # "error"
    BY DEF RuntimeInv, ToldFits
  <1>3. swept # None =>
          /\ \A a \in swept: agent[a].disposed
          /\ Cardinality({a \in swept: ~agent[a].closed /\ ~Ar!ClosedByOther(a)}) <= sdkFaults
    BY <1>1
  <1>4. \A S: Ar!Cardinality(S) = Cardinality(S)
    BY ZenonT(60) DEF Ar!Cardinality, Cardinality, Ar!IsFiniteSet, IsFiniteSet
  <1>  QED  BY <1>2, <1>3, <1>4 DEF Ar!DisposedIsClosed

LEMMA RuntimeInitially == ASSUME Ar!Init PROVE RuntimeInv
  <1>1. agent = <<>> /\ managed = <<>> /\ run = <<>> /\ DOMAIN agent = {}
    BY DEF Ar!Init
  <1>2. agent \in Seq(AgentRecord) /\ managed \in Seq(DOMAIN agent) /\ run \in Seq(RunRecord)
    BY <1>1
  <1>3. caller \in [Caller -> CallerRecord] /\ \A c \in Caller: caller[c].pc = "idle"
    BY DEF Ar!Init, Ar!Idle, CallerRecord
  <1>4. RuntimeTyped
    BY <1>2, <1>3 DEF Ar!Init, RuntimeTyped
  <1>5. Sweeping /\ SweptFits /\ ToldFits
    BY <1>3 DEF Ar!Init, Sweeping, Sweeper, SweptFits, ToldFits
  <1>6. Lost = {}
    BY <1>1 DEF Lost
  <1>  QED  BY <1>4, <1>5, <1>6, FS_EmptySet DEF RuntimeInv, Ar!Init

\* A step loses no agent, or one when a call of the SDK fails.
LEMMA LosesNone ==
    ASSUME RuntimeInv, RuntimeTyped', Lost' \subseteq Lost, sdkFaults' >= sdkFaults
    PROVE  Cardinality(Lost') <= sdkFaults'
  <1>1. IsFiniteSet(Lost) /\ Cardinality(Lost) \in Nat /\ sdkFaults \in Nat /\ sdkFaults' \in Nat
    BY LostFinite DEF RuntimeInv, RuntimeTyped
  <1>2. Cardinality(Lost') <= Cardinality(Lost) /\ Cardinality(Lost') \in Nat
    BY <1>1, FS_Subset, FS_CardinalityType
  <1>  QED  BY <1>1, <1>2 DEF RuntimeInv

LEMMA LosesOne ==
    ASSUME RuntimeInv, RuntimeTyped', NEW a, Lost' \subseteq Lost \cup {a},
           sdkFaults' = sdkFaults + 1
    PROVE  Cardinality(Lost') <= sdkFaults'
  <1>1. IsFiniteSet(Lost) /\ Cardinality(Lost) \in Nat /\ sdkFaults \in Nat /\ sdkFaults' \in Nat
    BY LostFinite DEF RuntimeInv, RuntimeTyped
  <1>2. /\ IsFiniteSet(Lost \cup {a})
        /\ Cardinality(Lost \cup {a}) \in {Cardinality(Lost), Cardinality(Lost) + 1}
    BY <1>1, FS_AddElement
  <1>3. Cardinality(Lost') <= Cardinality(Lost \cup {a}) /\ Cardinality(Lost') \in Nat
    BY <1>2, FS_Subset, FS_CardinalityType
  <1>  QED  BY <1>1, <1>2, <1>3 DEF RuntimeInv

Apart == {"idle", "creating", "sending", "waiting"}

\* Callers that close nothing go on to something else.
LEMMA CallersGo ==
    ASSUME RuntimeInv, RuntimeTyped',
           \A d \in Caller: \/ caller'[d] = caller[d]
                            \/ caller[d].pc \in Apart /\ caller'[d].pc \in Apart,
           disposed' = disposed, managed' = managed, agent' = agent, swept' = swept,
           sdkFaults' >= sdkFaults, ToldFits'
    PROVE  RuntimeInv'
  <1>1. \A d \in Caller: Sweeper(d)' => caller'[d] = caller[d] /\ Sweeper(d)
    BY DEF Sweeper, Apart
  <1>2. \A d \in Caller: caller'[d] = caller[d] => (Passed(d) => Passed(d)')
    BY DEF Passed
  <1>3. Sweeping'
    BY <1>1, <1>2 DEF RuntimeInv, Sweeping, Apart, Sweeper
  <1>4. \A a: Held(a) => Held(a)'
    BY DEF Held, Apart
  <1>5. Lost' \subseteq Lost
    BY <1>4 DEF Lost
  <1>6. SweptFits'
    BY DEF RuntimeInv, SweptFits
  <1>  QED  BY <1>3, <1>5, <1>6, LosesNone DEF RuntimeInv

LEMMA ApartSteps ==
    ASSUME RuntimeInv,
           \/ \E c \in Caller:
                \/ Ar!CreateAgent(c) \/ Ar!AgentRefused(c)
                \/ \E a \in DOMAIN agent \cup {None}: Ar!Send(c, a)
                \/ Ar!RunStarted(c) \/ Ar!SendFailed(c)
                \/ \E r \in DOMAIN run: Ar!Wait(c, r) \/ Ar!Cancel(c, r)
                \/ Ar!Waited(c) \/ Ar!WaitFailed(c)
           \/ \E r \in DOMAIN run: Ar!RunEnds(r)
    PROVE  RuntimeInv'
  <1> DEFINE Frame == /\ disposed' = disposed /\ managed' = managed
                      /\ agent' = agent /\ swept' = swept
      Moves(c) == /\ caller' = [caller EXCEPT ![c] = caller'[c]] /\ caller'[c] \in CallerRecord
                  /\ caller[c].pc \in Apart /\ caller'[c].pc \in Apart
  <1> USE DEF RuntimeInv, RuntimeTyped, Ar!Unchanged, Ar!Fault, Ar!At, Ar!Idle
  <1>1. ASSUME Frame, run' \in Seq(RunRecord), sdkFaults' \in Nat, sdkFaults' >= sdkFaults,
               ToldFits', caller' = caller \/ \E c \in Caller: Moves(c)
        PROVE  RuntimeInv'
    <2>1. /\ caller' \in [Caller -> CallerRecord]
          /\ \A d \in Caller: \/ caller'[d] = caller[d]
                              \/ caller[d].pc \in Apart /\ caller'[d].pc \in Apart
      <3>1. CASE caller' = caller
        BY <3>1
      <3>2. ASSUME NEW c \in Caller, Moves(c)
            PROVE  /\ caller' \in [Caller -> CallerRecord]
                   /\ \A d \in Caller: \/ caller'[d] = caller[d]
                                       \/ caller[d].pc \in Apart /\ caller'[d].pc \in Apart
        BY <3>2
      <3>  QED  BY <1>1, <3>1, <3>2
    <2>2. RuntimeTyped'
      BY <1>1, <2>1
    <2>  QED  BY <1>1, <2>1, <2>2, CallersGo
  <1>2. ASSUME told' = told
        PROVE  ToldFits'
    BY <1>2 DEF ToldFits
  <1>3. \A x \in AgentRecord: x.disposed \in BOOLEAN
    BY DEF AgentRecord
  <1>4. \A c \in Caller: caller[c] \in CallerRecord /\ caller[c].from \in Nat \cup {None} /\ caller[c].at \in Nat
    BY DEF CallerRecord
  <1>5. ASSUME NEW c \in Caller, Ar!CreateAgent(c)
        PROVE  RuntimeInv'
    <2>1. Moves(c)
      BY <1>4, <1>5 DEF Ar!CreateAgent, Ar!Goto, Apart, CallerRecord
    <2>  HIDE DEF Moves
    <2>  QED  BY <1>1, <1>2, <1>5, <2>1 DEF Ar!CreateAgent
  <1>6. ASSUME NEW c \in Caller, Ar!AgentRefused(c) \/ Ar!SendFailed(c) \/ Ar!WaitFailed(c)
        PROVE  RuntimeInv'
    <2>1. Moves(c)
      BY <1>4, <1>6 DEF Ar!AgentRefused, Ar!SendFailed, Ar!WaitFailed, Ar!Return, Apart, CallerRecord
    <2>  HIDE DEF Moves
    <2>  QED  BY <1>1, <1>2, <1>6, <2>1 DEF Ar!AgentRefused, Ar!SendFailed, Ar!WaitFailed
  <1>7. ASSUME NEW c \in Caller, NEW a \in DOMAIN agent \cup {None}, Ar!Send(c, a)
        PROVE  RuntimeInv'
    <2>1. Moves(c)
      BY <1>4, <1>7 DEF Ar!Send, Apart, CallerRecord
    <2>  HIDE DEF Moves
    <2>  QED  BY <1>1, <1>2, <1>7, <2>1 DEF Ar!Send
  <1>8. ASSUME NEW c \in Caller, Ar!RunStarted(c)
        PROVE  RuntimeInv'
    <2>1. run' \in Seq(RunRecord) /\ Len(run') \in Nat
      BY <1>4, <1>8 DEF Ar!RunStarted, RunRecord
    <2>2. Moves(c)
      BY <1>4, <1>8, <2>1 DEF Ar!RunStarted, Ar!Goto, Ar!Return, Apart, CallerRecord
    <2>  HIDE DEF Moves
    <2>  QED  BY <1>1, <1>2, <1>8, <2>1, <2>2 DEF Ar!RunStarted
  <1>9. ASSUME NEW c \in Caller, NEW r \in DOMAIN run, Ar!Wait(c, r)
        PROVE  RuntimeInv'
    <2>1. r \in Nat
      BY DEF RuntimeInv, RuntimeTyped
    <2>2. Moves(c)
      BY <1>4, <1>9, <2>1 DEF Ar!Wait, Ar!Goto, Apart, CallerRecord
    <2>  HIDE DEF Moves
    <2>  QED  BY <1>1, <1>2, <1>9, <2>2 DEF Ar!Wait
  <1>10. ASSUME NEW c \in Caller, NEW r \in DOMAIN run, Ar!Cancel(c, r)
         PROVE  RuntimeInv'
    <2>1. run[r] \in RunRecord
      OBVIOUS
    <2>2. \A s \in Ar!Ended \cup {"running"}: [run EXCEPT ![r].status = s] \in Seq(RunRecord)
      <3>1. \A s \in Ar!Ended \cup {"running"}: [run[r] EXCEPT !.status = s] \in RunRecord
        BY <2>1 DEF RunRecord
      <3>2. \A x \in RunRecord: [run EXCEPT ![r] = x] \in Seq(RunRecord)
        OBVIOUS
      <3>  QED  BY <3>1, <3>2
    <2>3. run' \in Seq(RunRecord)
      BY <1>10, <2>1, <2>2 DEF Ar!Cancel, RunRecord, Ar!Ended
    <2>  QED  BY <1>1, <1>2, <1>10, <2>3 DEF Ar!Cancel
  <1>11. ASSUME NEW r \in DOMAIN run, Ar!RunEnds(r)
         PROVE  RuntimeInv'
    <2>1. run[r] \in RunRecord
      OBVIOUS
    <2>2. \A s \in Ar!Ended \cup {"running"}: [run EXCEPT ![r].status = s] \in Seq(RunRecord)
      <3>1. \A s \in Ar!Ended \cup {"running"}: [run[r] EXCEPT !.status = s] \in RunRecord
        BY <2>1 DEF RunRecord
      <3>2. \A x \in RunRecord: [run EXCEPT ![r] = x] \in Seq(RunRecord)
        OBVIOUS
      <3>  QED  BY <3>1, <3>2
    <2>3. run' \in Seq(RunRecord)
      BY <1>11, <2>1, <2>2 DEF Ar!RunEnds, RunRecord, Ar!Ended
    <2>  QED  BY <1>1, <1>2, <1>11, <2>3 DEF Ar!RunEnds
  <1>12. ASSUME NEW c \in Caller, Ar!Waited(c)
         PROVE  RuntimeInv'
    <2>1. Moves(c)
      BY <1>4, <1>12 DEF Ar!Waited, Ar!Return, Apart, CallerRecord
    <2>2. ToldFits'
      BY <1>12 DEF Ar!Waited, ToldFits, Ar!Outcome
    <2>  HIDE DEF Moves
    <2>  QED  BY <1>1, <1>12, <2>1, <2>2 DEF Ar!Waited
  <1>  HIDE DEF Frame, Moves, RuntimeInv, RuntimeTyped, Ar!Unchanged, Ar!Fault, Ar!At, Ar!Idle
  <1>  QED  BY <1>5, <1>6, <1>7, <1>8, <1>9, <1>10, <1>11, <1>12

\* What is known of a caller and of the agents it stands at.
LEMMA RuntimeFacts ==
    ASSUME RuntimeInv
    PROVE  /\ \A c \in Caller: caller[c] \in CallerRecord /\ caller[c].at \in Nat
           /\ Len(managed) \in Nat /\ DOMAIN managed = 1 .. Len(managed)
           /\ Len(agent) \in Nat /\ DOMAIN agent = 1 .. Len(agent)
           /\ \A i \in DOMAIN managed: managed[i] \in DOMAIN agent
           /\ \A a \in DOMAIN agent: agent[a] \in AgentRecord
  BY DEF RuntimeInv, RuntimeTyped, CallerRecord

\* Agents told to close stay told, and a caller that closes one holds it.
LEMMA SweepGoes ==
    ASSUME RuntimeInv, RuntimeTyped', NEW c \in Caller,
           \A d \in Caller: d # c => caller'[d] = caller[d],
           managed' = managed, told' = told, swept' = swept,
           disposed => disposed',
           DOMAIN agent' = DOMAIN agent,
           \A a \in DOMAIN agent: agent[a].disposed => agent'[a].disposed,
           Sweeper(c) <=> Sweeper(c)',
           Sweeper(c)' => Passed(c)',
           caller'[c].pc = "closing" => caller'[c].at \in DOMAIN agent /\ agent'[caller'[c].at].disposed,
           Cardinality(Lost') <= sdkFaults'
    PROVE  RuntimeInv'
  <1> USE RuntimeFacts
  <1>1. \A d \in Caller: d # c => (Sweeper(d)' <=> Sweeper(d))
    BY DEF Sweeper
  <1>2. \A d \in Caller: d # c => (Passed(d) => Passed(d)')
    <2> SUFFICES ASSUME NEW d \in Caller, d # c, Passed(d)
                 PROVE  Passed(d)'
      OBVIOUS
    <2>1. caller[d].at \in Nat /\ caller'[d] = caller[d]
      OBVIOUS
    <2>2. \A i \in 1 .. caller[d].at: i \in DOMAIN managed
      BY <2>1 DEF Passed
    <2>3. \A i \in 1 .. caller[d].at: agent'[managed[i]].disposed
      BY <2>2 DEF Passed
    <2>4. caller[d].pc = "disposing" => /\ caller[d].at + 1 \in DOMAIN managed
                                        /\ agent'[managed[caller[d].at + 1]].disposed
      BY DEF Passed
    <2>  QED  BY <2>1, <2>3, <2>4 DEF Passed
  <1>3. \A d \in Caller: Sweeper(d)' => disposed' /\ swept' = None /\ Passed(d)'
    BY <1>1, <1>2 DEF RuntimeInv, Sweeping
  <1>4. \A d, e \in Caller: Sweeper(d)' /\ Sweeper(e)' => d = e
    BY <1>1 DEF RuntimeInv, Sweeping
  <1>5. \A d \in Caller: caller'[d].pc = "closing" =>
          caller'[d].at \in DOMAIN agent' /\ agent'[caller'[d].at].disposed
    BY DEF RuntimeInv, Sweeping
  <1>6. ~ disposed' => swept' = None
    BY DEF RuntimeInv, Sweeping, RuntimeTyped
  <1>7. Sweeping'
    BY <1>3, <1>4, <1>5, <1>6 DEF Sweeping
  <1>8. SweptFits' /\ ToldFits'
    BY DEF RuntimeInv, SweptFits, ToldFits
  <1>  QED  BY <1>7, <1>8 DEF RuntimeInv

LEMMA CloseStep ==
    ASSUME RuntimeInv, NEW c \in Caller, NEW a \in DOMAIN agent, Ar!Close(c, a)
    PROVE  RuntimeInv'
  <1> USE RuntimeFacts
  <1>1. /\ caller[c].pc = "idle" /\ ~ agent[a].disposed /\ a \in Nat
        /\ \A d \in Caller: d # c => caller'[d] = caller[d]
        /\ caller'[c].pc = "closing" /\ caller'[c].at = a /\ caller'[c].from = caller[c].from
        /\ DOMAIN agent' = DOMAIN agent /\ agent'[a].disposed
        /\ \A b \in DOMAIN agent: b # a => agent'[b] = agent[b]
    BY DEF Ar!Close, Ar!At, Ar!Goto, RuntimeInv, RuntimeTyped, CallerRecord, AgentRecord
  <1>2. caller' \in [Caller -> CallerRecord]
    BY <1>1 DEF Ar!Close, Ar!Goto, RuntimeInv, RuntimeTyped, CallerRecord
  <1>3. agent' \in Seq(AgentRecord)
    <2>1. [agent[a] EXCEPT !.disposed = TRUE] \in AgentRecord
      BY DEF AgentRecord
    <2>  QED  BY <2>1 DEF Ar!Close, RuntimeInv, RuntimeTyped
  <1>4. RuntimeTyped'
    BY <1>1, <1>2, <1>3 DEF Ar!Close, RuntimeInv, RuntimeTyped
  <1>5. Lost' \subseteq Lost
    <2>1. \A b: Held(b) => Held(b)'
      BY <1>1 DEF Held, Ar!Close
    <2>2. Held(a)'
      BY <1>1 DEF Held
    <2>  QED  BY <1>1, <2>1, <2>2 DEF Lost
  <1>6. Cardinality(Lost') <= sdkFaults'
    BY <1>4, <1>5, LosesNone DEF Ar!Close, RuntimeInv, RuntimeTyped
  <1>7. ~ Sweeper(c) /\ ~ Sweeper(c)'
    BY <1>1 DEF Sweeper
  <1>  QED  BY <1>1, <1>4, <1>6, <1>7, SweepGoes DEF Ar!Close

\* A close() that returned or failed.
LEMMA OneCloses ==
    ASSUME RuntimeInv, NEW a \in DOMAIN agent,
           \/ agent' = [agent EXCEPT ![a].closed = TRUE] /\ sdkFaults' = sdkFaults
           \/ agent' = agent /\ sdkFaults' = sdkFaults + 1
    PROVE  /\ agent' \in Seq(AgentRecord) /\ DOMAIN agent' = DOMAIN agent
           /\ \A b \in DOMAIN agent: b # a => agent'[b] = agent[b]
           /\ \A b \in DOMAIN agent: agent'[b].disposed = agent[b].disposed
           /\ sdkFaults' \in Nat
           /\ \/ sdkFaults' = sdkFaults /\ agent'[a].closed
              \/ sdkFaults' = sdkFaults + 1
  <1> USE RuntimeFacts
  <1>1. sdkFaults \in Nat /\ agent \in Seq(AgentRecord)
    BY DEF RuntimeInv, RuntimeTyped
  <1>2. CASE agent' = agent /\ sdkFaults' = sdkFaults + 1
    BY <1>1, <1>2
  <1>3. CASE agent' = [agent EXCEPT ![a].closed = TRUE] /\ sdkFaults' = sdkFaults
    <2> DEFINE x == [agent[a] EXCEPT !.closed = TRUE]
    <2>1. x \in AgentRecord /\ x.closed /\ x.disposed = agent[a].disposed
      BY DEF AgentRecord
    <2>2. agent' = [agent EXCEPT ![a] = x]
      BY <1>3
    <2>  HIDE DEF x
    <2>3. agent' \in Seq(AgentRecord) /\ DOMAIN agent' = DOMAIN agent
      BY <1>1, <2>1, <2>2
    <2>4. agent'[a] = x /\ \A b \in DOMAIN agent: b # a => agent'[b] = agent[b]
      BY <1>1, <2>2
    <2>  QED  BY <1>1, <1>3, <2>1, <2>3, <2>4
  <1>  QED  BY <1>2, <1>3

LEMMA ClosedStep ==
    ASSUME RuntimeInv, NEW c \in Caller, Ar!Closed(c)
    PROVE  RuntimeInv'
  <1> USE RuntimeFacts
  <1> DEFINE a == caller[c].at
  <1>1. /\ caller[c].pc = "closing" /\ a \in DOMAIN agent /\ agent[a].disposed
        /\ \A d \in Caller: d # c => caller'[d] = caller[d]
        /\ caller'[c].pc = "idle"
    BY DEF Ar!Closed, Ar!At, Ar!Return, Ar!Idle, RuntimeInv, RuntimeTyped, Sweeping
  <1>2. caller' \in [Caller -> CallerRecord]
    BY DEF Ar!Closed, Ar!Return, Ar!Idle, RuntimeInv, RuntimeTyped, CallerRecord
  <1>3. /\ agent' \in Seq(AgentRecord) /\ DOMAIN agent' = DOMAIN agent
        /\ \A b \in DOMAIN agent: b # a => agent'[b] = agent[b]
        /\ \A b \in DOMAIN agent: agent'[b].disposed = agent[b].disposed
        /\ sdkFaults' \in Nat
        /\ \/ sdkFaults' = sdkFaults /\ agent'[a].closed
           \/ sdkFaults' = sdkFaults + 1
    <2>1. \/ agent' = [agent EXCEPT ![a].closed = TRUE] /\ sdkFaults' = sdkFaults
          \/ agent' = agent /\ sdkFaults' = sdkFaults + 1
      BY DEF Ar!Closed, Ar!Fault
    <2>  HIDE DEF a
    <2>  QED  BY <1>1, <2>1, OneCloses
  <1>4. sdkFaults' \in Nat /\ RuntimeTyped'
    BY <1>2, <1>3 DEF Ar!Closed, RuntimeInv, RuntimeTyped
  <1>6. \A b: Held(b) /\ b # a => Held(b)'
    BY <1>1 DEF Held, Ar!Closed
  <1>7. Cardinality(Lost') <= sdkFaults'
    <2>1. CASE sdkFaults' = sdkFaults /\ agent'[a].closed
      <3>1. Lost' \subseteq Lost
        BY <1>3, <1>6, <2>1 DEF Lost
      <3>  QED  BY <1>4, <2>1, <3>1, LosesNone DEF RuntimeInv, RuntimeTyped
    <2>2. CASE sdkFaults' = sdkFaults + 1
      <3>1. Lost' \subseteq Lost \cup {a}
        BY <1>3, <1>6 DEF Lost
      <3>  HIDE DEF a
      <3>  QED  BY <1>4, <2>2, <3>1, LosesOne
    <2>  QED  BY <1>3, <2>1, <2>2
  <1>8. ~ Sweeper(c) /\ ~ Sweeper(c)'
    BY <1>1 DEF Sweeper
  <1>  QED  BY <1>1, <1>4, <1>3, <1>7, <1>8, SweepGoes DEF Ar!Closed

LEMMA SweptStep ==
    ASSUME RuntimeInv, NEW c \in Caller, Ar!Swept(c)
    PROVE  RuntimeInv'
  <1> USE RuntimeFacts
  <1> DEFINE a == managed[caller[c].at + 1]
  <1>1. /\ caller[c].pc = "disposing" /\ caller[c].at + 1 \in DOMAIN managed
        /\ a \in DOMAIN agent /\ agent[a].disposed
        /\ \A d \in Caller: d # c => caller'[d] = caller[d]
        /\ caller'[c].pc = "sweeping" /\ caller'[c].at = caller[c].at + 1
    BY DEF Ar!Swept, Ar!At, Ar!Goto, RuntimeInv, RuntimeTyped, CallerRecord, Sweeping, Sweeper, Passed
  <1>2. caller' \in [Caller -> CallerRecord]
    <2>1. [caller[c] EXCEPT !.pc = "sweeping", !.at = caller[c].at + 1] \in CallerRecord
      <3>1. \A x \in CallerRecord, n \in Nat: [x EXCEPT !.pc = "sweeping", !.at = n] \in CallerRecord
        BY DEF CallerRecord
      <3>2. caller[c] \in CallerRecord /\ caller[c].at + 1 \in Nat
        OBVIOUS
      <3>  QED  BY <3>1, <3>2
    <2>2. caller' = [caller EXCEPT ![c] = [caller[c] EXCEPT !.pc = "sweeping", !.at = caller[c].at + 1]]
      BY DEF Ar!Swept, Ar!Goto, RuntimeInv, RuntimeTyped
    <2>  QED  BY <2>1, <2>2 DEF RuntimeInv, RuntimeTyped
  <1>3. /\ agent' \in Seq(AgentRecord) /\ DOMAIN agent' = DOMAIN agent
        /\ \A b \in DOMAIN agent: b # a => agent'[b] = agent[b]
        /\ \A b \in DOMAIN agent: agent'[b].disposed = agent[b].disposed
        /\ sdkFaults' \in Nat
        /\ \/ sdkFaults' = sdkFaults /\ agent'[a].closed
           \/ sdkFaults' = sdkFaults + 1
    <2>1. \/ agent' = [agent EXCEPT ![a].closed = TRUE] /\ sdkFaults' = sdkFaults
          \/ agent' = agent /\ sdkFaults' = sdkFaults + 1
      BY DEF Ar!Swept, Ar!Fault
    <2>  HIDE DEF a
    <2>  QED  BY <1>1, <2>1, OneCloses
  <1>4. sdkFaults' \in Nat /\ RuntimeTyped'
    BY <1>2, <1>3 DEF Ar!Swept, RuntimeInv, RuntimeTyped
  <1>6. \A b: Held(b) /\ b # a => Held(b)'
    BY <1>1 DEF Held, Ar!Swept
  <1>7. Cardinality(Lost') <= sdkFaults'
    <2>1. CASE sdkFaults' = sdkFaults /\ agent'[a].closed
      <3>1. Lost' \subseteq Lost
        BY <1>3, <1>6, <2>1 DEF Lost
      <3>  QED  BY <1>4, <2>1, <3>1, LosesNone DEF RuntimeInv, RuntimeTyped
    <2>2. CASE sdkFaults' = sdkFaults + 1
      <3>1. Lost' \subseteq Lost \cup {a}
        BY <1>3, <1>6 DEF Lost
      <3>  HIDE DEF a
      <3>  QED  BY <1>4, <2>2, <3>1, LosesOne
    <2>  QED  BY <1>3, <2>1, <2>2
  <1>8. Sweeper(c) /\ Sweeper(c)'
    BY <1>1 DEF Sweeper
  <1>9. Passed(c)'
    <2>1. \A i \in 1 .. caller[c].at: i \in DOMAIN managed /\ agent[managed[i]].disposed
      BY <1>8 DEF RuntimeInv, Sweeping, Passed
    <2>2. \A i \in 1 .. caller'[c].at: i \in DOMAIN managed /\ agent'[managed[i]].disposed
      <3>1. \A i \in 1 .. caller'[c].at: i \in 1 .. caller[c].at \/ i = caller[c].at + 1
        BY <1>1
      <3>2. \A i \in DOMAIN managed: agent[managed[i]].disposed => agent'[managed[i]].disposed
        BY <1>3
      <3>  QED  BY <1>1, <2>1, <3>1, <3>2
    <2>  QED  BY <1>1, <2>2 DEF Passed, Ar!Swept
  <1>  QED  BY <1>1, <1>4, <1>3, <1>7, <1>8, <1>9, SweepGoes DEF Ar!Swept

LEMMA SweepStep ==
    ASSUME RuntimeInv, NEW c \in Caller, Ar!Sweep(c)
    PROVE  RuntimeInv'
  <1> USE RuntimeFacts
  <1> DEFINE i == caller[c].at + 1
             a == managed[i]
  <1>1. /\ caller[c].pc = "sweeping" /\ i \in DOMAIN managed /\ i \in Nat /\ a \in DOMAIN agent
        /\ disposed /\ swept = None /\ Passed(c)
    <2>1. caller[c].pc = "sweeping" /\ i \in DOMAIN managed /\ i \in Nat
      BY DEF Ar!Sweep, Ar!At, Ar!Remaining
    <2>  QED  BY <2>1 DEF RuntimeInv, Sweeping, Sweeper
  <1>2. CASE agent[a].disposed /\ caller' = [caller EXCEPT ![c].at = @ + 1] /\ agent' = agent
    <2>1. caller'[c].pc = "sweeping" /\ caller'[c].at = i
      BY <1>1, <1>2 DEF RuntimeInv, RuntimeTyped, CallerRecord
    <2>2. caller' \in [Caller -> CallerRecord]
      <3>1. \A x \in CallerRecord, n \in Nat: [x EXCEPT !.at = n] \in CallerRecord
        BY DEF CallerRecord
      <3>2. caller' = [caller EXCEPT ![c] = [caller[c] EXCEPT !.at = i]]
        BY <1>2
      <3>  QED  BY <1>1, <3>1, <3>2 DEF RuntimeInv, RuntimeTyped
    <2>3. RuntimeTyped'
      BY <1>2, <2>2 DEF Ar!Sweep, RuntimeInv, RuntimeTyped
    <2>4. \A d \in Caller: d # c => caller'[d] = caller[d]
      BY <1>2 DEF RuntimeInv, RuntimeTyped
    <2>5. Lost' \subseteq Lost
      <3>1. \A b: Held(b) => Held(b)'
        BY <1>1, <2>4 DEF Held, Ar!Sweep
      <3>  QED  BY <1>2, <3>1 DEF Lost
    <2>6. Cardinality(Lost') <= sdkFaults'
      BY <2>3, <2>5, LosesNone DEF Ar!Sweep, RuntimeInv, RuntimeTyped
    <2>7. Passed(c)'
      <3>1. \A j \in 1 .. caller[c].at: agent[managed[j]].disposed
        BY <1>1 DEF Passed
      <3>2. \A j \in 1 .. i: j \in 1 .. caller[c].at \/ j = i
        BY <1>1
      <3>3. \A j \in 1 .. i: agent[managed[j]].disposed
        BY <1>2, <3>1, <3>2
      <3>  QED  BY <1>1, <1>2, <2>1, <3>3 DEF Passed, Ar!Sweep
    <2>8. Sweeper(c) /\ Sweeper(c)'
      BY <1>1, <2>1 DEF Sweeper
    <2>  QED  BY <1>2, <2>1, <2>3, <2>4, <2>6, <2>7, <2>8, SweepGoes DEF Ar!Sweep
  <1>3. CASE /\ ~ agent[a].disposed /\ agent' = [agent EXCEPT ![a].disposed = TRUE]
             /\ Ar!Goto(c, "disposing", caller[c].at)
    <2> DEFINE x == [agent[a] EXCEPT !.disposed = TRUE]
    <2>1. x \in AgentRecord /\ x.disposed
      BY <1>1 DEF AgentRecord
    <2>2. agent' = [agent EXCEPT ![a] = x]
      BY <1>3
    <2>3. /\ agent' \in Seq(AgentRecord) /\ DOMAIN agent' = DOMAIN agent
          /\ agent'[a].disposed /\ \A b \in DOMAIN agent: b # a => agent'[b] = agent[b]
      <3>  HIDE DEF x, a
      <3>  QED  BY <1>1, <2>1, <2>2 DEF RuntimeInv, RuntimeTyped
    <2>4. caller' = [caller EXCEPT ![c] = [caller[c] EXCEPT !.pc = "disposing", !.at = caller[c].at]]
      BY <1>3 DEF Ar!Goto, RuntimeInv, RuntimeTyped
    <2>5. caller'[c].pc = "disposing" /\ caller'[c].at = caller[c].at
      BY <2>4 DEF RuntimeInv, RuntimeTyped, CallerRecord
    <2>6. caller' \in [Caller -> CallerRecord]
      <3>1. \A y \in CallerRecord, n \in Nat: [y EXCEPT !.pc = "disposing", !.at = n] \in CallerRecord
        BY DEF CallerRecord
      <3>  QED  BY <2>4, <3>1 DEF RuntimeInv, RuntimeTyped
    <2>7. RuntimeTyped'
      BY <2>3, <2>6 DEF Ar!Sweep, RuntimeInv, RuntimeTyped
    <2>8. \A d \in Caller: d # c => caller'[d] = caller[d]
      BY <2>4 DEF RuntimeInv, RuntimeTyped
    <2>9. Lost' \subseteq Lost
      <3>1. \A b: Held(b) => Held(b)'
        BY <1>1, <2>8 DEF Held, Ar!Sweep
      <3>2. \A b: b = a => Held(b)'
        BY <2>5 DEF Held, Ar!Sweep
      <3>  HIDE DEF a
      <3>  QED  BY <2>3, <3>1, <3>2 DEF Lost
    <2>10. Cardinality(Lost') <= sdkFaults'
      BY <2>7, <2>9, LosesNone DEF Ar!Sweep, RuntimeInv, RuntimeTyped
    <2>11. \A b \in DOMAIN agent: agent[b].disposed => agent'[b].disposed
      BY <2>3
    <2>12. Passed(c)'
      <3>1. \A j \in 1 .. caller[c].at: j \in DOMAIN managed /\ agent[managed[j]].disposed
        BY <1>1 DEF Passed
      <3>2. \A j \in 1 .. caller[c].at: agent'[managed[j]].disposed
        BY <2>11, <3>1
      <3>  QED  BY <1>1, <2>3, <2>5, <3>2 DEF Passed, Ar!Sweep
    <2>13. Sweeper(c) /\ Sweeper(c)'
      BY <1>1, <2>5 DEF Sweeper
    <2>  HIDE DEF a
    <2>  QED  BY <2>3, <2>5, <2>7, <2>8, <2>10, <2>11, <2>12, <2>13, SweepGoes DEF Ar!Sweep
  <1>  QED  BY <1>2, <1>3 DEF Ar!Sweep

LEMMA DisposeStep ==
    ASSUME RuntimeInv, NEW c \in Caller, Ar!Dispose(c)
    PROVE  RuntimeInv'
  <1> USE RuntimeFacts
  <1> DEFINE x == [pc |-> "sweeping", at |-> 0, from |-> Len(managed)]
  <1>1. caller[c].pc = "idle" /\ ~ disposed /\ caller' = [caller EXCEPT ![c] = x] /\ disposed'
    BY DEF Ar!Dispose, Ar!At
  <1>2. x \in CallerRecord /\ x.pc = "sweeping" /\ x.at = 0
    BY DEF CallerRecord
  <1>3. /\ caller'[c].pc = "sweeping" /\ caller'[c].at = 0
        /\ caller' \in [Caller -> CallerRecord]
        /\ \A d \in Caller: d # c => caller'[d] = caller[d]
    <2>  HIDE DEF x
    <2>  QED  BY <1>1, <1>2 DEF RuntimeInv, RuntimeTyped
  <1>4. RuntimeTyped'
    BY <1>3 DEF Ar!Dispose, RuntimeInv, RuntimeTyped
  <1>5. \A d \in Caller: ~ Sweeper(d)
    BY <1>1 DEF RuntimeInv, Sweeping
  <1>6. \A d \in Caller: Sweeper(d)' => d = c
    BY <1>3, <1>5 DEF Sweeper
  <1>7. Passed(c)'
    BY <1>3 DEF Passed, Ar!Dispose
  <1>8. Sweeping'
    BY <1>1, <1>3, <1>6, <1>7 DEF RuntimeInv, Sweeping, Ar!Dispose
  <1>9. SweptFits' /\ ToldFits'
    BY DEF RuntimeInv, SweptFits, ToldFits, Ar!Dispose
  <1>10. \A b: Held(b) => Held(b)'
    BY <1>1, <1>3 DEF Held, Ar!Dispose
  <1>11. Lost' \subseteq Lost
    BY <1>10 DEF Lost, Ar!Dispose
  <1>12. Cardinality(Lost') <= sdkFaults'
    BY <1>4, <1>11, LosesNone DEF Ar!Dispose, RuntimeInv, RuntimeTyped
  <1>  QED  BY <1>4, <1>8, <1>9, <1>12 DEF RuntimeInv

LEMMA DisposedStep ==
    ASSUME RuntimeInv, NEW c \in Caller, Ar!Disposed(c)
    PROVE  RuntimeInv'
  <1> USE RuntimeFacts
  <1>1. /\ caller[c].pc = "sweeping" /\ caller[c].at = Len(managed) /\ disposed /\ Passed(c)
        /\ Sweeper(c)
    BY DEF Ar!Disposed, Ar!At, Ar!Remaining, RuntimeInv, Sweeping, Sweeper
  <1>2. /\ caller' \in [Caller -> CallerRecord] /\ caller'[c].pc = "idle"
        /\ \A d \in Caller: d # c => caller'[d] = caller[d]
    BY DEF Ar!Disposed, Ar!Return, Ar!Idle, RuntimeInv, RuntimeTyped, CallerRecord
  <1>3. RuntimeTyped'
    BY <1>2 DEF Ar!Disposed, RuntimeInv, RuntimeTyped
  <1>4. \A d \in Caller: ~ Sweeper(d)'
    BY <1>1, <1>2 DEF RuntimeInv, Sweeping, Sweeper
  <1>5. Sweeping'
    BY <1>1, <1>2, <1>4 DEF RuntimeInv, Sweeping, Ar!Disposed, Sweeper
  <1>6. swept' = {managed[i]: i \in DOMAIN managed}
    BY DEF Ar!Disposed, Ar!Range
  <1>7. \A i \in DOMAIN managed: agent[managed[i]].disposed
    BY <1>1 DEF Passed
  <1>8. SweptFits'
    BY <1>6, <1>7 DEF SweptFits, Ar!Disposed
  <1>9. ToldFits'
    BY DEF RuntimeInv, ToldFits, Ar!Disposed
  <1>10. \A b: Held(b) => Held(b)'
    BY <1>1, <1>2 DEF Held, Ar!Disposed, RuntimeInv, Sweeping, Sweeper
  <1>11. Lost' \subseteq Lost
    BY <1>10 DEF Lost, Ar!Disposed
  <1>12. Cardinality(Lost') <= sdkFaults'
    BY <1>3, <1>11, LosesNone DEF Ar!Disposed, RuntimeInv, RuntimeTyped
  <1>  QED  BY <1>3, <1>5, <1>8, <1>9, <1>12 DEF RuntimeInv

LEMMA AgentMadeStep ==
    ASSUME RuntimeInv, NEW c \in Caller, Ar!AgentMade(c)
    PROVE  RuntimeInv'
  <1> USE RuntimeFacts
  <1> DEFINE x == [disposed |-> FALSE, closed |-> FALSE]
             n == Len(agent) + 1
  <1>1. /\ caller[c].pc = "creating" /\ agent' = Append(agent, x) /\ managed' = Append(managed, Len(agent'))
        /\ x \in AgentRecord /\ ~ x.disposed
    BY DEF Ar!AgentMade, Ar!At, AgentRecord
  <1>2. /\ caller' \in [Caller -> CallerRecord] /\ caller'[c].pc = "idle"
        /\ \A d \in Caller: d # c => caller'[d] = caller[d]
    BY DEF Ar!AgentMade, Ar!Return, Ar!Idle, RuntimeInv, RuntimeTyped, CallerRecord
  <1>3. /\ agent' \in Seq(AgentRecord) /\ DOMAIN agent' = DOMAIN agent \cup {n} /\ Len(agent') = n
        /\ \A b \in DOMAIN agent: agent'[b] = agent[b]
        /\ ~ agent'[n].disposed
    <2>  HIDE DEF x
    <2>  QED  BY <1>1 DEF RuntimeInv, RuntimeTyped
  <1>4. /\ managed' \in Seq(DOMAIN agent') /\ Len(managed') = Len(managed) + 1
        /\ DOMAIN managed' = 1 .. (Len(managed) + 1)
        /\ \A i \in DOMAIN managed: managed'[i] = managed[i]
    <2>1. managed \in Seq(DOMAIN agent') /\ n \in DOMAIN agent'
      BY <1>3 DEF RuntimeInv, RuntimeTyped
    <2>  HIDE DEF n
    <2>  QED  BY <1>1, <1>3, <2>1
  <1>5. RuntimeTyped'
    BY <1>2, <1>3, <1>4 DEF Ar!AgentMade, RuntimeInv, RuntimeTyped
  <1>6. \A d \in Caller: Sweeper(d)' => d # c /\ Sweeper(d)
    BY <1>2 DEF Sweeper
  <1>7. \A d \in Caller: d # c /\ Passed(d) => Passed(d)'
    <2> SUFFICES ASSUME NEW d \in Caller, d # c, Passed(d)
                 PROVE  Passed(d)'
      OBVIOUS
    <2>1. \A i \in 1 .. caller[d].at: i \in DOMAIN managed /\ agent'[managed'[i]].disposed
      <3>1. caller[d].at \in Nat
        OBVIOUS
      <3>2. \A i \in 1 .. caller[d].at: i \in DOMAIN managed
        BY <3>1 DEF Passed
      <3>3. \A i \in 1 .. caller[d].at: managed[i] \in DOMAIN agent /\ agent[managed[i]].disposed
        BY <3>2 DEF Passed
      <3>  QED  BY <3>2, <3>3, <1>3, <1>4
    <2>2. caller[d].pc = "disposing" =>
            /\ caller[d].at + 1 \in DOMAIN managed
            /\ agent'[managed'[caller[d].at + 1]].disposed
      BY <1>3, <1>4 DEF Passed
    <2>  QED  BY <1>2, <1>4, <2>1, <2>2 DEF Passed
  <1>8. Sweeping'
    BY <1>2, <1>3, <1>6, <1>7 DEF RuntimeInv, Sweeping, Ar!AgentMade
  <1>9. SweptFits'
    BY <1>3 DEF RuntimeInv, SweptFits, Ar!AgentMade
  <1>10. ToldFits'
    BY DEF RuntimeInv, ToldFits, Ar!AgentMade
  <1>11. \A b: Held(b) => Held(b)'
    <2>1. \A d \in Caller: caller[d].pc = "disposing" => caller[d].at + 1 \in DOMAIN managed
      BY DEF RuntimeInv, Sweeping, Sweeper, Passed
    <2>  QED  BY <1>1, <1>2, <1>4, <2>1 DEF Held
  <1>12. Lost' \subseteq Lost
    BY <1>3, <1>11 DEF Lost
  <1>13. Cardinality(Lost') <= sdkFaults'
    BY <1>5, <1>12, LosesNone DEF Ar!AgentMade, RuntimeInv, RuntimeTyped
  <1>  QED  BY <1>5, <1>8, <1>9, <1>10, <1>13 DEF RuntimeInv

LEMMA RuntimeStepKeeps == RuntimeInv /\ [Ar!Next]_(Ar!vars) => RuntimeInv'
  <1> SUFFICES ASSUME RuntimeInv, [Ar!Next]_(Ar!vars)
               PROVE  RuntimeInv'
    OBVIOUS
  <1>1. CASE UNCHANGED Ar!vars
    BY <1>1 DEF Ar!vars, RuntimeInv, RuntimeTyped, Sweeping, Sweeper, Passed, SweptFits, ToldFits, Lost, Held
  <1>2. ASSUME NEW c \in Caller,
               \/ Ar!AgentMade(c) \/ \E a \in DOMAIN agent: Ar!Close(c, a)
               \/ Ar!Closed(c) \/ Ar!Dispose(c) \/ Ar!Sweep(c) \/ Ar!Swept(c) \/ Ar!Disposed(c)
        PROVE  RuntimeInv'
    BY <1>2, AgentMadeStep, CloseStep, ClosedStep, DisposeStep, SweepStep, SweptStep, DisposedStep
  <1>3. ASSUME \/ \E c \in Caller:
                    \/ Ar!CreateAgent(c) \/ Ar!AgentRefused(c)
                    \/ \E a \in DOMAIN agent \cup {None}: Ar!Send(c, a)
                    \/ Ar!RunStarted(c) \/ Ar!SendFailed(c)
                    \/ \E r \in DOMAIN run: Ar!Wait(c, r) \/ Ar!Cancel(c, r)
                    \/ Ar!Waited(c) \/ Ar!WaitFailed(c)
               \/ \E r \in DOMAIN run: Ar!RunEnds(r)
        PROVE  RuntimeInv'
    BY ONLY RuntimeInv, <1>3, ApartSteps
  <1>  QED  BY <1>1, <1>2, <1>3 DEF Ar!Next

\* When the runtime is disposed of, every agent it had is closed or somebody is at it, all but as
\* many as calls of the SDK failed; and wait() gives the result of a run that ended well only
\* (runtime/cursor-sdk/runtime.ts).
THEOREM DisposedClosed == Ar!Spec => []Ar!DisposedIsClosed
  <1>1. RuntimeInv /\ [Ar!Next]_Ar!vars => RuntimeInv'
    BY RuntimeStepKeeps
  <1>2. RuntimeInv => Ar!DisposedIsClosed
    BY RuntimeImplied
  <1> QED  BY <1>1, <1>2, RuntimeInitially, PTL DEF Ar!Spec
=============================================================================
