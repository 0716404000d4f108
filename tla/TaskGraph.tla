----------------------------- MODULE TaskGraph -----------------------------
(***************************************************************************)
(* Tasks and graphs of tasks: TaskStore and TaskRunner (tasks/), the       *)
(* validator, the ownership check and the runner of graphs (dag/).         *)
(*                                                                         *)
(* One "dag run" executes a graph rank by rank while an operator cancels   *)
(* and resumes single tasks.  All of them read and write the task files    *)
(* without a lock: one read-merge-write is a step, and an agent is awaited *)
(* between steps.  Agents are outside the program: each run of a task has  *)
(* a number, and is at work until it ends or is cancelled.                 *)
(***************************************************************************)
EXTENDS Naturals, Sequences, SequencesExt, FiniteSets, FiniteSetsExt

CONSTANTS
    Task,
    Owned,      \* [Task -> set of paths (sequences)]
    Location,   \* [Task -> working tree]
    Concurrency,
    None,
    MaxRuns,    \* bound: executions of the graph
    MaxOps,     \* bound: calls of the operator
    MaxFault    \* bound: failing agents, timeouts, throws, aborts, kills

VARIABLES
    deps,       \* the graph that is run
    store,      \* task files: None or [status, run (the last recorded one, 0 if none)]
    dag,        \* the run of the graph: pc, rank, mem (its task records), aborted, runs
    worker,     \* per task: pc of its worker, the run it waits for, the result to be recorded
    signal,     \* the abort signal
    live,       \* agent runs at work: <<task, number>>
    count,      \* runs of a task so far
    op,         \* the operator's call: pc, task, number of its run
    passed,     \* history: tasks whose agent returned a result in this run of the graph
    touched,    \* history: tasks an operator cancelled or resumed
    ops, faults

vars == <<deps, store, dag, worker, signal, live, count, op, passed, touched, ops, faults>>

Terminal == {"completed", "failed", "cancelled"}
Status == Terminal \cup {"pending", "running", "skipped"}
Stored == [status: Status, run: Nat]
NoOp == [pc |-> "idle", task |-> None, run |-> 0]
AtRest == [pc |-> "rest", result |-> None, run |-> 0]

-----------------------------------------------------------------------------
(* validateDag: depth-first search for cycles, then ranks.  path is the    *)
(* recursion stack of the search.                                          *)

CycleFound(graph) ==
    LET Search[a \in [task: Task, seen: SUBSET Task, path: SUBSET Task]] ==
            FoldSet(LAMBDA d, acc:
                        IF acc.cycle THEN acc
                        ELSE IF d \notin acc.seen
                        THEN Search[[task |-> d, seen |-> acc.seen, path |-> a.path \cup {d}]]
                        ELSE [acc EXCEPT !.cycle = d \in a.path],
                    [seen |-> a.seen \cup {a.task}, cycle |-> FALSE], graph[a.task])
    IN FoldSet(LAMBDA t, acc:
                   IF acc.cycle \/ t \in acc.seen THEN acc
                   ELSE Search[[task |-> t, seen |-> acc.seen, path |-> {t}]],
               [seen |-> {}, cycle |-> FALSE], Task).cycle

SelfDependent(graph) == \E t \in Task: t \in graph[t]

RankOf(t) ==
    LET Rank[u \in Task] == IF deps[u] = {} THEN 0 ELSE 1 + Max({Rank[d] : d \in deps[u]})
    IN Rank[t]

InRank(r) == {t \in Task: RankOf(t) = r}
LastRank == Max({RankOf(t) : t \in Task})

(* validateRankEditOwnership: claims of different tasks of a rank that     *)
(* share a working tree may not contain one another.                       *)
Overlap(p, q) == IsPrefix(p, q) \/ IsPrefix(q, p)

Conflict(t, u) ==
    /\ Location[t] = Location[u]
    /\ \E p \in Owned[t], q \in Owned[u]: Overlap(p, q)

OwnershipConflict == \E t, u \in Task: t # u /\ RankOf(t) = RankOf(u) /\ Conflict(t, u)

Valid == ~ SelfDependent(deps) /\ ~ CycleFound(deps) /\ ~ OwnershipConflict

-----------------------------------------------------------------------------
Init ==
    /\ deps \in [Task -> SUBSET Task]
    /\ store = [t \in Task |-> None]
    /\ dag = [pc |-> "idle", rank |-> 0, mem |-> [t \in Task |-> None], aborted |-> FALSE, runs |-> 0]
    /\ worker = [t \in Task |-> AtRest]
    /\ signal = FALSE
    /\ live = {} /\ count = [t \in Task |-> 0]
    /\ op = NoOp
    /\ passed = {} /\ touched = {}
    /\ ops = 0 /\ faults = 0

\* store.update: the file is read again and only the named fields change.
Update(t, s) == store' = [store EXCEPT ![t].status = s]

Fault == faults < MaxFault /\ faults' = faults + 1

(* DagRunner.run up to its first rank: createTask writes every file anew,  *)
(* whatever was in it.                                                     *)
StartDag ==
    /\ dag.pc \in {"idle", "done", "error", "dead"} /\ dag.runs < MaxRuns
    /\ \A t \in Task: worker[t].pc \in {"rest", "end"}
    /\ IF Valid
       THEN /\ store' = [t \in Task |-> [status |-> "pending", run |-> 0]]
            /\ dag' = [pc |-> "run", rank |-> 0, mem |-> [t \in Task |-> "pending"],
                       aborted |-> FALSE, runs |-> dag.runs + 1]
       ELSE UNCHANGED store /\ dag' = [dag EXCEPT !.pc = "rejected"]
    /\ worker' = [t \in Task |-> AtRest]
    /\ signal' = FALSE /\ passed' = {} /\ touched' = {}
    /\ UNCHANGED <<deps, live, count, op, ops, faults>>

Active == {t \in Task: worker[t].pc \notin {"rest", "end"}}

\* The worker of t ends with its record in the memory of the graph run.
Ends(t, s) ==
    /\ Update(t, s)
    /\ dag' = [dag EXCEPT !.mem[t] = s]
    /\ worker' = [worker EXCEPT ![t].pc = "end"]

\* Mutant: only failed dependencies count, so that a skipped one does not.
FailedOnly(t) == \E d \in deps[t]: dag.mem[d] \in {"failed", "cancelled"}

ShouldSkip(t) == \E d \in deps[t]: dag.mem[d] # "completed"

Turn(t) ==
    /\ dag.pc \in {"run", "error"} /\ t \in InRank(dag.rank) /\ worker[t].pc = "rest"
    /\ Cardinality(Active) < Concurrency

WorkerAborted(t) ==
    /\ Turn(t) /\ signal
    /\ dag' = [dag EXCEPT !.aborted = TRUE]
    /\ worker' = [worker EXCEPT ![t].pc = "end"]
    /\ UNCHANGED <<deps, store, signal, live, count, op, passed, touched, ops, faults>>

WorkerSkips(t) ==
    /\ Turn(t) /\ ~ signal /\ ShouldSkip(t)
    /\ Ends(t, "skipped")
    /\ UNCHANGED <<deps, signal, live, count, op, passed, touched, ops, faults>>

WorkerStarts(t) ==
    /\ Turn(t) /\ ~ signal /\ ~ ShouldSkip(t)
    /\ worker' = [worker EXCEPT ![t].pc = "start"]
    /\ UNCHANGED <<deps, store, dag, signal, live, count, op, passed, touched, ops, faults>>

-----------------------------------------------------------------------------
(* TaskRunner.run.  It does not look at the status it finds.               *)

AgentNotStarted(t) ==
    /\ worker[t].pc = "start" /\ Fault
    /\ Ends(t, "failed")
    /\ UNCHANGED <<deps, signal, live, count, op, passed, touched, ops>>

AgentStarts(t) ==
    LET n == count[t] + 1 IN
    /\ worker[t].pc = "start"
    /\ count' = [count EXCEPT ![t] = n]
    /\ live' = live \cup {<<t, n>>}
    /\ store' = [store EXCEPT ![t] = [status |-> "running", run |-> n]]
    /\ worker' = [worker EXCEPT ![t] = [pc |-> IF signal THEN "close" ELSE "wait", run |-> n,
                                        result |-> IF signal THEN "cancelled" ELSE None]]
    /\ UNCHANGED <<deps, dag, signal, op, passed, touched, ops, faults>>

(* The run is over: with a result, also if it was cancelled; or with an    *)
(* error; or the time budget is used up first, and the run is told to stop *)
(* without waiting for it.  The agent is closed before the record changes. *)
Closing(t, result) == [worker EXCEPT ![t].pc = "close", ![t].result = result]

RunReturns(t) ==
    /\ worker[t].pc = "wait"
    /\ worker' = Closing(t, "completed")
    /\ live' = live \ {<<t, worker[t].run>>}
    /\ passed' = passed \cup {t}
    /\ UNCHANGED <<deps, store, dag, signal, count, op, touched, ops, faults>>

RunFails(t) ==
    /\ worker[t].pc = "wait"
    /\ IF <<t, worker[t].run>> \in live THEN Fault ELSE UNCHANGED faults
    /\ worker' = Closing(t, "failed")
    /\ live' = live \ {<<t, worker[t].run>>}
    /\ UNCHANGED <<deps, store, dag, signal, count, op, passed, touched, ops>>

TimesOut(t) ==
    /\ worker[t].pc = "wait" /\ Fault
    /\ worker' = Closing(t, "task_timeout")
    /\ live' \in {live, live \ {<<t, worker[t].run>>}}
    /\ UNCHANGED <<deps, store, dag, signal, count, op, passed, touched, ops>>

Outcome(result) ==
    CASE result = "task_timeout" -> "failed"
      [] result = "failed" /\ signal -> "cancelled"
      [] OTHER -> result

RunRecorded(t) ==
    /\ worker[t].pc = "close"
    /\ Ends(t, Outcome(worker[t].result))
    /\ live' = IF worker[t].result = "cancelled" THEN live \ {<<t, worker[t].run>>} ELSE live
    /\ UNCHANGED <<deps, signal, count, op, passed, touched, ops, faults>>

(* Closing the agent, or the file, fails: run() throws and the run of the  *)
(* graph rejects, while workers that are under way go on.                  *)
RunThrows(t) ==
    /\ worker[t].pc = "close" /\ Fault
    /\ worker' = [worker EXCEPT ![t].pc = "end"]
    /\ dag' = [dag EXCEPT !.pc = "error"]
    /\ UNCHANGED <<deps, store, signal, live, count, op, passed, touched, ops>>

-----------------------------------------------------------------------------
RankOver ==
    /\ dag.pc = "run" /\ Active = {}
    /\ \A t \in InRank(dag.rank): worker[t].pc = "end" \/ signal

NextRank ==
    /\ RankOver /\ ~ signal /\ ~ dag.aborted /\ dag.rank < LastRank
    /\ dag' = [dag EXCEPT !.rank = @ + 1]
    /\ UNCHANGED <<deps, store, worker, signal, live, count, op, passed, touched, ops, faults>>

\* Mutant: only tasks that were started are cancelled with the graph.
UnfinishedRunning == {t \in Task: dag.mem[t] = "running"}

Unfinished == {t \in Task: dag.mem[t] \in {"pending", "running"}}

Overall(mem, aborted) ==
    LET all == {mem[t] : t \in Task} IN
    IF aborted \/ "cancelled" \in all THEN "cancelled"
    ELSE IF "failed" \in all THEN "failed"
    ELSE IF all \subseteq {"completed", "skipped"} THEN "completed" ELSE "failed"

FinishDag ==
    LET aborted == signal \/ dag.aborted
        cut == IF aborted THEN Unfinished ELSE {}
    IN /\ RankOver /\ (aborted \/ dag.rank = LastRank)
       /\ store' = [t \in Task |-> IF t \in cut THEN [store[t] EXCEPT !.status = "cancelled"] ELSE store[t]]
       /\ dag' = [dag EXCEPT !.pc = "done", !.aborted = aborted,
                             !.mem = [t \in Task |-> IF t \in cut THEN "cancelled" ELSE @[t]]]
       /\ UNCHANGED <<deps, worker, signal, live, count, op, passed, touched, ops, faults>>

(* The abort signal: every run that is waited for is told to stop.         *)
Abort ==
    /\ dag.pc = "run" /\ ~ signal /\ Fault
    /\ signal' = TRUE
    /\ live' \in {live \ {<<t, worker[t].run>> : t \in lost} :
                    lost \in SUBSET {t \in Task: worker[t].pc = "wait"}}
    /\ UNCHANGED <<deps, store, dag, worker, count, op, passed, touched, ops>>

Kill ==
    /\ dag.pc \in {"run", "error"} /\ Fault
    /\ dag' = [dag EXCEPT !.pc = "dead"]
    /\ worker' = [t \in Task |-> [worker[t] EXCEPT !.pc = "end"]]
    /\ UNCHANGED <<deps, store, signal, live, count, op, passed, touched, ops>>

-----------------------------------------------------------------------------
(* The operator: TaskRunner.cancel and TaskRunner.resume in a process of   *)
(* their own.  cancel looks at the status before it awaits the             *)
(* cancellation of the run, and not after; resume does not look at it.     *)

CancelRead(t) ==
    /\ op.pc = "idle" /\ ops < MaxOps /\ store[t] # None
    /\ store[t].status \notin Terminal
    /\ ops' = ops + 1
    /\ op' = [pc |-> "cancel", task |-> t, run |-> store[t].run]
    /\ touched' = touched \cup {t}
    /\ UNCHANGED <<deps, store, dag, worker, signal, live, count, passed, faults>>

CancelWrite ==
    /\ op.pc = "cancel"
    /\ \/ live' = live \ {<<op.task, op.run>>} /\ UNCHANGED faults
       \/ UNCHANGED live /\ Fault
    /\ Update(op.task, "cancelled")
    /\ op' = NoOp
    /\ UNCHANGED <<deps, dag, worker, signal, count, passed, touched, ops>>

Resume(t) ==
    LET n == count[t] + 1 IN
    /\ op.pc = "idle" /\ ops < MaxOps /\ store[t] # None
    /\ store[t].run > 0
    /\ ops' = ops + 1
    /\ count' = [count EXCEPT ![t] = n]
    /\ live' = live \cup {<<t, n>>}
    /\ store' = [store EXCEPT ![t] = [status |-> "running", run |-> n]]
    /\ op' = [pc |-> "resume", task |-> t, run |-> n]
    /\ touched' = touched \cup {t}
    /\ UNCHANGED <<deps, dag, worker, signal, passed, faults>>

ResumeEnds ==
    /\ op.pc = "resume"
    /\ \/ Update(op.task, "completed") /\ UNCHANGED faults
       \/ Update(op.task, "failed") /\ Fault
    /\ live' = live \ {<<op.task, op.run>>}
    /\ op' = NoOp
    /\ UNCHANGED <<deps, dag, worker, signal, count, passed, touched, ops>>

Next ==
    \/ StartDag \/ NextRank \/ FinishDag \/ Abort \/ Kill
    \/ \E t \in Task:
        \/ WorkerAborted(t) \/ WorkerSkips(t) \/ WorkerStarts(t)
        \/ AgentNotStarted(t) \/ AgentStarts(t)
        \/ RunReturns(t) \/ RunFails(t) \/ TimesOut(t) \/ RunRecorded(t) \/ RunThrows(t)
        \/ CancelRead(t) \/ Resume(t)
    \/ CancelWrite \/ ResumeEnds

Spec == Init /\ [][Next]_vars
-----------------------------------------------------------------------------
TypeOK ==
    /\ store \in [Task -> Stored \cup {None}]
    /\ worker \in [Task -> [pc: {"rest", "start", "wait", "close", "end"}, run: Nat,
                            result: {None, "completed", "failed", "cancelled", "task_timeout"}]]
    /\ live \subseteq Task \X Nat

\* The reference for the validator: some task reaches itself.
Reaches(t) ==
    LET step[S \in SUBSET Task] ==
            LET more == S \cup UNION {deps[u] : u \in S} IN IF more = S THEN S ELSE step[more]
    IN step[deps[t]]

(* A graph is refused exactly when it has a cycle or two tasks that may    *)
(* run together claim the same files; of a graph that runs, every agent    *)
(* starts after the agents of all its dependencies, direct or not,         *)
(* returned a result, and agents that are waited for together never own    *)
(* the same files.                                                         *)
UpstreamFirst ==
    /\ dag.pc = "rejected" =>
        \/ \E t \in Task: t \in Reaches(t)
        \/ \E t, u \in Task: t # u /\ Conflict(t, u) /\ t \notin Reaches(u) /\ u \notin Reaches(t)
    /\ dag.pc \notin {"idle", "rejected"} =>
        /\ \A t \in Task: t \notin Reaches(t)
        /\ \A t \in Active: Reaches(t) \subseteq passed
        /\ \A t, u \in Active: t # u => ~ Conflict(t, u)

(* A graph run that returns leaves every task in a final state that agrees *)
(* with what its agent did, however it ended: completed with a result,     *)
(* skipped below one that is not completed, and no task pending or         *)
(* running; "completed" as a whole means that every agent returned one.    *)
(* Tasks an operator cancelled or resumed meanwhile are not covered.       *)
FinalizedCleanly ==
    dag.pc = "done" =>
        /\ Overall(dag.mem, dag.aborted) = "completed" => passed = Task
        /\ \A t \in Task \ touched:
            /\ store[t].status = dag.mem[t]
            /\ store[t].status \in Terminal \cup {"skipped"}
            /\ store[t].status = "completed" => t \in passed
            /\ store[t].status = "skipped" => \E d \in Reaches(t): d \notin passed \/ dag.mem[d] # "completed"
=============================================================================
