----------------------------- MODULE MapReduce -----------------------------
(***************************************************************************)
(* The MapReduce coordinator (mr/coordinator.go, main/mrcoordinator.go) and *)
(* its workers (mr/worker.go).                                             *)
(*                                                                         *)
(* The coordinator's three entry points hold c.Mutex throughout, so each   *)
(* is one step.  Workers call RequestTask and UpdateTaskStatus; Done is    *)
(* polled once a second and is also where tasks time out.                  *)
(*                                                                         *)
(* Data: what a Map call emits is represented by the task that emitted it, *)
(* so IntermediateResults counts, for each map task, how often its output  *)
(* was added; Parts[m] are the partitions the keys of m's output hash to.  *)
(* Between map and reduce the records are lines "key value" of a text file,*)
(* and Text says how they come back from there (toKeyValue).               *)
(***************************************************************************)
EXTENDS Naturals, Sequences, FiniteSets

CONSTANTS MapTasks,      \* the map tasks
          MapOrder,      \* the sequence in which the files were given
          Partitions,    \* the partitions 0..nReduce-1; p is also reduce task p
          Parts,         \* Parts[m]: the partitions m's output falls into
          Text,          \* Text[m][p]: how m's records in p come back from their lines
          Workers,       \* worker process ids, all different
          NoWorker,      \* AssignedWorkerId -1
          NoTask,        \* the empty Task of a RequestTask that found nothing
          RetryLimit,    \* setSkippedIfApplicable's 10
          MayCrash,      \* the workers that may be killed
          Copying,       \* the workers run from a directory that is not the output's
          SlowWorkers,   \* TRUE: a live worker may take more than 5 seconds
          MaxErrors      \* bound on the file errors of the coordinator and the workers

TaskIds == MapTasks \cup Partitions

\* toKeyValue keeps the first two words of a line: "cut" if some key or value
\* has a space, "bad" if some line has none, having lost the rest of its record
\* to the next line: toKeyValue panics.
Texts == {"whole", "cut", "bad"}

ASSUME TaskAssumption ==
    /\ MapTasks \cap Partitions = {}
    /\ MapOrder \in Seq(MapTasks)
    /\ \A m \in MapTasks : \E i \in DOMAIN MapOrder : MapOrder[i] = m
    /\ \A i, j \in DOMAIN MapOrder : MapOrder[i] = MapOrder[j] => i = j
    /\ Parts \in [MapTasks -> SUBSET Partitions]
    /\ Text \in [MapTasks -> [Partitions -> Texts]]
ASSUME WorkerAssumption ==
    /\ NoWorker \notin Workers /\ NoTask \notin TaskIds
    /\ MayCrash \subseteq Workers /\ Copying \subseteq Workers
    /\ IsFiniteSet(Partitions)
    /\ RetryLimit \in Nat /\ MaxErrors \in Nat /\ SlowWorkers \in BOOLEAN

VARIABLES
    \* Coordinator
    Tasks,               \* the task list, as the sequence of its Ids
    Status,              \* the fields of a Task, by Id
    AssignedWorkerId,
    Retries,
    IntermediateResults, \* IntermediateResults[m]: times m's output was added
    IsReduceGenerated,
    pfile,               \* pfile[p][m]: times m's output is in the file p-<p>
    short,               \* the p whose file store() did not write, or not to its end
    coord,               \* main: "polling" Done, "done" (its last second), "exited"
    \* Workers and the files they write
    worker,              \* worker[w]: where worker w is, and in which task
    out,                 \* out[p]: the file mr-out-<p>
    dup,                 \* dup[p]: its copy in the workers' directory
    \* Histories and bounds
    gaveUp,              \* the tasks Done ever skipped
    overrun,             \* the reduce tasks Done ever took from a worker still at them
    lost,                \* lost[p]: the files of p whose errors the worker that
                         \* completed p ignored: "out", "dup"
    errors               \* file errors so far

coordVars == <<Tasks, Status, AssignedWorkerId, Retries, IntermediateResults,
               IsReduceGenerated, pfile, short, coord, gaveUp, overrun, lost>>
vars == <<Tasks, Status, AssignedWorkerId, Retries, IntermediateResults,
          IsReduceGenerated, pfile, short, coord, worker, out, dup, gaveUp, overrun,
          lost, errors>>

\* Task.Status; the code spells the first two "not started" and "in progress".
Statuses  == {"notStarted", "inProgress", "completed", "skipped"}
Finished  == {"completed", "skipped"}
\* "other" is a complete file made from records that were cut or missing.
FileState == {"absent", "partial", "full", "other"}
\* "idle": about to call RequestTask; "reported" is not a state, the worker
\* sleeps and is idle again.
WorkerSt  == {"idle", "running", "writing", "written", "copying", "completed",
              "failed", "dead"}

IdleWorker == [st |-> "idle", task |-> NoTask, retries |-> 0,
               fresh |-> FALSE, data |-> "absent", lost |-> {}]

\* MakeCoordinator: map tasks only, and the files of earlier jobs removed.
Init ==
    /\ Tasks = MapOrder
    /\ Status = [t \in TaskIds |-> "notStarted"]
    /\ AssignedWorkerId = [t \in TaskIds |-> NoWorker]
    /\ Retries = [t \in TaskIds |-> 0]
    /\ IntermediateResults = [m \in MapTasks |-> 0]
    /\ IsReduceGenerated = FALSE
    /\ pfile = [p \in Partitions |-> [m \in MapTasks |-> 0]]
    /\ short = {}
    /\ coord = "polling"
    /\ worker = [w \in Workers |-> IdleWorker]
    /\ out = [p \in Partitions |-> "absent"]
    /\ dup = [p \in Partitions |-> "absent"]
    /\ gaveUp = {}
    /\ overrun = {}
    /\ lost = [p \in Partitions |-> {}]
    /\ errors = 0

Listed(t) == \E i \in DOMAIN Tasks : Tasks[i] = t

-----------------------------------------------------------------------------
\* RequestTask: the first task nobody has.

Available(t) == Status[t] = "notStarted" /\ AssignedWorkerId[t] = NoWorker

FirstAvailable(i) ==
    /\ i \in DOMAIN Tasks
    /\ Available(Tasks[i])
    /\ \A j \in 1..(i - 1) : ~Available(Tasks[j])

\* A worker's RequestTask that finds a task.  One that finds none changes
\* nothing: the worker sleeps and asks again.
RequestTask(w) ==
    /\ coord # "exited"
    /\ worker[w].st = "idle"
    /\ \E i \in DOMAIN Tasks :
          LET t == Tasks[i] IN
          /\ FirstAvailable(i)
          /\ Status' = [Status EXCEPT ![t] = "inProgress"]
          /\ AssignedWorkerId' = [AssignedWorkerId EXCEPT ![t] = w]
          /\ worker' = [worker EXCEPT ![w] =
                           [IdleWorker EXCEPT !.st = "running", !.task = t,
                                              !.retries = Retries[t]]]
    /\ UNCHANGED <<Tasks, Retries, IntermediateResults, IsReduceGenerated, pfile, short,
                   coord, out, dup, gaveUp, overrun, lost, errors>>

-----------------------------------------------------------------------------
\* UpdateTaskStatus, with generateReduceTasksIfApplicable at its end.

\* Mutant: a map task somebody works on counts as done.
AllMappingStarted(status) == \A m \in MapTasks : status[m] # "notStarted"

AllMappingDone(status) == \A m \in MapTasks : status[m] \in Finished

\* shuffle makes a partition only where some record hashes to it.
Shuffled(inter) == {p \in Partitions : \E m \in MapTasks : inter[m] > 0 /\ p \in Parts[m]}

\* shuffle and store: a partition's file gets the records that hash to it, unless
\* it could not be created or written, which store does not look at.
PartitionFiles(inter, unwritten) ==
    [p \in Partitions |-> [m \in MapTasks |->
        IF p \in Parts[m] /\ p \notin unwritten THEN inter[m] ELSE 0]]

\* initializeReduceTasks ranges over a Go map: the tasks come in any order.
Orders(S) == {s \in [1..Cardinality(S) -> S] :
                 \A i, j \in 1..Cardinality(S) : s[i] = s[j] => i = j}

GenerateReduceTasks(status, inter) ==
    IF ~IsReduceGenerated /\ AllMappingDone(status)
    THEN /\ IsReduceGenerated' = TRUE
         /\ \E unwritten \in SUBSET Shuffled(inter) :
               /\ errors + Cardinality(unwritten) <= MaxErrors
               /\ errors' = errors + Cardinality(unwritten)
               /\ short' = unwritten
               /\ pfile' = PartitionFiles(inter, unwritten)
         /\ \E order \in Orders(Shuffled(inter)) : Tasks' = Tasks \o order
         /\ IntermediateResults' = [m \in MapTasks |-> 0]
    ELSE /\ IntermediateResults' = inter
         /\ UNCHANGED <<IsReduceGenerated, pfile, short, Tasks, errors>>

\* Mutant: the reporting worker's id is not compared.
UpdateTaskStatusOfAnyone(t, status, id, emitted, retries) ==
    LET status1 == [Status EXCEPT ![t] = status]
        inter   == IF emitted
                   THEN [IntermediateResults EXCEPT ![t] = @ + 1]
                   ELSE IntermediateResults
    IN /\ Status' = status1
       /\ Retries' = [Retries EXCEPT ![t] = retries]
       /\ GenerateReduceTasks(status1, inter)
       /\ UNCHANGED <<AssignedWorkerId, coord, gaveUp, overrun>>

\* The report under this id is about the task as it is assigned now.
Matches(t, id) == Listed(t) /\ AssignedWorkerId[t] = id

\* t is t.Id, by the worker the caller says it is assigned to.
UpdateTaskStatus(t, status, id, emitted, retries) ==
    LET match   == Matches(t, id)
        status1 == IF match THEN [Status EXCEPT ![t] = status] ELSE Status
        inter   == IF match /\ emitted
                   THEN [IntermediateResults EXCEPT ![t] = @ + 1]
                   ELSE IntermediateResults
    IN /\ Status' = status1
       /\ Retries' = IF match THEN [Retries EXCEPT ![t] = retries] ELSE Retries
       /\ GenerateReduceTasks(status1, inter)
       /\ UNCHANGED <<AssignedWorkerId, coord, gaveUp, overrun>>

\* The worker reports success under its own id.
ReportCompleted(w) ==
    /\ coord # "exited"
    /\ worker[w].st = "completed"
    /\ UpdateTaskStatus(worker[w].task, "completed", w,
                        worker[w].task \in MapTasks, worker[w].retries)
    /\ worker' = [worker EXCEPT ![w] = IdleWorker]
    /\ lost' = [p \in Partitions |-> IF p = worker[w].task /\ Matches(p, w)
                                     THEN worker[w].lost ELSE lost[p]]
    /\ UNCHANGED <<out, dup>>

\* The worker reports a failure under id -1: a task that is still in progress
\* does not match, only one that Done has taken away from its worker does.
ReportFailed(w) ==
    /\ coord # "exited"
    /\ worker[w].st = "failed"
    /\ UpdateTaskStatus(worker[w].task, "notStarted", NoWorker, FALSE,
                        worker[w].retries + 1)
    /\ worker' = [worker EXCEPT ![w] = IdleWorker]
    /\ UNCHANGED <<out, dup, lost>>

-----------------------------------------------------------------------------
\* Done, polled by main: give up on tasks tried too often, take back the first
\* unfinished one if its time is over, and stop at it.

Skippable(t) == Status[t] = "inProgress" /\ Retries[t] > RetryLimit

\* Mutant: Done waits only for tasks nobody has.
StopsAtNotStarted(i) ==
    /\ i \in DOMAIN Tasks
    /\ Status[Tasks[i]] = "notStarted"
    /\ \A j \in 1..(i - 1) : Status[Tasks[j]] # "notStarted"

\* The index at which the loop of Done returns false.
StopsAt(i) ==
    /\ i \in DOMAIN Tasks
    /\ Status[Tasks[i]] \notin Finished /\ ~Skippable(Tasks[i])
    /\ \A j \in 1..(i - 1) : Status[Tasks[j]] \in Finished \/ Skippable(Tasks[j])

\* The tasks the loop skips on its way to index n.
SkippedBefore(n) == {t \in TaskIds : \E j \in 1..(n - 1) : Tasks[j] = t /\ Skippable(t)}

\* Some worker that is not dead is still at task t.
AtWork(t) == \E w \in Workers : worker[w].task = t /\ worker[w].st # "dead"

\* The 5 seconds of a task can be over at any time, but without slow workers
\* only for a task whose worker died or reported a failure that was ignored.
MayExpire(t) == Status[t] = "inProgress" /\ (SlowWorkers \/ ~AtWork(t))

\* Mutant: the retries are counted down.
SettleCountingDown(S, E) ==
    /\ Status' = [t \in TaskIds |-> IF t \in S THEN "skipped"
                                    ELSE IF t \in E THEN "notStarted"
                                    ELSE Status[t]]
    /\ AssignedWorkerId' = [t \in TaskIds |-> IF t \in S \cup E THEN NoWorker
                                              ELSE AssignedWorkerId[t]]
    /\ Retries' = [t \in TaskIds |-> IF t \in E THEN Retries[t] - 1 ELSE Retries[t]]
    /\ gaveUp' = gaveUp \cup S


\* The effect of the loop: S is skipped, E (at most one task) taken back.
Settle(S, E) ==
    /\ Status' = [t \in TaskIds |-> IF t \in S THEN "skipped"
                                    ELSE IF t \in E THEN "notStarted"
                                    ELSE Status[t]]
    /\ AssignedWorkerId' = [t \in TaskIds |-> IF t \in S \cup E THEN NoWorker
                                              ELSE AssignedWorkerId[t]]
    /\ Retries' = [t \in TaskIds |-> IF t \in E THEN Retries[t] + 1 ELSE Retries[t]]
    /\ gaveUp' = gaveUp \cup S

\* Done returns false at index i; nothing has timed out.
DoneFalse(i) ==
    /\ coord = "polling"
    /\ StopsAt(i)
    /\ Settle(SkippedBefore(i), {})
    /\ UNCHANGED <<Tasks, IntermediateResults, IsReduceGenerated, pfile, short, coord,
                   worker, out, dup, overrun, lost, errors>>

\* Done returns false at index i, whose task has timed out.
DoneTimeout(i) ==
    /\ coord = "polling"
    /\ StopsAt(i)
    /\ MayExpire(Tasks[i])
    /\ Settle(SkippedBefore(i), {Tasks[i]})
    /\ overrun' = overrun \cup {p \in Partitions : p = Tasks[i] /\ AtWork(p)}
    /\ UNCHANGED <<Tasks, IntermediateResults, IsReduceGenerated, pfile, short, coord,
                   worker, out, dup, lost, errors>>

\* Done returns true and main leaves its loop.
DoneTrue ==
    /\ coord = "polling"
    /\ \A i \in DOMAIN Tasks : ~StopsAt(i)
    /\ Settle(SkippedBefore(Len(Tasks) + 1), {})
    /\ coord' = "done"
    /\ UNCHANGED <<Tasks, IntermediateResults, IsReduceGenerated, pfile, short, worker,
                   out, dup, overrun, lost, errors>>

\* main returns after one more second; until then RPCs are served.
Exit ==
    /\ coord = "done"
    /\ coord' = "exited"
    /\ UNCHANGED <<Tasks, Status, AssignedWorkerId, Retries, IntermediateResults,
                   IsReduceGenerated, pfile, short, worker, out, dup, gaveUp, overrun,
                   lost, errors>>

-----------------------------------------------------------------------------
\* The worker between its two calls.

Goto(w, st) == worker' = [worker EXCEPT ![w].st = st]

\* The worker goes on although it could not write these files.
GotoWithout(w, st, files) ==
    worker' = [worker EXCEPT ![w].st = st, ![w].lost = @ \cup files]

\* One more call of the file system returns an error.
FileError == errors < MaxErrors /\ errors' = errors + 1

\* executeMapf: the mr-<i> files it writes are never read, nor their errors.
ExecuteMap(w) ==
    /\ worker[w].st = "running"
    /\ worker[w].task \in MapTasks
    /\ Goto(w, "completed")
    /\ UNCHANGED coordVars
    /\ UNCHANGED <<out, dup, errors>>

\* The file executeMapf or executeReducef reads cannot be read.
ExecuteFails(w) ==
    /\ worker[w].st = "running"
    /\ FileError
    /\ Goto(w, "failed")
    /\ UNCHANGED coordVars
    /\ UNCHANGED <<out, dup>>

\* Some line of p's file has no space.
HasBadLine(p) == \E m \in MapTasks : pfile[p][m] > 0 /\ Text[m][p] = "bad"

\* toKeyValue panics on a line without a space, which an empty or truncated file
\* may end in as well, and the worker process is gone.
ReducePanics(w) ==
    /\ worker[w].st = "running"
    /\ worker[w].task \in Partitions
    /\ worker[w].task \in short \/ HasBadLine(worker[w].task)
    /\ Goto(w, "dead")
    /\ UNCHANGED coordVars
    /\ UNCHANGED <<out, dup, errors>>

\* executeReducef up to os.Create, which empties a file another worker may have
\* written or be writing: that worker's later lines leave a hole.
ReduceCreate(w) ==
    LET p == worker[w].task IN
    /\ worker[w].st = "running"
    /\ p \in Partitions
    /\ ~HasBadLine(p)
    /\ out' = [out EXCEPT ![p] = "partial"]
    /\ worker' = [v \in Workers |->
                     IF v = w THEN [worker[w] EXCEPT !.st = "writing", !.fresh = TRUE]
                     ELSE IF worker[v].task = p THEN [worker[v] EXCEPT !.fresh = FALSE]
                     ELSE worker[v]]
    /\ UNCHANGED coordVars
    /\ UNCHANGED <<dup, errors>>

\* os.Create fails; the lines go to a nil file, whose errors are ignored too.
CreateFails(w) ==
    LET p == worker[w].task IN
    /\ worker[w].st = "running"
    /\ p \in Partitions
    /\ ~HasBadLine(p)
    /\ FileError
    /\ GotoWithout(w, "writing", {"out", "dup"})
    /\ UNCHANGED coordVars
    /\ UNCHANGED <<out, dup>>

\* What the reduce of p writes, from the records as they were read.
Output(p) ==
    IF p \in short \/ \E m \in MapTasks : pfile[p][m] > 0 /\ Text[m][p] # "whole"
    THEN "other" ELSE "full"

\* The loop of executeReducef has written its last line.
ReduceWrite(w) ==
    LET p == worker[w].task IN
    /\ worker[w].st = "writing"
    /\ out' = IF worker[w].fresh THEN [out EXCEPT ![p] = Output(p)] ELSE out
    /\ Goto(w, "written")
    /\ UNCHANGED coordVars
    /\ UNCHANGED <<dup, errors>>

\* Some line could not be written, which the loop does not look at.
WriteFails(w) ==
    /\ worker[w].st = "writing"
    /\ FileError
    /\ GotoWithout(w, "written", {"out", "dup"})
    /\ UNCHANGED coordVars
    /\ UNCHANGED <<out, dup>>

\* copyToWorkerInitDir reads the file and empties the copy ...
CopyRead(w) ==
    LET p == worker[w].task IN
    /\ worker[w].st = "written"
    /\ w \in Copying
    /\ out[p] # "absent"
    /\ worker' = [worker EXCEPT ![w].st = "copying", ![w].data = out[p]]
    /\ dup' = [dup EXCEPT ![p] = "partial"]
    /\ UNCHANGED coordVars
    /\ UNCHANGED <<out, errors>>

\* ... and writes what it read.
CopyWrite(w) ==
    LET p == worker[w].task IN
    /\ worker[w].st = "copying"
    /\ dup' = IF worker[w].data # "partial" THEN [dup EXCEPT ![p] = worker[w].data] ELSE dup
    /\ Goto(w, "completed")
    /\ UNCHANGED coordVars
    /\ UNCHANGED <<out, errors>>

\* There is nothing to copy: the worker runs in the output directory, or does
\* not know where it runs.
CopyReturns(w) ==
    /\ worker[w].st = "written"
    /\ w \notin Copying
    /\ GotoWithout(w, "completed", {"dup"})
    /\ UNCHANGED coordVars
    /\ UNCHANGED <<out, dup, errors>>

\* The file is not there or cannot be read, or its copy not be opened or written:
\* logged, and the task is completed nevertheless.
CopyFails(w) ==
    /\ w \in Copying
    /\ \/ worker[w].st = "written" /\ out[worker[w].task] = "absent" /\ UNCHANGED errors
       \/ worker[w].st \in {"written", "copying"} /\ FileError
    /\ GotoWithout(w, "completed", {"dup"})
    /\ UNCHANGED coordVars
    /\ UNCHANGED <<out, dup>>

\* A worker is killed; or it calls a coordinator that is gone (log.Fatal).
Die(w) ==
    /\ worker[w].st # "dead"
    /\ \/ w \in MayCrash
       \/ coord = "exited" /\ worker[w].st \in {"idle", "completed", "failed"}
    /\ Goto(w, "dead")
    /\ UNCHANGED coordVars
    /\ UNCHANGED <<out, dup, errors>>

WorkerStep(w) ==
    \/ RequestTask(w) \/ ReportCompleted(w) \/ ReportFailed(w)
    \/ ExecuteMap(w) \/ ExecuteFails(w)
    \/ ReducePanics(w) \/ ReduceCreate(w) \/ CreateFails(w) \/ ReduceWrite(w) \/ WriteFails(w)
    \/ CopyRead(w) \/ CopyWrite(w) \/ CopyReturns(w) \/ CopyFails(w)

Next ==
    \/ \E w \in Workers : WorkerStep(w) \/ Die(w)
    \/ \E i \in DOMAIN Tasks : DoneFalse(i) \/ DoneTimeout(i)
    \/ DoneTrue
    \/ Exit

Spec == Init /\ [][Next]_vars

\* Workers that are not killed keep going, Done is called every second, and a
\* task that stays in progress gets older than 5 seconds.
Fairness ==
    /\ \A w \in Workers : WF_vars(WorkerStep(w))
    /\ WF_vars(\E i \in DOMAIN Tasks : DoneFalse(i))
    /\ WF_vars(\E i \in DOMAIN Tasks : DoneTimeout(i))
    /\ WF_vars(DoneTrue)
    /\ WF_vars(Exit)

FairSpec == Spec /\ Fairness

-----------------------------------------------------------------------------
TypeOK ==
    /\ Tasks \in Seq(TaskIds)
    /\ Status \in [TaskIds -> Statuses]
    /\ AssignedWorkerId \in [TaskIds -> Workers \cup {NoWorker}]
    /\ Retries \in [TaskIds -> Nat]
    /\ IntermediateResults \in [MapTasks -> Nat]
    /\ IsReduceGenerated \in BOOLEAN
    /\ pfile \in [Partitions -> [MapTasks -> Nat]]
    /\ short \subseteq Partitions
    /\ coord \in {"polling", "done", "exited"}
    /\ worker \in [Workers -> [st : WorkerSt, task : TaskIds \cup {NoTask},
                               retries : Nat, fresh : BOOLEAN, data : FileState,
                               lost : SUBSET {"out", "dup"}]]
    /\ out \in [Partitions -> FileState]
    /\ dup \in [Partitions -> FileState]
    /\ gaveUp \subseteq TaskIds
    /\ overrun \subseteq Partitions
    /\ lost \in [Partitions -> SUBSET {"out", "dup"}]
    /\ errors \in 0..MaxErrors

\* The output of a map task is counted exactly once if the task completes, and
\* not at all otherwise, although timed-out workers go on and report later
\* (UpdateTaskStatus); every reduce input has the output of every map task that
\* was not given up on, once, unless it could not be written (shuffle, store).
EveryMapCountedOnce ==
    /\ ~IsReduceGenerated =>
          \A m \in MapTasks :
              IntermediateResults[m] = IF Status[m] = "completed" THEN 1 ELSE 0
    /\ IsReduceGenerated =>
          \A m \in MapTasks : \A p \in Parts[m] :
              \/ pfile[p][m] = 1 /\ Listed(p)
              \/ pfile[p][m] = 0 /\ m \in gaveUp
              \/ pfile[p][m] = 0 /\ p \in short /\ Listed(p)

\* No step takes a completed task back: neither a late report of an earlier
\* worker, nor a failure report under id -1, nor a time-out.
CompletedIsFinal ==
    [][\A t \in TaskIds : Status[t] = "completed" => Status'[t] = "completed"]_vars

\* When Done has returned true and no map task was given up on, a partition that
\* some map task wrote to has every map task's output exactly once, a complete
\* output file and a complete copy, and nobody is changing them any more: what
\* mrsequential would have written.  Not so, in this code, if the reduce task was
\* given up on or taken from a worker that goes on writing, if its input could
\* not be stored or does not survive as text, and for the files whose errors the
\* worker that completed the task has ignored; these are the only exceptions,
\* and they stay with the partition and the file they happened to.
OutputIsComplete ==
    coord # "polling" /\ gaveUp \cap MapTasks = {} =>
        \A m \in MapTasks : \A p \in Parts[m] \ (gaveUp \cup overrun \cup short) :
            /\ pfile[p][m] = 1
            /\ (\A n \in MapTasks : Text[n][p] = "whole") =>
                  /\ "out" \notin lost[p] => out[p] = "full"
                  /\ "dup" \notin lost[p] => dup[p] = "full"

\* A reduce task never starts from a file that is still to be written: all map
\* tasks are finished, and stay so, unless a given-up task is revived.
ReduceAfterMaps ==
    \A w \in Workers :
        worker[w].task \in Partitions =>
            \A m \in MapTasks : Status[m] \in Finished \/ m \in gaveUp


\* The coordinator exits only after the output has been produced: TestEarlyExit.
ExitsAfterReduce == coord = "exited" => IsReduceGenerated
=============================================================================
