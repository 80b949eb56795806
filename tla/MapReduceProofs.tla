-------------------------- MODULE MapReduceProofs --------------------------
(***************************************************************************)
(* The coordinator counts every map task's output once and starts reduce   *)
(* tasks from finished ones only, for any number of files, partitions and  *)
(* workers, with workers that are slow, fail, panic and are killed; and it *)
(* ends with complete output files, but for the partitions and files that  *)
(* were disturbed in one of the ways OutputIsComplete names.               *)
(*                                                                         *)
(* The invariant rests on what AssignedWorkerId means.  A task has one as  *)
(* long as it is in progress or completed, and a worker busy with a task   *)
(* that is still assigned to it is the one the coordinator waits for:      *)
(* whoever reports a completed task was not the one that completed it.     *)
(***************************************************************************)
EXTENDS MapReduce, FiniteSetTheorems, WellFoundedInduction, TLAPS

WorkerRecord == [st : WorkerSt, task : TaskIds \cup {NoTask}, retries : Nat,
                 fresh : BOOLEAN, data : FileState, lost : SUBSET {"out", "dup"}]

\* Between RequestTask and the report.
Busy(w) == worker[w].st \notin {"idle", "dead"}

\* A task is assigned while it is in progress and once it is completed; a
\* skipped one was given up on.
Assignment ==
    \A t \in TaskIds :
        /\ Status[t] \in {"inProgress", "completed"} <=> AssignedWorkerId[t] # NoWorker
        /\ Status[t] = "skipped" => t \in gaveUp

\* A busy worker has a task, and the coordinator waits for the worker the task
\* is assigned to.
Currency ==
    \A w \in Workers :
        /\ worker[w].st = "idle" => worker[w].task = NoTask
        /\ Busy(w) =>
              /\ worker[w].task \in TaskIds
              /\ AssignedWorkerId[worker[w].task] = w =>
                    Status[worker[w].task] = "inProgress"
        /\ worker[w].task \in Partitions => IsReduceGenerated
        /\ worker[w].st \in {"writing", "written", "copying"} =>
              worker[w].task \in Partitions

\* The map tasks are listed from the start; the reduce tasks are once every map
\* task was finished.
Listing ==
    /\ \A m \in MapTasks : Listed(m)
    /\ ~IsReduceGenerated => \A p \in Partitions : ~Listed(p)
    /\ IsReduceGenerated =>
          \A m \in MapTasks : Status[m] = "completed" \/ m \in gaveUp

IInv ==
    /\ TypeOK
    /\ Assignment
    /\ Currency
    /\ Listing
    /\ EveryMapCountedOnce

-----------------------------------------------------------------------------
\* What the output files rest on.

\* Done has neither given up on p nor taken it from a worker still at it.
Undisturbed(p) == p \notin gaveUp \cup overrun

\* Then at most one worker is busy with p, the one it is assigned to.
OneWorker ==
    \A w \in Workers :
        Busy(w) /\ worker[w].task \in Partitions /\ Undisturbed(worker[w].task) =>
            AssignedWorkerId[worker[w].task] = w

\* What is in the files of the reduce task of w, by where w is.
FilesOf(w) ==
    Busy(w) /\ worker[w].task \in Partitions /\ Undisturbed(worker[w].task) =>
        LET p == worker[w].task IN
        /\ "out" \in worker[w].lost => "dup" \in worker[w].lost
        /\ "out" \notin worker[w].lost =>
              /\ worker[w].st = "writing" => worker[w].fresh
              /\ worker[w].st \in {"written", "copying", "completed"} => out[p] = Output(p)
        /\ "dup" \notin worker[w].lost =>
              /\ worker[w].st = "copying" => worker[w].data = Output(p)
              /\ worker[w].st = "completed" => dup[p] = Output(p)

\* What is in the files of a completed reduce task.
FilesDone(p) ==
    Status[p] = "completed" =>
        /\ IsReduceGenerated
        /\ Undisturbed(p) => /\ "out" \notin lost[p] => out[p] = Output(p)
                             /\ "dup" \notin lost[p] => dup[p] = Output(p)

Files == (\A w \in Workers : FilesOf(w)) /\ (\A p \in Partitions : FilesDone(p))

\* The last map task to complete brings the reduce tasks, and if Done answers
\* true every listed task is completed or was given up on.
Ending ==
    MapTasks # {} =>
        /\ (\A m \in MapTasks : Status[m] = "completed") => IsReduceGenerated
        /\ coord # "polling" /\ gaveUp \cap MapTasks = {} =>
              \A i \in DOMAIN Tasks : Status[Tasks[i]] = "completed" \/ Tasks[i] \in gaveUp

OutputInv == OneWorker /\ Files /\ Ending

-----------------------------------------------------------------------------
\* A set of naturals that is not empty has a smallest element.
LEMMA Smallest ==
    ASSUME NEW T, T \subseteq Nat, T # {}
    PROVE  \E x \in T : \A y \in T : ~(y < x)
  <1> DEFINE R == {ss \in Nat \X Nat : ss[1] < ss[2]}
  <1>1. IsWellFoundedOn(R, Nat)
    BY NatLessThanWellFounded, Zenon DEF OpToRel
  <1>2. PICK x \in T : \A y \in T : ~(<<y, x>> \in R)
    <2> HIDE DEF R
    <2> QED BY <1>1, WFMin
  <1> QED BY <1>2

\* initializeReduceTasks makes a task of every partition there is.
LEMMA OrdersOnto ==
    ASSUME NEW S, IsFiniteSet(S), NEW s \in Orders(S)
    PROVE  /\ s \in Seq(S)
           /\ \A x \in S : \E i \in DOMAIN s : s[i] = x
  <1>1. Cardinality(S) \in Nat
    BY FS_CardinalityType
  <1>2. Cardinality(1..Cardinality(S)) = Cardinality(S)
    BY <1>1, FS_Interval
  <1>3. /\ s \in [1..Cardinality(S) -> S]
        /\ s \in Injection(1..Cardinality(S), S)
    BY DEF Orders, Injection, IsInjective
  <1>4. s \in Surjection(1..Cardinality(S), S)
    BY <1>2, <1>3, FS_Injection
  <1>5. s \in Seq(S)
    BY <1>1, <1>3
  <1> QED BY <1>3, <1>4, <1>5 DEF Surjection

\* Every partition some record hashes to is listed after the reduce tasks were
\* appended, and nothing that was listed is lost.
LEMMA AppendedTasks ==
    ASSUME Tasks \in Seq(TaskIds), NEW S \in SUBSET Partitions, NEW order \in Orders(S),
           Tasks' = Tasks \o order
    PROVE  /\ Tasks' \in Seq(TaskIds)
           /\ \A p \in S : Listed(p)'
           /\ \A t \in TaskIds : Listed(t) => Listed(t)'
  <1>1. IsFiniteSet(S)
    BY WorkerAssumption, FS_Subset
  <1>2. order \in Seq(S) /\ \A x \in S : \E i \in DOMAIN order : order[i] = x
    BY <1>1, OrdersOnto
  <1>3. order \in Seq(TaskIds)
    BY <1>2 DEF TaskIds
  <1>4. /\ Tasks' \in Seq(TaskIds) /\ Len(Tasks') = Len(Tasks) + Len(order)
        /\ \A i \in DOMAIN Tasks : i \in DOMAIN Tasks' /\ Tasks'[i] = Tasks[i]
        /\ \A i \in DOMAIN order :
              Len(Tasks) + i \in DOMAIN Tasks' /\ Tasks'[Len(Tasks) + i] = order[i]
    BY <1>3
  <1> QED BY <1>2, <1>4 DEF Listed

-----------------------------------------------------------------------------
\* UpdateTaskStatus, called by the worker id with a success, which carries the
\* output of a map task, or under NoWorker with a failure.
Report(t, id, retries) ==
    \/ id \in Workers /\ UpdateTaskStatus(t, "completed", id, t \in MapTasks, retries)
    \/ id = NoWorker /\ UpdateTaskStatus(t, "notStarted", id, FALSE, retries)

Outcome(id) == IF id = NoWorker THEN "notStarted" ELSE "completed"

\* What a report does to the coordinator, if a worker that is still the one the
\* task is assigned to is awaited.
LEMMA ReportStep ==
    ASSUME IInv, NEW t, NEW id, NEW retries \in Nat, Report(t, id, retries),
           id \in Workers /\ AssignedWorkerId[t] = id => Status[t] = "inProgress"
    PROVE  /\ Tasks' \in Seq(TaskIds) /\ Status' \in [TaskIds -> Statuses]
           /\ Retries' \in [TaskIds -> Nat]
           /\ IntermediateResults' \in [MapTasks -> Nat]
           /\ IsReduceGenerated' \in BOOLEAN
           /\ pfile' \in [Partitions -> [MapTasks -> Nat]]
           /\ short' \subseteq Partitions /\ errors' \in 0..MaxErrors
           /\ UNCHANGED <<AssignedWorkerId, coord, gaveUp, overrun>>
           /\ Assignment' /\ Listing' /\ EveryMapCountedOnce'
           /\ IsReduceGenerated => IsReduceGenerated' /\ UNCHANGED <<Tasks, pfile, short>>
           /\ \A x \in TaskIds :
                 \/ Status'[x] = Status[x]
                 \/ x = t /\ Status'[x] = Outcome(id) /\ AssignedWorkerId[x] = id
           /\ ~IsReduceGenerated' => ~AllMappingDone(Status')
           /\ t \in TaskIds /\ Listed(t) /\ AssignedWorkerId[t] = id => Status'[t] = Outcome(id)
  <1> DEFINE hit     == Listed(t) /\ AssignedWorkerId[t] = id
             status1 == IF hit THEN [Status EXCEPT ![t] = Outcome(id)] ELSE Status
             added   == IF hit /\ id # NoWorker /\ t \in MapTasks
                        THEN [IntermediateResults EXCEPT ![t] = @ + 1]
                        ELSE IntermediateResults
  <1>1. /\ TypeOK /\ Assignment /\ Currency /\ Listing /\ EveryMapCountedOnce
        /\ MapTasks \subseteq TaskIds /\ Partitions \subseteq TaskIds
        /\ NoWorker \notin Workers
    BY WorkerAssumption DEF IInv, TaskIds
  <1>2. /\ Status' = status1 /\ GenerateReduceTasks(status1, added)
        /\ Retries' = IF hit THEN [Retries EXCEPT ![t] = retries] ELSE Retries
        /\ UNCHANGED <<AssignedWorkerId, coord, gaveUp, overrun>>
    <2>1. CASE id \in Workers /\ UpdateTaskStatus(t, "completed", id, t \in MapTasks, retries)
      <3>1. id # NoWorker /\ Outcome(id) = "completed"
        BY <1>1, <2>1 DEF Outcome
      <3> QED BY <2>1, <3>1, Zenon DEF UpdateTaskStatus, Matches
    <2>2. CASE id = NoWorker /\ UpdateTaskStatus(t, "notStarted", id, FALSE, retries)
      <3>1. Outcome(id) = "notStarted"
        BY <2>2 DEF Outcome
      <3> QED BY <2>2, <3>1, Zenon DEF UpdateTaskStatus, Matches
    <2> QED BY <2>1, <2>2 DEF Report
  <1>0. Outcome(id) \in {"completed", "notStarted"} /\ id \in Workers \cup {NoWorker}
    BY DEF Outcome, Report
  <1>3. hit => t \in TaskIds
    BY <1>1 DEF Listed, TypeOK
  <1>4. /\ status1 \in [TaskIds -> Statuses] /\ Retries' \in [TaskIds -> Nat]
        /\ Status \in [TaskIds -> Statuses]
    BY <1>0, <1>1, <1>2 DEF TypeOK, Statuses
  <1>5. /\ added \in [MapTasks -> Nat]
        /\ \A m \in MapTasks : added[m] = IF hit /\ id # NoWorker /\ m = t
                                          THEN IntermediateResults[m] + 1
                                          ELSE IntermediateResults[m]
    <2>1. IntermediateResults \in [MapTasks -> Nat]
      BY <1>1 DEF TypeOK
    <2>2. CASE hit /\ id # NoWorker /\ t \in MapTasks
      <3>1. added = [IntermediateResults EXCEPT ![t] = @ + 1]
        BY <2>2
      <3> HIDE DEF added, hit
      <3> QED BY <2>1, <2>2, <3>1
    <2>3. CASE ~(hit /\ id # NoWorker /\ t \in MapTasks)
      <3>1. added = IntermediateResults
        BY <2>3
      <3> QED BY <2>1, <2>3, <3>1
    <2> QED BY <2>2, <2>3
  <1>6. \A x \in TaskIds :
          \/ status1[x] = Status[x]
          \/ x = t /\ status1[x] = Outcome(id) /\ AssignedWorkerId[x] = id
    BY <1>4
  <1>7. hit => status1[t] = Outcome(id)
    BY <1>3, <1>4
  <1> HIDE DEF hit, status1, added
  <1>8. Assignment'
    <2> SUFFICES ASSUME NEW x \in TaskIds
                 PROVE  /\ status1[x] \in {"inProgress", "completed"}
                             <=> AssignedWorkerId[x] # NoWorker
                        /\ status1[x] = "skipped" => x \in gaveUp
      BY <1>2 DEF Assignment
    <2> QED BY <1>0, <1>1, <1>6 DEF Assignment, Outcome
  <1>9. ASSUME ~IsReduceGenerated, NEW m \in MapTasks
        PROVE  added[m] = IF status1[m] = "completed" THEN 1 ELSE 0
    <2>1. IntermediateResults[m] = IF Status[m] = "completed" THEN 1 ELSE 0
      BY <1>1, <1>9 DEF EveryMapCountedOnce
    <2>2. CASE hit /\ m = t
      <3>1. CASE id # NoWorker
        <4>1. Status[m] = "inProgress" /\ status1[m] = "completed"
          BY <1>0, <1>7, <2>2, <3>1 DEF Outcome, hit
        <4>2. IntermediateResults[m] = 0
          BY <2>1, <4>1
        <4>3. added[m] = IntermediateResults[m] + 1
          BY <1>5, <2>2, <3>1
        <4> QED BY <4>1, <4>2, <4>3
      <3>2. CASE id = NoWorker
        <4>1. Status[m] # "completed" /\ status1[m] # "completed"
          BY <1>1, <1>7, <2>2, <3>2 DEF Assignment, Outcome, hit
        <4> QED BY <1>5, <2>1, <3>2, <4>1
      <3> QED BY <3>1, <3>2
    <2>3. CASE ~(hit /\ m = t)
      <3>1. status1[m] = Status[m]
        BY <1>1, <1>3, <1>4, <2>3 DEF status1, TypeOK
      <3> QED BY <1>5, <2>1, <2>3, <3>1
    <2> QED BY <2>2, <2>3
  <1>10. CASE ~IsReduceGenerated /\ AllMappingDone(status1)
    <2>1. /\ IsReduceGenerated' = TRUE
          /\ IntermediateResults' = [m \in MapTasks |-> 0]
      BY <1>2, <1>10 DEF GenerateReduceTasks
    <2>u. PICK unwritten \in SUBSET Shuffled(added) :
            /\ errors + Cardinality(unwritten) <= MaxErrors
            /\ errors' = errors + Cardinality(unwritten)
            /\ short' = unwritten
            /\ pfile' = PartitionFiles(added, unwritten)
      BY <1>2, <1>10 DEF GenerateReduceTasks
    <2>e. short' \subseteq Partitions /\ errors' \in 0..MaxErrors
      <3>1. unwritten \subseteq Partitions
        BY DEF Shuffled
      <3>2. Cardinality(unwritten) \in Nat
        BY <3>1, WorkerAssumption, FS_Subset, FS_CardinalityType
      <3>3. errors \in 0..MaxErrors /\ MaxErrors \in Nat
        BY <1>1, WorkerAssumption DEF TypeOK
      <3> QED BY <2>u, <3>1, <3>2, <3>3
    <2>2. PICK order \in Orders(Shuffled(added)) : Tasks' = Tasks \o order
      BY <1>2, <1>10 DEF GenerateReduceTasks
    <2>3. /\ Tasks' \in Seq(TaskIds)
          /\ \A p \in Shuffled(added) : Listed(p)'
          /\ \A x \in TaskIds : Listed(x) => Listed(x)'
      <3>1. Shuffled(added) \subseteq Partitions
        BY DEF Shuffled
      <3> QED BY <1>1, <2>2, <3>1, AppendedTasks DEF TypeOK
    <2>4. /\ pfile' \in [Partitions -> [MapTasks -> Nat]]
          /\ \A m \in MapTasks : \A p \in Parts[m] :
                /\ p \in Partitions
                /\ pfile'[p][m] = IF p \in unwritten THEN 0 ELSE added[m]
      BY <1>5, <2>u, TaskAssumption DEF PartitionFiles
    <2>5. \A m \in MapTasks : status1[m] = "completed" \/ m \in gaveUp
      BY <1>1, <1>2, <1>8, <1>10 DEF AllMappingDone, Finished, Assignment
    <2>6. Listing'
      BY <1>1, <1>2, <2>1, <2>3, <2>5 DEF Listing
    <2>7. ASSUME NEW m \in MapTasks, NEW p \in Parts[m]
          PROVE  \/ pfile'[p][m] = 1 /\ Listed(p)'
                 \/ pfile'[p][m] = 0 /\ m \in gaveUp'
                 \/ pfile'[p][m] = 0 /\ p \in short' /\ Listed(p)'
      <3>0. CASE p \in unwritten
        BY <2>u, <2>3, <2>4, <3>0
      <3>1. CASE p \notin unwritten /\ status1[m] = "completed"
        <4>1. added[m] = 1
          BY <1>9, <1>10, <3>1
        <4>2. p \in Shuffled(added)
          BY <2>4, <4>1 DEF Shuffled
        <4> QED BY <2>3, <2>4, <3>1, <4>1, <4>2
      <3>2. CASE p \notin unwritten /\ status1[m] # "completed"
        BY <1>2, <1>9, <1>10, <2>4, <2>5, <3>2
      <3> QED BY <3>0, <3>1, <3>2
    <2>8. EveryMapCountedOnce'
      BY <2>1, <2>7 DEF EveryMapCountedOnce
    <2>9. IntermediateResults' \in [MapTasks -> Nat]
      BY <2>1
    <2> QED
      BY <1>2, <1>4, <1>6, <1>7, <1>8, <1>10, <2>1, <2>e, <2>3, <2>4, <2>6, <2>8,
         <2>9
      DEF hit
  <1>11. CASE ~(~IsReduceGenerated /\ AllMappingDone(status1))
    <2>1. /\ IntermediateResults' = added
          /\ UNCHANGED <<IsReduceGenerated, pfile, short, Tasks, errors>>
      BY <1>2, <1>11 DEF GenerateReduceTasks
    <2>2. \A x : Listed(x)' <=> Listed(x)
      BY <2>1 DEF Listed
    <2>3. \A m \in MapTasks : Status[m] = "completed" => status1[m] = "completed"
      BY <1>0, <1>1, <1>6 DEF Assignment, Outcome
    <2>4. Listing'
      BY <1>1, <1>2, <2>1, <2>2, <2>3 DEF Listing
    <2>5. EveryMapCountedOnce'
      <3>1. ASSUME ~IsReduceGenerated, NEW m \in MapTasks
            PROVE  IntermediateResults'[m] = IF Status'[m] = "completed" THEN 1 ELSE 0
        BY <1>2, <1>9, <2>1, <3>1
      <3>2. IsReduceGenerated =>
              \A m \in MapTasks : \A p \in Parts[m] :
                  \/ pfile'[p][m] = 1 /\ Listed(p)'
                  \/ pfile'[p][m] = 0 /\ m \in gaveUp'
                  \/ pfile'[p][m] = 0 /\ p \in short' /\ Listed(p)'
        BY <1>1, <1>2, <2>1, <2>2 DEF EveryMapCountedOnce
      <3> QED BY <2>1, <3>1, <3>2 DEF EveryMapCountedOnce
    <2> QED
      BY <1>1, <1>2, <1>4, <1>5, <1>6, <1>7, <1>8, <1>11, <2>1, <2>4, <2>5
      DEF TypeOK, hit
  <1> QED BY <1>10, <1>11

\* The facts of one worker.
LEMMA WorkerTypes ==
    ASSUME TypeOK, NEW w \in Workers
    PROVE  /\ worker \in [Workers -> WorkerRecord]
           /\ worker[w] \in WorkerRecord /\ worker[w].st \in WorkerSt
           /\ worker[w].task \in TaskIds \cup {NoTask} /\ worker[w].retries \in Nat
           /\ worker[w].fresh \in BOOLEAN /\ worker[w].data \in FileState
           /\ worker[w].lost \subseteq {"out", "dup"}
  BY DEF TypeOK, WorkerRecord

LEMMA IdleType == IdleWorker \in WorkerRecord
  BY DEF IdleWorker, WorkerRecord, WorkerSt, FileState

\* A worker that goes to another state keeps the rest.
LEMMA GotoType ==
    ASSUME TypeOK, NEW w \in Workers, NEW s \in WorkerSt, Goto(w, s)
    PROVE  /\ worker' \in [Workers -> WorkerRecord]
           /\ worker'[w].st = s /\ worker'[w].task = worker[w].task
           /\ worker'[w].fresh = worker[w].fresh /\ worker'[w].data = worker[w].data
           /\ worker'[w].lost = worker[w].lost
           /\ \A v \in Workers \ {w} : worker'[v] = worker[v]
  <1>1. worker \in [Workers -> WorkerRecord] /\ worker[w] \in WorkerRecord
    BY WorkerTypes
  <1>2. worker' = [worker EXCEPT ![w] = [worker[w] EXCEPT !.st = s]]
    BY <1>1 DEF Goto
  <1>3. [worker[w] EXCEPT !.st = s] \in WorkerRecord
    BY <1>1 DEF WorkerRecord
  <1> QED BY <1>1, <1>2, <1>3 DEF WorkerRecord

LEMMA GotoWithoutType ==
    ASSUME TypeOK, NEW w \in Workers, NEW s \in WorkerSt, NEW F \in SUBSET {"out", "dup"},
           GotoWithout(w, s, F)
    PROVE  /\ worker' \in [Workers -> WorkerRecord]
           /\ worker'[w].st = s /\ worker'[w].task = worker[w].task
           /\ worker'[w].lost = worker[w].lost \cup F
           /\ \A v \in Workers \ {w} : worker'[v] = worker[v]
  <1>1. worker \in [Workers -> WorkerRecord] /\ worker[w] \in WorkerRecord
    BY WorkerTypes
  <1>2. worker' = [worker EXCEPT ![w] =
                      [worker[w] EXCEPT !.st = s, !.lost = worker[w].lost \cup F]]
    BY <1>1 DEF GotoWithout
  <1>3. [worker[w] EXCEPT !.st = s, !.lost = worker[w].lost \cup F] \in WorkerRecord
    BY <1>1 DEF WorkerRecord
  <1> QED BY <1>1, <1>2, <1>3 DEF WorkerRecord

\* Steps of workers that the coordinator does not see.
LEMMA UnseenStep ==
    ASSUME IInv, UNCHANGED coordVars,
           worker' \in [Workers -> WorkerRecord],
           out' \in [Partitions -> FileState], dup' \in [Partitions -> FileState],
           errors' \in 0..MaxErrors,
           \A v \in Workers :
              /\ worker'[v].task = worker[v].task
              /\ worker'[v].st = "idle" => worker[v].st = "idle"
              /\ Busy(v)' => Busy(v)
              /\ worker'[v].st \in {"writing", "written", "copying"} =>
                    worker[v].task \in Partitions
    PROVE  IInv'
  <1>1. /\ TypeOK /\ Assignment /\ Currency /\ Listing /\ EveryMapCountedOnce
        /\ UNCHANGED <<Tasks, Status, AssignedWorkerId, Retries, IntermediateResults,
                       IsReduceGenerated, pfile, short, coord, gaveUp, overrun, lost>>
    BY DEF IInv, coordVars
  <1>2. TypeOK'
    BY <1>1 DEF TypeOK, WorkerRecord
  <1>3. Assignment'
    BY <1>1 DEF Assignment
  <1>4. Currency'
    BY <1>1 DEF Currency
  <1>5. Listing' /\ EveryMapCountedOnce'
    BY <1>1 DEF Listing, EveryMapCountedOnce, Listed
  <1> QED BY <1>2, <1>3, <1>4, <1>5 DEF IInv

\* The steps of a worker between its two calls, and its death.
Work(w) ==
    \/ ExecuteMap(w) \/ ExecuteFails(w)
    \/ ReducePanics(w) \/ ReduceCreate(w) \/ CreateFails(w) \/ ReduceWrite(w) \/ WriteFails(w)
    \/ CopyRead(w) \/ CopyWrite(w) \/ CopyReturns(w) \/ CopyFails(w)
    \/ Die(w)

LEMMA WorkInv ==
    ASSUME IInv, NEW w \in Workers,
           Work(w)
    PROVE  IInv'
  <1>1. /\ TypeOK /\ Currency /\ worker[w] \in WorkerRecord
        /\ worker \in [Workers -> WorkerRecord]
        /\ out \in [Partitions -> FileState] /\ dup \in [Partitions -> FileState]
        /\ errors \in 0..MaxErrors /\ MaxErrors \in Nat
    BY WorkerTypes, WorkerAssumption DEF IInv, TypeOK
  <1>2. CASE ExecuteMap(w)
    <2>1. /\ UNCHANGED <<out, dup, errors>> /\ UNCHANGED coordVars
          /\ Goto(w, "completed") /\ Busy(w)
      BY <1>2 DEF ExecuteMap, Busy
    <2> QED BY <1>1, <2>1, GotoType, UnseenStep DEF Busy, WorkerSt, Currency
  <1>3. CASE ExecuteFails(w)
    <2>1. /\ UNCHANGED <<out, dup>> /\ UNCHANGED coordVars /\ errors' \in 0..MaxErrors
          /\ Goto(w, "failed") /\ Busy(w)
      BY <1>1, <1>3 DEF ExecuteFails, FileError, Busy
    <2> QED BY <1>1, <2>1, GotoType, UnseenStep DEF Busy, WorkerSt, Currency
  <1>4. CASE ReduceCreate(w)
    <2> DEFINE p == worker[w].task
    <2>1. /\ UNCHANGED <<dup, errors>> /\ UNCHANGED coordVars
          /\ worker[w].st = "running" /\ p \in Partitions
          /\ out' = [out EXCEPT ![p] = "partial"]
          /\ worker' = [v \in Workers |->
                     IF v = w THEN [worker[w] EXCEPT !.st = "writing", !.fresh = TRUE]
                     ELSE IF worker[v].task = p THEN [worker[v] EXCEPT !.fresh = FALSE]
                     ELSE worker[v]]
      BY <1>4 DEF ReduceCreate
    <2>2. out' \in [Partitions -> FileState]
      BY <1>1, <2>1 DEF FileState
    <2>3. ASSUME NEW v \in Workers
          PROVE  /\ worker'[v] \in WorkerRecord
                 /\ worker'[v].task = worker[v].task
                 /\ worker'[v].st = "idle" => worker[v].st = "idle"
                 /\ Busy(v)' => Busy(v)
                 /\ worker'[v].st \in {"writing", "written", "copying"} =>
                       worker[v].task \in Partitions
      <3>1. worker[v] \in WorkerRecord
        BY <1>1
      <3>2. CASE v = w
        <4>1. worker'[v] = [worker[v] EXCEPT !.st = "writing", !.fresh = TRUE]
          BY <2>1, <3>2
        <4> QED BY <2>1, <3>1, <3>2, <4>1 DEF WorkerRecord, WorkerSt, Busy
      <3>3. CASE v # w
        <4>1. \/ worker'[v] = [worker[v] EXCEPT !.fresh = FALSE]
              \/ worker'[v] = worker[v]
          BY <2>1, <3>3
        <4> QED BY <1>1, <3>1, <4>1 DEF WorkerRecord, Busy, Currency
      <3> QED BY <3>2, <3>3
    <2>4. worker' \in [Workers -> WorkerRecord]
      BY <2>1, <2>3
    <2> QED BY <1>1, <2>1, <2>2, <2>3, <2>4, UnseenStep
  <1>5. CASE ReduceWrite(w)
    <2>1. /\ UNCHANGED <<dup, errors>> /\ UNCHANGED coordVars
          /\ Goto(w, "written") /\ worker[w].st = "writing"
          /\ out' \in {out, [out EXCEPT ![worker[w].task] = Output(worker[w].task)]}
          /\ Output(worker[w].task) \in FileState
      BY <1>5 DEF ReduceWrite, Output, FileState
    <2>2. out' \in [Partitions -> FileState] /\ worker[w].task \in Partitions
      BY <1>1, <2>1 DEF Currency
    <2> QED BY <1>1, <2>1, <2>2, GotoType, UnseenStep DEF Busy, WorkerSt, Currency
  <1>6. CASE CopyRead(w)
    <2>1. /\ UNCHANGED <<out, errors>> /\ UNCHANGED coordVars
          /\ worker[w].st = "written"
          /\ worker' = [worker EXCEPT ![w] = [worker[w] EXCEPT !.st = "copying",
                                                     !.data = out[worker[w].task]]]
          /\ dup' = [dup EXCEPT ![worker[w].task] = "partial"]
      BY <1>1, <1>6 DEF CopyRead
    <2>2. worker[w].task \in Partitions /\ dup' \in [Partitions -> FileState]
      BY <1>1, <2>1 DEF FileState, Currency
    <2>3. [worker[w] EXCEPT !.st = "copying", !.data = out[worker[w].task]] \in WorkerRecord
      BY <1>1, <2>2 DEF WorkerRecord, WorkerSt
    <2>4. /\ worker' \in [Workers -> WorkerRecord]
          /\ worker'[w].st = "copying" /\ worker'[w].task = worker[w].task
          /\ \A v \in Workers \ {w} : worker'[v] = worker[v]
      BY <1>1, <2>1, <2>3 DEF WorkerRecord
    <2> QED BY <1>1, <2>1, <2>2, <2>4, UnseenStep DEF Busy, Currency
  <1>7. CASE CopyWrite(w)
    <2>1. /\ UNCHANGED <<out, errors>> /\ UNCHANGED coordVars
          /\ Goto(w, "completed") /\ worker[w].st = "copying"
          /\ dup' \in {dup, [dup EXCEPT ![worker[w].task] = worker[w].data]}
      BY <1>7 DEF CopyWrite
    <2>2. dup' \in [Partitions -> FileState]
      BY <1>1, <2>1 DEF WorkerRecord
    <2> QED BY <1>1, <2>1, <2>2, GotoType, UnseenStep DEF Busy, WorkerSt, Currency
  <1>8. CASE Die(w) \/ ReducePanics(w)
    <2>1. /\ UNCHANGED <<out, dup, errors>> /\ UNCHANGED coordVars /\ Goto(w, "dead")
      BY <1>8 DEF Die, ReducePanics
    <2> QED BY <1>1, <2>1, GotoType, UnseenStep DEF Busy, WorkerSt, Currency
  <1>9. CASE CreateFails(w) \/ WriteFails(w) \/ CopyReturns(w) \/ CopyFails(w)
    <2>1. /\ UNCHANGED <<out, dup>> /\ UNCHANGED coordVars /\ errors' \in 0..MaxErrors
          /\ Busy(w)
          /\ worker[w].st \in {"running", "writing"} => worker[w].task \in Partitions
      BY <1>1, <1>9
      DEF CreateFails, WriteFails, CopyReturns, CopyFails, FileError, Busy, Currency
    <2>2. PICK s \in {"writing", "written", "completed"}, F \in SUBSET {"out", "dup"} :
            /\ GotoWithout(w, s, F)
            /\ s # "completed" => worker[w].st \in {"running", "writing"}
      BY <1>9 DEF CreateFails, WriteFails, CopyReturns, CopyFails
    <2>3. /\ worker' \in [Workers -> WorkerRecord]
          /\ worker'[w].st = s /\ worker'[w].task = worker[w].task
          /\ \A v \in Workers \ {w} : worker'[v] = worker[v]
      <3>1. s \in WorkerSt
        BY DEF WorkerSt
      <3> QED BY <1>1, <2>2, <3>1, GotoWithoutType
    <2> QED BY <1>1, <2>1, <2>2, <2>3, UnseenStep DEF Busy, Currency
  <1> QED BY <1>2, <1>3, <1>4, <1>5, <1>6, <1>7, <1>8, <1>9 DEF Work

\* RequestTask: the task was not assigned, and its new worker had none.
LEMMA RequestInv ==
    ASSUME IInv, NEW w \in Workers, RequestTask(w)
    PROVE  IInv'
  <1>1. /\ TypeOK /\ Assignment /\ Currency /\ Listing /\ EveryMapCountedOnce
        /\ UNCHANGED <<Tasks, Retries, IntermediateResults, IsReduceGenerated, pfile, short,
                       coord, out, dup, gaveUp, overrun, lost, errors>>
        /\ worker \in [Workers -> WorkerRecord] /\ NoWorker \notin Workers
    BY WorkerTypes, WorkerAssumption DEF IInv, RequestTask
  <1>2. PICK i \in DOMAIN Tasks :
          /\ Available(Tasks[i])
          /\ Status' = [Status EXCEPT ![Tasks[i]] = "inProgress"]
          /\ AssignedWorkerId' = [AssignedWorkerId EXCEPT ![Tasks[i]] = w]
          /\ worker' = [worker EXCEPT ![w] =
                           [IdleWorker EXCEPT !.st = "running", !.task = Tasks[i],
                                              !.retries = Retries[Tasks[i]]]]
    BY DEF RequestTask, FirstAvailable
  <1>3. PICK t \in TaskIds : t = Tasks[i]
    BY <1>1 DEF TypeOK
  <1>4. /\ Status[t] = "notStarted" /\ AssignedWorkerId[t] = NoWorker /\ Listed(t)
        /\ Status' = [Status EXCEPT ![t] = "inProgress"]
        /\ AssignedWorkerId' = [AssignedWorkerId EXCEPT ![t] = w]
    BY <1>2, <1>3 DEF Available, Listed
  <1>5. /\ worker' \in [Workers -> WorkerRecord]
        /\ worker'[w].st = "running" /\ worker'[w].task = t
        /\ \A v \in Workers \ {w} : worker'[v] = worker[v]
    <2>1. [IdleWorker EXCEPT !.st = "running", !.task = t, !.retries = Retries[t]]
             \in WorkerRecord
      BY <1>1, IdleType DEF TypeOK, WorkerRecord, WorkerSt
    <2> QED BY <1>1, <1>2, <1>3, <2>1 DEF IdleWorker
  <1>6. /\ Status \in [TaskIds -> Statuses]
        /\ AssignedWorkerId \in [TaskIds -> Workers \cup {NoWorker}]
    BY <1>1 DEF TypeOK
  <1>7. TypeOK'
    BY <1>1, <1>4, <1>5 DEF TypeOK, WorkerRecord, Statuses
  <1>8. Assignment'
    BY <1>1, <1>4, <1>6 DEF Assignment
  <1>9. Currency'
    <2>1. ~IsReduceGenerated => t \notin Partitions
      BY <1>1, <1>4 DEF Listing
    <2> QED BY <1>1, <1>4, <1>5, <1>6, <2>1 DEF Currency, Busy
  <1>10. \A x : Listed(x)' <=> Listed(x)
    BY <1>1 DEF Listed
  <1>11. \A m \in MapTasks :
          /\ Status'[m] = "completed" <=> Status[m] = "completed"
          /\ m \in TaskIds
    BY <1>4, <1>6 DEF TaskIds
  <1>12. Listing' /\ EveryMapCountedOnce'
    BY <1>1, <1>10, <1>11 DEF Listing, EveryMapCountedOnce
  <1> QED BY <1>7, <1>8, <1>9, <1>12 DEF IInv

\* The two reports are what ReportStep is about.
LEMMA ReportsInv ==
    ASSUME IInv, NEW w \in Workers, NEW t \in TaskIds, NEW id,
           NEW retries \in Nat,
           worker[w].task = t, id \in {w, NoWorker}, Busy(w), Report(t, id, retries),
           worker' = [worker EXCEPT ![w] = IdleWorker],
           lost' \in [Partitions -> SUBSET {"out", "dup"}],
           UNCHANGED <<out, dup>>
    PROVE  IInv'
  <1>2. /\ Tasks' \in Seq(TaskIds) /\ Status' \in [TaskIds -> Statuses]
        /\ Retries' \in [TaskIds -> Nat]
        /\ IntermediateResults' \in [MapTasks -> Nat]
        /\ IsReduceGenerated' \in BOOLEAN
        /\ pfile' \in [Partitions -> [MapTasks -> Nat]]
        /\ short' \subseteq Partitions /\ errors' \in 0..MaxErrors
        /\ UNCHANGED <<AssignedWorkerId, coord, gaveUp, overrun>>
        /\ Assignment' /\ Listing' /\ EveryMapCountedOnce'
        /\ IsReduceGenerated => IsReduceGenerated'
        /\ \A x \in TaskIds :
              \/ Status'[x] = Status[x]
              \/ x = t /\ Status'[x] = Outcome(id) /\ AssignedWorkerId[x] = id
    <2>1. id \in Workers /\ AssignedWorkerId[t] = id => Status[t] = "inProgress"
      BY WorkerAssumption DEF IInv, Currency
    <2> QED BY <2>1, ReportStep
  <1>3. /\ TypeOK /\ Currency /\ worker \in [Workers -> WorkerRecord]
        /\ NoWorker \notin Workers
    BY WorkerTypes, WorkerAssumption DEF IInv
  <1>4. TypeOK'
    BY <1>2, <1>3, IdleType DEF TypeOK, WorkerRecord
  <1>5. ASSUME NEW v \in Workers
        PROVE  /\ worker'[v].st = "idle" => worker'[v].task = NoTask
               /\ Busy(v)' =>
                     /\ worker'[v].task \in TaskIds
                     /\ AssignedWorkerId'[worker'[v].task] = v =>
                           Status'[worker'[v].task] = "inProgress"
               /\ worker'[v].task \in Partitions => IsReduceGenerated'
               /\ worker'[v].st \in {"writing", "written", "copying"} =>
                     worker'[v].task \in Partitions
    <2>1. CASE v = w
      <3>1. worker'[v] = IdleWorker /\ NoTask \notin Partitions
        BY <1>3, <2>1, WorkerAssumption DEF TaskIds
      <3>2. worker'[v].st = "idle" /\ worker'[v].task = NoTask
        BY <3>1 DEF IdleWorker
      <3> QED BY <3>1, <3>2 DEF Busy
    <2>2. CASE v # w
      <3>1. worker'[v] = worker[v]
        BY <1>3, <2>2
      <3>2. /\ worker[v].st = "idle" => worker[v].task = NoTask
            /\ Busy(v) =>
                  /\ worker[v].task \in TaskIds
                  /\ AssignedWorkerId[worker[v].task] = v =>
                        Status[worker[v].task] = "inProgress"
            /\ worker[v].task \in Partitions => IsReduceGenerated
            /\ worker[v].st \in {"writing", "written", "copying"} =>
                  worker[v].task \in Partitions
        BY <1>3 DEF Currency
      <3>3. ASSUME Busy(v), AssignedWorkerId[worker[v].task] = v
            PROVE  Status'[worker[v].task] = "inProgress"
        <4>1. PICK x \in TaskIds : /\ x = worker[v].task /\ AssignedWorkerId[x] = v
                                   /\ Status[x] = "inProgress"
          BY <3>2, <3>3
        <4>2. AssignedWorkerId[x] # id
          BY <1>3, <2>2, <4>1
        <4>3. Status'[x] = Status[x]
          BY <1>2, <4>2
        <4> QED BY <4>1, <4>3
      <3>4. AssignedWorkerId' = AssignedWorkerId /\ (IsReduceGenerated => IsReduceGenerated')
        BY <1>2
      <3> QED BY <3>1, <3>2, <3>3, <3>4 DEF Busy
    <2> QED BY <2>1, <2>2
  <1>6. Currency'
    BY <1>5 DEF Currency
  <1> QED BY <1>2, <1>4, <1>6 DEF IInv

\* The reports of the workers.
LEMMA WorkerReports ==
    ASSUME IInv, NEW w \in Workers, ReportCompleted(w) \/ ReportFailed(w)
    PROVE  \E t \in TaskIds, id \in {w, NoWorker}, r \in Nat :
              /\ worker[w].task = t /\ Busy(w) /\ Report(t, id, r)
              /\ id = w => /\ worker[w].st = "completed"
                           /\ lost' = [p \in Partitions |-> IF p = t /\ Matches(p, w)
                                                            THEN worker[w].lost ELSE lost[p]]
              /\ id # w => UNCHANGED lost
  <1>1. /\ worker[w].st \in {"completed", "failed"} /\ Currency
        /\ worker[w].retries \in Nat
    BY WorkerTypes DEF IInv, ReportCompleted, ReportFailed
  <1>2. PICK t \in TaskIds : t = worker[w].task /\ Busy(w)
    BY <1>1 DEF Currency, Busy
  <1>3. CASE ReportCompleted(w)
    <2>1. PICK r \in Nat : r = worker[w].retries
      BY <1>1
    <2>2. UpdateTaskStatus(t, "completed", w, t \in MapTasks, r)
      BY <1>2, <1>3, <2>1, Zenon DEF ReportCompleted, UpdateTaskStatus, GenerateReduceTasks
    <2>3. /\ worker[w].st = "completed"
          /\ lost' = [p \in Partitions |-> IF p = t /\ Matches(p, w)
                                           THEN worker[w].lost ELSE lost[p]]
      BY <1>2, <1>3 DEF ReportCompleted
    <2> QED BY <1>2, <2>2, <2>3, Zenon DEF Report
  <1>4. CASE ReportFailed(w)
    <2>1. PICK r \in Nat : r = worker[w].retries + 1
      BY <1>1
    <2>2. UpdateTaskStatus(t, "notStarted", NoWorker, FALSE, r)
      BY <1>2, <1>4, <2>1, Zenon DEF ReportFailed, UpdateTaskStatus, GenerateReduceTasks
    <2>3. NoWorker # w /\ UNCHANGED lost
      BY <1>4, WorkerAssumption DEF ReportFailed
    <2> QED BY <1>2, <2>2, <2>3, Zenon DEF Report
  <1> QED BY <1>3, <1>4

LEMMA ReportInv ==
    ASSUME IInv, NEW w \in Workers, ReportCompleted(w) \/ ReportFailed(w)
    PROVE  IInv'
  <1>1. PICK t \in TaskIds, id \in {w, NoWorker}, r \in Nat :
          worker[w].task = t /\ Busy(w) /\ Report(t, id, r)
    BY WorkerReports
  <1>2. lost' \in [Partitions -> SUBSET {"out", "dup"}]
    <2>1. worker[w].lost \subseteq {"out", "dup"} /\ lost \in [Partitions -> SUBSET {"out", "dup"}]
      BY WorkerTypes DEF IInv, TypeOK
    <2> QED BY <2>1 DEF ReportCompleted, ReportFailed
  <1> QED BY <1>1, <1>2, ReportsInv DEF ReportCompleted, ReportFailed

\* The loop of Done: tasks in progress are given up or taken back.
LEMMA SettleInv ==
    ASSUME IInv, NEW S \in SUBSET TaskIds, NEW E \in SUBSET TaskIds, Settle(S, E),
           \A t \in S \cup E : Status[t] = "inProgress",
           coord' \in {coord, "done"},
           overrun' \subseteq Partitions,
           UNCHANGED <<Tasks, IntermediateResults, IsReduceGenerated, pfile, short, worker,
                       out, dup, lost, errors>>
    PROVE  IInv'
  <1>1. /\ TypeOK /\ Assignment /\ Currency /\ Listing /\ EveryMapCountedOnce
        /\ worker \in [Workers -> WorkerRecord] /\ NoWorker \notin Workers
        /\ MapTasks \subseteq TaskIds
    BY WorkerTypes, WorkerAssumption DEF IInv, TypeOK, WorkerRecord, TaskIds
  <1>2. /\ Status' \in [TaskIds -> Statuses]
        /\ AssignedWorkerId' \in [TaskIds -> Workers \cup {NoWorker}]
        /\ Retries' \in [TaskIds -> Nat]
        /\ gaveUp' \subseteq TaskIds
    <2>1. Status' \in [TaskIds -> Statuses]
      BY <1>1 DEF Settle, TypeOK, Statuses
    <2>2. AssignedWorkerId' \in [TaskIds -> Workers \cup {NoWorker}]
      BY <1>1 DEF Settle, TypeOK
    <2>3. Retries' \in [TaskIds -> Nat]
      <3>1. /\ Retries \in [TaskIds -> Nat]
            /\ Retries' = [t \in TaskIds |-> IF t \in E THEN Retries[t] + 1 ELSE Retries[t]]
        BY <1>1 DEF Settle, TypeOK
      <3> QED BY ONLY <3>1
    <2>4. gaveUp' \subseteq TaskIds
      BY <1>1 DEF Settle, TypeOK
    <2> QED BY <2>1, <2>2, <2>3, <2>4
  <1>3. TypeOK'
    BY <1>1, <1>2 DEF TypeOK
  <1>4. \A t \in TaskIds :
          /\ t \in S => Status'[t] = "skipped" /\ AssignedWorkerId'[t] = NoWorker
          /\ t \in E \ S => Status'[t] = "notStarted" /\ AssignedWorkerId'[t] = NoWorker
          /\ t \notin S \cup E => /\ Status'[t] = Status[t]
                                  /\ AssignedWorkerId'[t] = AssignedWorkerId[t]
    BY DEF Settle
  <1>5. gaveUp' = gaveUp \cup S
    BY DEF Settle
  <1>6. Assignment'
    BY <1>1, <1>4, <1>5 DEF Assignment
  <1>7. Currency'
    <2>1. \A t \in TaskIds, v \in Workers :
            AssignedWorkerId'[t] = v =>
                AssignedWorkerId[t] = v /\ Status'[t] = Status[t]
      BY <1>1, <1>4
    <2>2. \A v \in Workers : worker'[v] = worker[v] /\ (Busy(v)' <=> Busy(v))
      BY DEF Busy
    <2> QED BY <1>1, <2>1, <2>2 DEF Currency
  <1>8. \A m \in MapTasks : Status'[m] = "completed" <=> Status[m] = "completed"
    BY <1>1, <1>4
  <1>9. \A x : Listed(x)' <=> Listed(x)
    BY DEF Listed
  <1>10. Listing' /\ EveryMapCountedOnce'
    BY <1>1, <1>5, <1>8, <1>9 DEF Listing, EveryMapCountedOnce
  <1> QED BY <1>3, <1>6, <1>7, <1>10 DEF IInv

LEMMA DoneInv ==
    ASSUME IInv,
           (\E i \in DOMAIN Tasks : DoneFalse(i) \/ DoneTimeout(i)) \/ DoneTrue
    PROVE  IInv'
  <1>1. \A n : /\ SkippedBefore(n) \in SUBSET TaskIds
               /\ \A t \in SkippedBefore(n) : Status[t] = "inProgress"
    BY DEF SkippedBefore, Skippable
  <1>2. \A i \in DOMAIN Tasks : Tasks[i] \in TaskIds
    BY DEF IInv, TypeOK
  <1>o. overrun \subseteq Partitions
    BY DEF IInv, TypeOK
  <1>3. ASSUME NEW i \in DOMAIN Tasks, DoneFalse(i) PROVE IInv'
    BY <1>1, <1>o, <1>3, SettleInv DEF DoneFalse
  <1>4. ASSUME NEW i \in DOMAIN Tasks, DoneTimeout(i) PROVE IInv'
    BY <1>1, <1>o, <1>2, <1>4, SettleInv DEF DoneTimeout, MayExpire
  <1>5. CASE DoneTrue
    <2>1. PICK S \in SUBSET TaskIds :
            Settle(S, {}) /\ \A t \in S : Status[t] = "inProgress"
      BY <1>1, <1>5 DEF DoneTrue
    <2>2. coord' \in {coord, "done"}
      BY <1>5 DEF DoneTrue
    <2> QED BY <1>o, <1>5, <2>1, <2>2, SettleInv DEF DoneTrue
  <1> QED BY <1>3, <1>4, <1>5

LEMMA NextInv ==
    ASSUME IInv, [Next]_vars
    PROVE  IInv'
  <1>1. CASE Exit \/ UNCHANGED vars
    <2>1. /\ TypeOK /\ Assignment /\ Currency /\ Listing /\ EveryMapCountedOnce
          /\ UNCHANGED <<Tasks, Status, AssignedWorkerId, Retries, IntermediateResults,
                         IsReduceGenerated, pfile, short, worker, out, dup, gaveUp,
                         overrun, lost, errors>>
          /\ coord' \in {coord, "exited"}
      BY <1>1 DEF IInv, Exit, vars
    <2> QED
      BY <2>1
      DEF IInv, TypeOK, Assignment, Currency, Busy, Listing, EveryMapCountedOnce, Listed
  <1> QED
    BY <1>1, RequestInv, ReportInv, WorkInv, DoneInv DEF Next, WorkerStep, Work

LEMMA InitInv == Init => IInv
  <1> SUFFICES ASSUME Init PROVE IInv
    OBVIOUS
  <1>1. TypeOK
    <2>1. Tasks \in Seq(TaskIds)
      <3>1. MapOrder \in Seq(MapTasks) /\ Tasks = MapOrder
        BY TaskAssumption DEF Init
      <3> QED BY ONLY <3>1 DEF TaskIds
    <2>2. worker \in [Workers -> WorkerRecord]
      BY IdleType DEF Init
    <2>3. errors \in 0..MaxErrors
      <3>1. MaxErrors \in Nat /\ errors = 0
        BY WorkerAssumption DEF Init
      <3> QED BY ONLY <3>1
    <2> QED BY <2>1, <2>2, <2>3 DEF Init, TypeOK, WorkerRecord, Statuses, FileState
  <1>2. Assignment
    BY DEF Init, Assignment
  <1>3. Currency
    BY WorkerAssumption DEF Init, Currency, Busy, IdleWorker, TaskIds
  <1>4. Listing
    <2>1. \A i \in DOMAIN MapOrder : MapOrder[i] \in MapTasks
      BY TaskAssumption
    <2> QED BY <2>1, TaskAssumption DEF Init, Listing, Listed
  <1>5. EveryMapCountedOnce
    BY DEF Init, EveryMapCountedOnce, TaskIds
  <1> QED BY <1>1, <1>2, <1>3, <1>4, <1>5 DEF IInv

\* The coordinator counts every map task's output once, with slow workers too.
THEOREM Invariance == Spec => []IInv
  <1>1. Init => IInv
    BY InitInv
  <1>2. IInv /\ [Next]_vars => IInv'
    BY NextInv
  <1> QED BY <1>1, <1>2, PTL DEF Spec

\* Every variable of the coordinator and its workers has its type.
THEOREM TypeCorrect == Spec => []TypeOK
  <1>1. IInv => TypeOK
    BY DEF IInv
  <1> QED BY <1>1, Invariance, PTL

\* A map task's output is counted once if the task completes and not at all
\* otherwise, whatever its earlier workers report (UpdateTaskStatus), and each
\* reduce input has it once.
THEOREM MapsCountedOnce == Spec => []EveryMapCountedOnce
  <1>1. IInv => EveryMapCountedOnce
    BY DEF IInv
  <1> QED BY <1>1, Invariance, PTL

\* A worker has a reduce task only when every map task is finished or was given
\* up on (RequestTask, generateReduceTasksIfApplicable).
THEOREM ReduceStartsAfterMaps == Spec => []ReduceAfterMaps
  <1>1. IInv => ReduceAfterMaps
    BY DEF IInv, Currency, Listing, ReduceAfterMaps, Finished
  <1> QED BY <1>1, Invariance, PTL

-----------------------------------------------------------------------------
\* No step takes a completed task back.
LEMMA StaysCompleted ==
    ASSUME IInv, [Next]_vars, NEW x \in TaskIds, Status[x] = "completed"
    PROVE  Status'[x] = "completed"
  <1>1. /\ TypeOK /\ Assignment /\ Currency /\ AssignedWorkerId[x] # NoWorker
        /\ Status \in [TaskIds -> Statuses]
    BY DEF IInv, Assignment, TypeOK
  <1>2. ASSUME NEW w \in Workers, RequestTask(w) PROVE Status'[x] = "completed"
    <2>1. PICK t : Status[t] = "notStarted" /\ Status' = [Status EXCEPT ![t] = "inProgress"]
      BY <1>2 DEF RequestTask, FirstAvailable, Available
    <2> QED BY <1>1, <2>1
  <1>3. ASSUME NEW w \in Workers, ReportCompleted(w) \/ ReportFailed(w)
        PROVE  Status'[x] = "completed"
    <2>1. PICK t \in TaskIds, id \in {w, NoWorker}, r \in Nat :
            worker[w].task = t /\ Busy(w) /\ Report(t, id, r)
      BY <1>3, WorkerReports
    <2>2. id \in Workers /\ AssignedWorkerId[t] = id => Status[t] = "inProgress"
      BY <1>1, <2>1, WorkerAssumption DEF Currency
    <2>3. \/ Status'[x] = Status[x]
          \/ Status'[x] = Outcome(id) /\ AssignedWorkerId[x] = id
      BY <2>1, <2>2, ReportStep
    <2> QED BY <1>1, <2>3 DEF Outcome
  <1>4. ASSUME NEW S, NEW E, Settle(S, E), \A t \in S \cup E : Status[t] = "inProgress"
        PROVE  Status'[x] = "completed"
    BY <1>4 DEF Settle
  <1>5. \A n : \A t \in SkippedBefore(n) : Status[t] = "inProgress"
    BY DEF SkippedBefore, Skippable
  <1>6. CASE (\E i \in DOMAIN Tasks : DoneFalse(i) \/ DoneTimeout(i)) \/ DoneTrue
    BY <1>4, <1>5, <1>6 DEF DoneFalse, DoneTimeout, DoneTrue, MayExpire
  <1>7. CASE UNCHANGED Status
    BY <1>7
  <1> QED
    BY <1>2, <1>3, <1>6, <1>7
    DEF Next, WorkerStep, Exit, ExecuteMap, ExecuteFails, ReducePanics, ReduceCreate,
        CreateFails, ReduceWrite, WriteFails, CopyRead, CopyWrite, CopyReturns, CopyFails,
        Die, coordVars, vars

\* Neither a late report, nor a failure under id -1 (UpdateTaskStatus), nor a
\* time-out (Done) takes a completed task back.
THEOREM CompletedTasksStay == Spec => CompletedIsFinal
  <1>1. IInv /\ [Next]_vars =>
          [\A t \in TaskIds : Status[t] = "completed" => Status'[t] = "completed"]_vars
    BY StaysCompleted
  <1> QED BY <1>1, Invariance, PTL DEF Spec, CompletedIsFinal

-----------------------------------------------------------------------------
\* A worker that touches only its own reduce task's files spoils nobody else's.
LEMMA OwnFiles ==
    ASSUME IInv, OutputInv, NEW w \in Workers, UNCHANGED coordVars,
           \A v \in Workers : worker'[v].task = worker[v].task /\ (Busy(v)' => Busy(v)),
           \A v \in Workers \ {w} :
              \/ worker'[v] = worker[v]
              \/ Busy(w) /\ worker[w].task \in Partitions /\ worker[v].task = worker[w].task,
           \A p \in Partitions :
              \/ out'[p] = out[p] /\ dup'[p] = dup[p]
              \/ Busy(w) /\ p = worker[w].task,
           FilesOf(w)'
    PROVE  OutputInv'
  <1>1. /\ Currency /\ OneWorker /\ Files /\ Ending
        /\ \A t \in MapTasks \cup Partitions : t \in TaskIds
        /\ UNCHANGED <<Tasks, Status, AssignedWorkerId, IsReduceGenerated, coord, gaveUp,
                       overrun, lost, pfile, short>>
    BY DEF IInv, OutputInv, coordVars, TaskIds
  <1>2. /\ \A p : Undisturbed(p)' <=> Undisturbed(p)
        /\ \A p : Output(p)' = Output(p)
    BY <1>1 DEF Undisturbed, Output
  <1>3. OneWorker'
    BY <1>1, <1>2 DEF OneWorker
  <1>4. ASSUME NEW v \in Workers PROVE FilesOf(v)'
    <2> SUFFICES ASSUME v # w, Busy(v)', worker'[v].task \in Partitions,
                        Undisturbed(worker[v].task)'
                 PROVE  FilesOf(v)'
      BY DEF FilesOf
    <2>1. PICK p \in Partitions : p = worker[v].task /\ Busy(v) /\ Undisturbed(p)
      BY <1>2
    <2>2. ~(Busy(w) /\ worker[w].task = p)
      BY <1>1, <2>1 DEF OneWorker
    <2>3. worker'[v] = worker[v] /\ out'[p] = out[p] /\ dup'[p] = dup[p]
      BY <2>1, <2>2
    <2>4. FilesOf(v)
      BY <1>1 DEF Files
    <2> QED BY <1>2, <2>1, <2>3, <2>4 DEF FilesOf
  <1>5. ASSUME NEW p \in Partitions PROVE FilesDone(p)'
    <2>1. FilesDone(p)
      BY <1>1 DEF Files
    <2>2. CASE out'[p] = out[p] /\ dup'[p] = dup[p]
      BY <1>1, <1>2, <2>1, <2>2 DEF FilesDone
    <2>3. CASE Busy(w) /\ p = worker[w].task
      <3>1. Status[p] = "completed" => ~Undisturbed(p)
        BY <1>1, <2>3 DEF OneWorker, Currency
      <3> QED BY <1>1, <1>2, <2>1, <3>1 DEF FilesDone
    <2> QED BY <2>2, <2>3
  <1>6. Files'
    BY <1>4, <1>5 DEF Files
  <1>7. Ending'
    BY <1>1 DEF Ending
  <1> QED BY <1>3, <1>6, <1>7 DEF OutputInv

\* The steps of a worker between its two calls, and its death.
LEMMA OutputWork ==
    ASSUME IInv, OutputInv, NEW w \in Workers, Work(w)
    PROVE  OutputInv'
  <1>1. /\ TypeOK /\ Currency /\ worker[w] \in WorkerRecord
        /\ worker \in [Workers -> WorkerRecord] /\ UNCHANGED coordVars
        /\ out \in [Partitions -> FileState] /\ dup \in [Partitions -> FileState]
        /\ MapTasks \cap Partitions = {} /\ FilesOf(w)
    <2>1. UNCHANGED coordVars
      BY DEF Work, ExecuteMap, ExecuteFails, ReducePanics, ReduceCreate, CreateFails,
             ReduceWrite, WriteFails, CopyRead, CopyWrite, CopyReturns, CopyFails, Die
    <2> QED BY <2>1, WorkerTypes, TaskAssumption DEF IInv, TypeOK, OutputInv, Files
  <1>2. /\ \A p : Undisturbed(p)' <=> Undisturbed(p)
        /\ \A p : Output(p)' = Output(p)
    BY <1>1 DEF Undisturbed, Output, coordVars
  <1>3. ASSUME NEW s \in {"completed", "failed", "dead"}, Goto(w, s), UNCHANGED <<out, dup>>,
               s # "dead" => worker[w].st = "running",
               s = "completed" => worker[w].task \in MapTasks
        PROVE  OutputInv'
    <2>1. /\ \A v \in Workers \ {w} : worker'[v] = worker[v]
          /\ worker'[w].st = s /\ worker'[w].task = worker[w].task
          /\ worker'[w].lost = worker[w].lost
      BY <1>1, <1>3, GotoType DEF WorkerSt
    <2>2. FilesOf(w)'
      BY <1>1, <1>2, <1>3, <2>1 DEF FilesOf, Busy
    <2>3. \A v \in Workers : worker'[v].task = worker[v].task /\ (Busy(v)' => Busy(v))
      BY <1>3, <2>1 DEF Busy
    <2> QED BY <1>1, <1>3, <2>1, <2>2, <2>3, OwnFiles
  <1>4. CASE ExecuteMap(w) \/ ExecuteFails(w) \/ ReducePanics(w) \/ Die(w)
    BY <1>3, <1>4 DEF ExecuteMap, ExecuteFails, ReducePanics, Die
  <1>5. CASE ReduceCreate(w)
    <2>1. PICK p \in Partitions :
          /\ p = worker[w].task /\ Busy(w) /\ UNCHANGED dup
          /\ out' = [out EXCEPT ![p] = "partial"]
          /\ worker' = [v \in Workers |->
                     IF v = w THEN [worker[w] EXCEPT !.st = "writing", !.fresh = TRUE]
                     ELSE IF worker[v].task = p THEN [worker[v] EXCEPT !.fresh = FALSE]
                     ELSE worker[v]]
      BY <1>5 DEF ReduceCreate, Busy
    <2>2. /\ worker'[w].st = "writing" /\ worker'[w].fresh /\ worker'[w].task = p
          /\ worker'[w].lost = worker[w].lost
      BY <1>1, <2>1 DEF WorkerRecord
    <2>3. ASSUME NEW v \in Workers \ {w}
          PROVE  /\ worker'[v].st = worker[v].st /\ worker'[v].task = worker[v].task
                 /\ worker'[v] = worker[v] \/ worker[v].task = p
      BY <1>1, <2>1 DEF WorkerRecord
    <2>4. FilesOf(w)'
      BY <1>1, <1>2, <2>1, <2>2 DEF FilesOf, Busy
    <2>5. \A v \in Workers : worker'[v].task = worker[v].task /\ (Busy(v)' => Busy(v))
      BY <2>1, <2>2, <2>3 DEF Busy
    <2>6. \A q \in Partitions : q = p \/ (out'[q] = out[q] /\ dup'[q] = dup[q])
      BY <1>1, <2>1
    <2> QED BY <1>1, <2>1, <2>3, <2>4, <2>5, <2>6, OwnFiles
  <1>6. ASSUME NEW p \in Partitions, p = worker[w].task, Busy(w),
               worker'[w].task = p,
               \A v \in Workers \ {w} : worker'[v] = worker[v],
               \A q \in Partitions : q = p \/ (out'[q] = out[q] /\ dup'[q] = dup[q]),
               FilesOf(w)'
        PROVE  OutputInv'
    <2>1. \A v \in Workers : worker'[v].task = worker[v].task /\ (Busy(v)' => Busy(v))
      BY <1>6 DEF Busy
    <2> QED BY <1>1, <1>6, <2>1, OwnFiles
  <1>7. CASE ReduceWrite(w)
    <2>1. PICK p \in Partitions : p = worker[w].task /\ Busy(w)
      BY <1>1, <1>7 DEF ReduceWrite, Currency, Busy
    <2>2. /\ UNCHANGED dup /\ worker[w].st = "writing" /\ Goto(w, "written")
          /\ out' = IF worker[w].fresh THEN [out EXCEPT ![p] = Output(p)] ELSE out
      BY <1>7, <2>1 DEF ReduceWrite
    <2>3. /\ worker'[w].st = "written" /\ worker'[w].task = p
          /\ worker'[w].lost = worker[w].lost
          /\ \A v \in Workers \ {w} : worker'[v] = worker[v]
      BY <1>1, <2>1, <2>2, GotoType DEF WorkerSt
    <2>4. /\ worker[w].fresh => out'[p] = Output(p)
          /\ \A q \in Partitions : q = p \/ (out'[q] = out[q] /\ dup'[q] = dup[q])
      BY <1>1, <2>2
    <2>5. FilesOf(w)'
      BY <1>1, <1>2, <2>1, <2>2, <2>3, <2>4 DEF FilesOf
    <2> QED BY <1>6, <2>1, <2>3, <2>4, <2>5
  <1>8. CASE CopyRead(w)
    <2>1. PICK p \in Partitions : p = worker[w].task /\ Busy(w)
      BY <1>1, <1>8 DEF CopyRead, Currency, Busy
    <2>2. /\ UNCHANGED out /\ worker[w].st = "written"
          /\ dup' = [dup EXCEPT ![p] = "partial"]
          /\ worker' = [worker EXCEPT ![w] = [worker[w] EXCEPT !.st = "copying",
                                                               !.data = out[p]]]
      BY <1>1, <1>8, <2>1 DEF CopyRead
    <2>3. /\ worker'[w].st = "copying" /\ worker'[w].task = p
          /\ worker'[w].data = out[p] /\ worker'[w].lost = worker[w].lost
          /\ \A v \in Workers \ {w} : worker'[v] = worker[v]
      BY <1>1, <2>1, <2>2 DEF WorkerRecord, WorkerSt, FileState
    <2>4. \A q \in Partitions : q = p \/ (out'[q] = out[q] /\ dup'[q] = dup[q])
      BY <1>1, <2>2
    <2>5. FilesOf(w)'
      BY <1>1, <1>2, <2>1, <2>2, <2>3 DEF FilesOf
    <2> QED BY <1>6, <2>1, <2>3, <2>4, <2>5
  <1>9. CASE CopyWrite(w)
    <2>1. PICK p \in Partitions : p = worker[w].task /\ Busy(w)
      BY <1>1, <1>9 DEF CopyWrite, Currency, Busy
    <2>2. /\ UNCHANGED out /\ worker[w].st = "copying" /\ Goto(w, "completed")
          /\ dup' = IF worker[w].data # "partial" THEN [dup EXCEPT ![p] = worker[w].data]
                    ELSE dup
      BY <1>9, <2>1 DEF CopyWrite
    <2>3. /\ worker'[w].st = "completed" /\ worker'[w].task = p
          /\ worker'[w].lost = worker[w].lost
          /\ \A v \in Workers \ {w} : worker'[v] = worker[v]
      BY <1>1, <2>1, <2>2, GotoType DEF WorkerSt
    <2>4. /\ worker[w].data # "partial" => dup'[p] = worker[w].data
          /\ \A q \in Partitions : q = p \/ (out'[q] = out[q] /\ dup'[q] = dup[q])
          /\ Output(p) # "partial"
      BY <1>1, <2>2 DEF Output
    <2>5. FilesOf(w)'
      BY <1>1, <1>2, <2>1, <2>2, <2>3, <2>4 DEF FilesOf
    <2> QED BY <1>6, <2>1, <2>3, <2>4, <2>5
  <1>10. ASSUME NEW s \in WorkerSt, NEW F \in SUBSET {"out", "dup"}, GotoWithout(w, s, F),
                NEW p \in Partitions, p = worker[w].task, Busy(w), UNCHANGED <<out, dup>>,
                "dup" \in F,
                "out" \in F \/ (worker[w].st \in {"written", "copying"} /\ s = "completed")
         PROVE  OutputInv'
    <2>1. /\ worker'[w].st = s /\ worker'[w].task = p
          /\ worker'[w].lost = worker[w].lost \cup F
          /\ \A v \in Workers \ {w} : worker'[v] = worker[v]
      BY <1>1, <1>10, GotoWithoutType
    <2>2. FilesOf(w)'
      BY <1>1, <1>2, <1>10, <2>1 DEF FilesOf
    <2> QED BY <1>6, <1>10, <2>1, <2>2
  <1>11. CASE CreateFails(w) \/ WriteFails(w) \/ CopyReturns(w) \/ CopyFails(w)
    <2>1. PICK p \in Partitions : p = worker[w].task /\ Busy(w) /\ UNCHANGED <<out, dup>>
      BY <1>1, <1>11
      DEF CreateFails, WriteFails, CopyReturns, CopyFails, Currency, Busy
    <2>2. /\ {"out", "dup"} \in SUBSET {"out", "dup"} /\ {"dup"} \in SUBSET {"out", "dup"}
          /\ {"writing", "written", "completed"} \subseteq WorkerSt
      BY DEF WorkerSt
    <2>3. \/ \E s \in {"writing", "written"} : GotoWithout(w, s, {"out", "dup"})
          \/ /\ GotoWithout(w, "completed", {"dup"})
             /\ worker[w].st \in {"written", "copying"}
      BY <1>11 DEF CreateFails, WriteFails, CopyReturns, CopyFails
    <2> QED BY <1>10, <2>1, <2>2, <2>3
  <1> QED BY <1>4, <1>5, <1>7, <1>8, <1>9, <1>11 DEF Work

\* RequestTask: a task of its own for the new worker.
LEMMA OutputRequest ==
    ASSUME IInv, OutputInv, NEW w \in Workers, RequestTask(w)
    PROVE  OutputInv'
  <1>1. /\ TypeOK /\ Currency /\ worker \in [Workers -> WorkerRecord]
        /\ OneWorker /\ Files /\ Ending
        /\ UNCHANGED <<Tasks, IsReduceGenerated, pfile, short, coord, out, dup, gaveUp,
                       overrun, lost>>
        /\ NoWorker \notin Workers
    BY WorkerTypes, WorkerAssumption DEF IInv, OutputInv, RequestTask
  <1>2. PICK i \in DOMAIN Tasks :
          /\ Available(Tasks[i])
          /\ Status' = [Status EXCEPT ![Tasks[i]] = "inProgress"]
          /\ AssignedWorkerId' = [AssignedWorkerId EXCEPT ![Tasks[i]] = w]
          /\ worker' = [worker EXCEPT ![w] =
                           [IdleWorker EXCEPT !.st = "running", !.task = Tasks[i],
                                              !.retries = Retries[Tasks[i]]]]
    BY DEF RequestTask, FirstAvailable
  <1>3. PICK t \in TaskIds : t = Tasks[i]
    BY <1>1 DEF TypeOK
  <1>4. /\ Status[t] = "notStarted" /\ AssignedWorkerId[t] = NoWorker
        /\ Status' = [Status EXCEPT ![t] = "inProgress"]
        /\ AssignedWorkerId' = [AssignedWorkerId EXCEPT ![t] = w]
        /\ Status \in [TaskIds -> Statuses]
        /\ AssignedWorkerId \in [TaskIds -> Workers \cup {NoWorker}]
    BY <1>1, <1>2, <1>3 DEF Available, TypeOK
  <1>5. /\ worker'[w].st = "running" /\ worker'[w].task = t /\ worker'[w].lost = {}
        /\ \A v \in Workers \ {w} : worker'[v] = worker[v]
    BY <1>1, <1>2, <1>3 DEF IdleWorker
  <1>6. /\ \A p : Undisturbed(p)' <=> Undisturbed(p)
        /\ \A p : Output(p)' = Output(p)
        /\ \A p \in MapTasks \cup Partitions : p \in TaskIds
    BY <1>1 DEF Undisturbed, Output, TaskIds
  <1>7. OneWorker'
    <2> SUFFICES ASSUME NEW v \in Workers, Busy(v)', worker'[v].task \in Partitions,
                        Undisturbed(worker[v].task)'
                 PROVE  AssignedWorkerId'[worker'[v].task] = v
      BY DEF OneWorker
    <2>1. CASE v = w
      BY <1>4, <1>5, <2>1
    <2>2. CASE v # w
      <3>1. AssignedWorkerId[worker[v].task] = v /\ worker'[v].task = worker[v].task
        BY <1>1, <1>5, <1>6, <2>2 DEF OneWorker, Busy
      <3> QED BY <1>1, <1>4, <1>6, <3>1
    <2> QED BY <2>1, <2>2
  <1>8. \A x \in TaskIds : Status'[x] = "completed" <=> Status[x] = "completed"
    BY <1>4
  <1>9. Files'
    <2>1. FilesOf(w)'
      BY <1>5 DEF FilesOf
    <2>2. ASSUME NEW v \in Workers \ {w} PROVE FilesOf(v)'
      BY <1>1, <1>5, <1>6 DEF Files, FilesOf, Busy
    <2>3. ASSUME NEW p \in Partitions PROVE FilesDone(p)'
      BY <1>1, <1>6, <1>8 DEF Files, FilesDone
    <2> QED BY <2>1, <2>2, <2>3 DEF Files
  <1>10. Ending'
    BY <1>1, <1>2, <1>3, <1>4, <1>6, <1>8 DEF Ending, TypeOK
  <1> QED BY <1>7, <1>9, <1>10 DEF OutputInv

\* A report: of the one worker that has the reduce task, and then its files are
\* what its record says; or of a task that was disturbed.
LEMMA OutputReport ==
    ASSUME IInv, OutputInv, NEW w \in Workers, ReportCompleted(w) \/ ReportFailed(w)
    PROVE  OutputInv'
  <1>1. /\ TypeOK /\ Assignment /\ Currency /\ Listing
        /\ OneWorker /\ Files /\ Ending
        /\ worker \in [Workers -> WorkerRecord]
        /\ worker' = [worker EXCEPT ![w] = IdleWorker] /\ UNCHANGED <<out, dup>>
        /\ NoWorker \notin Workers /\ \A x \in MapTasks \cup Partitions : x \in TaskIds
    BY WorkerTypes, WorkerAssumption
    DEF IInv, OutputInv, ReportCompleted, ReportFailed, TaskIds
  <1>2. PICK t \in TaskIds, id \in {w, NoWorker}, r \in Nat :
          /\ worker[w].task = t /\ Busy(w) /\ Report(t, id, r)
          /\ id = w => /\ worker[w].st = "completed"
                       /\ lost' = [p \in Partitions |-> IF p = t /\ Matches(p, w)
                                                        THEN worker[w].lost ELSE lost[p]]
          /\ id # w => UNCHANGED lost
    BY WorkerReports
  <1>3. id \in Workers /\ AssignedWorkerId[t] = id => Status[t] = "inProgress"
    BY <1>1, <1>2 DEF Currency
  <1>4. /\ UNCHANGED <<AssignedWorkerId, coord, gaveUp, overrun>>
        /\ IsReduceGenerated => IsReduceGenerated' /\ UNCHANGED <<Tasks, pfile, short>>
        /\ \A x \in TaskIds :
              \/ Status'[x] = Status[x]
              \/ x = t /\ Status'[x] = Outcome(id) /\ AssignedWorkerId[x] = id
        /\ ~IsReduceGenerated' => ~AllMappingDone(Status')
    BY <1>2, <1>3, ReportStep
  <1>5. /\ ~Busy(w)' /\ \A v \in Workers \ {w} : worker'[v] = worker[v]
    BY <1>1 DEF Busy, IdleWorker
  <1>6. /\ \A p : Undisturbed(p)' <=> Undisturbed(p)
        /\ IsReduceGenerated => \A p : Output(p)' = Output(p)
    BY <1>4 DEF Undisturbed, Output
  <1>7. OneWorker'
    <2> SUFFICES ASSUME NEW v \in Workers, Busy(v)', worker'[v].task \in Partitions,
                        Undisturbed(worker[v].task)', worker'[v] = worker[v]
                 PROVE  AssignedWorkerId'[worker'[v].task] = v
      BY <1>5 DEF OneWorker
    <2> QED BY <1>1, <1>4, <1>6 DEF OneWorker, Busy
  <1>8. ASSUME NEW v \in Workers PROVE FilesOf(v)'
    <2> SUFFICES ASSUME Busy(v)', worker'[v].task \in Partitions PROVE FilesOf(v)'
      BY DEF FilesOf
    <2>1. worker'[v] = worker[v] /\ Busy(v)
      BY <1>5 DEF Busy
    <2>2. IsReduceGenerated /\ FilesOf(v)
      BY <1>1, <2>1 DEF Currency, Files
    <2> QED BY <1>1, <1>6, <2>1, <2>2 DEF FilesOf
  <1>9. ASSUME NEW p \in Partitions PROVE FilesDone(p)'
    <2> SUFFICES ASSUME Status'[p] = "completed" PROVE FilesDone(p)'
      BY DEF FilesDone
    <2>1. FilesDone(p) /\ p \in TaskIds /\ FilesOf(w)
      BY <1>1 DEF Files
    <2>2. CASE Status[p] = "completed"
      <3>1. IsReduceGenerated
        BY <2>1, <2>2 DEF FilesDone
      <3>2. lost'[p] = lost[p]
        <4>1. ~(p = t /\ id = w /\ Matches(p, w))
          BY <1>3, <2>2 DEF Matches
        <4>2. lost \in [Partitions -> SUBSET {"out", "dup"}]
          BY <1>1 DEF TypeOK
        <4> QED BY <1>2, <4>1, <4>2
      <3> QED BY <1>1, <1>4, <1>6, <2>1, <2>2, <3>1, <3>2 DEF FilesDone
    <2>3. CASE Status[p] # "completed"
      <3>1. /\ p = t /\ id = w /\ worker[w].st = "completed"
            /\ AssignedWorkerId[p] = w /\ IsReduceGenerated
        BY <1>1, <1>2, <1>4, <2>1, <2>3 DEF Outcome, Currency
      <3>2. Listed(p)
        <4>1. Report(t, w, r) /\ w # NoWorker
          BY <1>1, <1>2, <3>1
        <4>2. UpdateTaskStatus(t, "completed", w, t \in MapTasks, r)
          BY <4>1, Zenon DEF Report
        <4>3. ~Matches(t, w) => Status' = Status
          BY <4>2, Zenon DEF UpdateTaskStatus
        <4> QED BY <2>3, <3>1, <4>3 DEF Matches
      <3>3. lost'[p] = worker[w].lost
        BY <1>2, <3>1, <3>2 DEF Matches
      <3> QED BY <1>1, <1>2, <1>4, <1>6, <2>1, <3>1, <3>3 DEF FilesDone, FilesOf
    <2> QED BY <2>2, <2>3
  <1>10. Ending'
    <2> SUFFICES ASSUME MapTasks # {} PROVE Ending'
      BY DEF Ending
    <2>1. (\A m \in MapTasks : Status'[m] = "completed") => IsReduceGenerated'
      BY <1>4 DEF AllMappingDone, Finished
    <2>2. ASSUME coord' # "polling", gaveUp' \cap MapTasks = {}, NEW i \in DOMAIN Tasks'
          PROVE  Status'[Tasks'[i]] = "completed" \/ Tasks'[i] \in gaveUp'
      <3>1. \A j \in DOMAIN Tasks : Status[Tasks[j]] = "completed" \/ Tasks[j] \in gaveUp
        BY <1>1, <1>4, <2>2 DEF Ending
      <3>2. IsReduceGenerated
        BY <1>1, <1>4, <2>2, <3>1 DEF Ending, Listing, Listed
      <3>3. Tasks' = Tasks /\ Tasks[i] \in TaskIds /\ i \in DOMAIN Tasks
        BY <1>1, <1>4, <2>2, <3>2 DEF TypeOK
      <3>4. \A x \in TaskIds : Status[x] = "completed" => Status'[x] = "completed"
        BY <1>1, <1>2, <1>4 DEF Assignment, Outcome
      <3> QED BY <1>4, <3>1, <3>3, <3>4
    <2> QED BY <2>1, <2>2 DEF Ending
  <1> QED BY <1>7, <1>8, <1>9, <1>10 DEF OutputInv, Files

\* If the loop of Done stops nowhere, it passed over every task of the list.
LEMMA NoStop ==
    ASSUME TypeOK, \A i \in DOMAIN Tasks : ~StopsAt(i)
    PROVE  \A i \in DOMAIN Tasks : Status[Tasks[i]] \in Finished \/ Skippable(Tasks[i])
  <1> DEFINE Passes(i) == Status[Tasks[i]] \in Finished \/ Skippable(Tasks[i])
             T == {i \in DOMAIN Tasks : ~Passes(i)}
  <1>1. DOMAIN Tasks = 1..Len(Tasks) /\ Len(Tasks) \in Nat
    BY DEF TypeOK
  <1>2. SUFFICES ASSUME T # {} PROVE FALSE
    OBVIOUS
  <1>3. PICK i \in T : \A j \in T : ~(j < i)
    <2>1. T \subseteq Nat
      BY <1>1
    <2> HIDE DEF T
    <2> QED BY <1>2, <2>1, Smallest
  <1>4. \A j \in 1..(i - 1) : j \in DOMAIN Tasks /\ j < i
    BY <1>1, <1>3
  <1>5. \A j \in 1..(i - 1) : Passes(j)
    BY <1>3, <1>4
  <1>6. StopsAt(i)
    BY <1>3, <1>5 DEF StopsAt
  <1> QED BY <1>3, <1>6

\* Done: what it skips is given up on, and what it takes from a worker that is
\* not dead is overrun.
LEMMA OutputDone ==
    ASSUME IInv, OutputInv,
           (\E i \in DOMAIN Tasks : DoneFalse(i) \/ DoneTimeout(i)) \/ DoneTrue
    PROVE  OutputInv'
  <1>1. /\ TypeOK /\ Assignment /\ Currency /\ OneWorker /\ Files /\ Ending
        /\ UNCHANGED <<Tasks, IsReduceGenerated, pfile, short, worker, out, dup, lost>>
        /\ \A x \in MapTasks \cup Partitions : x \in TaskIds
        /\ \A i \in DOMAIN Tasks : Tasks[i] \in TaskIds
    <2>1. UNCHANGED <<Tasks, IsReduceGenerated, pfile, short, worker, out, dup, lost>>
      BY DEF DoneFalse, DoneTimeout, DoneTrue
    <2>2. TypeOK /\ Assignment /\ Currency /\ OneWorker /\ Files /\ Ending
      BY DEF IInv, OutputInv
    <2> QED BY <2>1, <2>2 DEF TypeOK, TaskIds
  <1>2. PICK S, E \in SUBSET TaskIds :
          /\ Settle(S, E)
          /\ \A t \in S \cup E : Status[t] = "inProgress"
          /\ \A p \in E \cap Partitions : AtWork(p) => p \in overrun'
          /\ overrun \subseteq overrun'
          /\ DoneTrue => \A i \in DOMAIN Tasks : Skippable(Tasks[i]) => Tasks[i] \in S
    <2>1. \A n : /\ SkippedBefore(n) \in SUBSET TaskIds
                 /\ \A t \in SkippedBefore(n) : Status[t] = "inProgress"
      BY DEF SkippedBefore, Skippable
    <2>2. ASSUME NEW i \in DOMAIN Tasks, DoneFalse(i)
          PROVE  /\ Settle(SkippedBefore(i), {}) /\ overrun' = overrun
                 /\ ~DoneTrue
      BY <2>2 DEF DoneFalse, DoneTrue
    <2>3. ASSUME NEW i \in DOMAIN Tasks, DoneTimeout(i)
          PROVE  /\ Settle(SkippedBefore(i), {Tasks[i]}) /\ Status[Tasks[i]] = "inProgress"
                 /\ \A p \in {Tasks[i]} \cap Partitions : AtWork(p) => p \in overrun'
                 /\ overrun \subseteq overrun' /\ ~DoneTrue
      BY <2>3 DEF DoneTimeout, DoneTrue, MayExpire
    <2>4. CASE DoneTrue
      <3>1. \A i \in DOMAIN Tasks : i \in 1..((Len(Tasks) + 1) - 1)
        BY <1>1 DEF TypeOK
      <3>2. \A i \in DOMAIN Tasks :
              Skippable(Tasks[i]) => Tasks[i] \in SkippedBefore(Len(Tasks) + 1)
        BY <1>1, <3>1 DEF SkippedBefore
      <3>3. Settle(SkippedBefore(Len(Tasks) + 1), {}) /\ overrun' = overrun
        BY <2>4 DEF DoneTrue
      <3> QED BY <2>1, <3>2, <3>3
    <2>5. CASE \E i \in DOMAIN Tasks : DoneFalse(i)
      BY <2>1, <2>2, <2>5
    <2>6. CASE \E i \in DOMAIN Tasks : DoneTimeout(i)
      <3>1. PICK i \in DOMAIN Tasks : DoneTimeout(i)
        BY <2>6
      <3>2. {Tasks[i]} \in SUBSET TaskIds
        BY <1>1
      <3> QED BY <2>1, <2>3, <3>1, <3>2
    <2> QED BY <2>4, <2>5, <2>6
  <1>3. /\ gaveUp' = gaveUp \cup S
        /\ \A t \in TaskIds :
              /\ t \notin S \cup E => /\ Status'[t] = Status[t]
                                      /\ AssignedWorkerId'[t] = AssignedWorkerId[t]
              /\ t \in S \cup E => Status'[t] # "completed" /\ Status[t] # "completed"
    BY <1>2 DEF Settle
  <1>4. /\ \A p : Undisturbed(p)' => Undisturbed(p)
        /\ \A p : Output(p)' = Output(p)
        /\ \A x \in TaskIds : Status'[x] = "completed" <=> Status[x] = "completed"
    BY <1>1, <1>2, <1>3 DEF Undisturbed, Output
  <1>5. OneWorker'
    <2> SUFFICES ASSUME NEW v \in Workers, Busy(v)', worker'[v].task \in Partitions,
                        Undisturbed(worker[v].task)'
                 PROVE  AssignedWorkerId'[worker'[v].task] = v
      BY DEF OneWorker
    <2>1. PICK p \in Partitions : p = worker[v].task /\ p \in TaskIds
      BY <1>1
    <2>2. worker'[v] = worker[v] /\ Busy(v) /\ Undisturbed(p)' /\ Undisturbed(p)
      BY <1>1, <1>4, <2>1 DEF Busy
    <2>3. AtWork(p)
      BY <2>1, <2>2 DEF AtWork, Busy
    <2>4. p \notin S \cup E
      BY <1>2, <1>3, <2>2, <2>3 DEF Undisturbed
    <2> QED BY <1>1, <1>3, <2>1, <2>2, <2>4 DEF OneWorker
  <1>6. Files'
    <2>1. ASSUME NEW v \in Workers PROVE FilesOf(v)'
      BY <1>1, <1>4 DEF Files, FilesOf, Busy
    <2>2. ASSUME NEW p \in Partitions PROVE FilesDone(p)'
      BY <1>1, <1>4 DEF Files, FilesDone
    <2> QED BY <2>1, <2>2 DEF Files
  <1>7. Ending'
    <2> SUFFICES ASSUME MapTasks # {} PROVE Ending'
      BY DEF Ending
    <2>1. (\A m \in MapTasks : Status'[m] = "completed") => IsReduceGenerated'
      BY <1>1, <1>4 DEF Ending
    <2>2. ASSUME coord' # "polling", gaveUp' \cap MapTasks = {}, NEW i \in DOMAIN Tasks'
          PROVE  Status'[Tasks'[i]] = "completed" \/ Tasks'[i] \in gaveUp'
      <3>1. CASE DoneTrue
        <4>1. Status[Tasks[i]] \in Finished \/ Skippable(Tasks[i])
          BY <1>1, <2>2, <3>1, NoStop DEF DoneTrue
        <4> QED BY <1>1, <1>2, <1>3, <1>4, <2>2, <3>1, <4>1 DEF Finished, Assignment
      <3>2. CASE ~DoneTrue
        BY <2>2, <3>2 DEF DoneFalse, DoneTimeout
      <3> QED BY <3>1, <3>2
    <2> QED BY <2>1, <2>2 DEF Ending
  <1> QED BY <1>5, <1>6, <1>7 DEF OutputInv

LEMMA OutputNext ==
    ASSUME IInv, OutputInv, [Next]_vars
    PROVE  OutputInv'
  <1>1. CASE Exit \/ UNCHANGED vars
    <2>1. /\ UNCHANGED <<Tasks, Status, AssignedWorkerId, IsReduceGenerated, pfile, short,
                         worker, out, dup, gaveUp, overrun, lost>>
          /\ coord' # "polling" => coord # "polling"
      BY <1>1 DEF Exit, vars
    <2>2. \A p : Output(p)' = Output(p) /\ (Undisturbed(p)' <=> Undisturbed(p))
      BY <2>1 DEF Output, Undisturbed
    <2> QED
      BY <2>1, <2>2 DEF OutputInv, OneWorker, Files, FilesOf, FilesDone, Ending, Busy
  <1> QED
    BY <1>1, OutputWork, OutputRequest, OutputReport, OutputDone
    DEF Next, WorkerStep, Work

LEMMA OutputInit == Init => OutputInv
  BY DEF Init, OutputInv, OneWorker, Files, FilesOf, FilesDone, Ending, Busy, IdleWorker,
         TaskIds

\* When Done has answered true and no map task was given up on, every partition
\* has its complete output and copy, made from every map task's output once
\* (Done, executeReducef, copyToWorkerInitDir), whichever workers are slow, fail
\* or are killed, except for what the code itself loses: a reduce task given up
\* on or run twice at a time, input that was not stored or does not read back,
\* and a file whose error was ignored.
THEOREM CompleteOutput == Spec => []OutputIsComplete
  <1>1. Init => OutputInv
    BY OutputInit
  <1>2. IInv /\ OutputInv /\ [Next]_vars => OutputInv'
    BY OutputNext
  <1>3. IInv /\ OutputInv => OutputIsComplete
    <2> SUFFICES ASSUME IInv, OutputInv, coord # "polling", gaveUp \cap MapTasks = {},
                        NEW m \in MapTasks,
                        NEW p \in Parts[m] \ (gaveUp \cup overrun \cup short)
                 PROVE  /\ pfile[p][m] = 1
                        /\ (\A n \in MapTasks : Text[n][p] = "whole") =>
                              /\ "out" \notin lost[p] => out[p] = "full"
                              /\ "dup" \notin lost[p] => dup[p] = "full"
      BY DEF OutputIsComplete
    <2>1. Listing /\ EveryMapCountedOnce /\ Files /\ Ending
      BY DEF IInv, OutputInv
    <2>2. \A i \in DOMAIN Tasks : Status[Tasks[i]] = "completed" \/ Tasks[i] \in gaveUp
      BY <2>1 DEF Ending
    <2>3. \A n \in MapTasks : Status[n] = "completed"
      BY <2>1, <2>2 DEF Listing, Listed
    <2>4. pfile[p][m] = 1 /\ Listed(p)
      BY <2>1, <2>3 DEF Ending, EveryMapCountedOnce
    <2>5. Status[p] = "completed" /\ p \in Partitions /\ Undisturbed(p)
      BY <2>2, <2>4, TaskAssumption DEF Listed, Undisturbed
    <2>6. (\A n \in MapTasks : Text[n][p] = "whole") => Output(p) = "full"
      BY DEF Output
    <2> QED BY <2>1, <2>4, <2>5, <2>6 DEF Files, FilesDone
  <1> QED BY <1>1, <1>2, <1>3, Invariance, PTL DEF Spec
=============================================================================
