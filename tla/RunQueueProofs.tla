--------------------------- MODULE RunQueueProofs ---------------------------
(***************************************************************************)
(* A whole build, for every run queue and whatever stops it: where an exit *)
(* code can be, that the build keeps the specification of the task queue   *)
(* with all that is proved of it, and what the end of a build tells.       *)
(***************************************************************************)
EXTENDS RunQueue, SequenceTheorems, FiniteSetTheorems, TLAPS

-----------------------------------------------------------------------------
(* The two workers and the sequences between them *)

LEMMA WorkerOfTask ==
  ASSUME NEW t \in Task
  PROVE  WorkerOf(t) \in Worker
BY RunQueueAssumption DEF WorkerOf

\* What is left of a pipe when its first message is taken.
LEMMA TailElements ==
  ASSUME NEW S, NEW s \in Seq(S), s # <<>>
  PROVE  /\ Tail(s) \in Seq(S)
         /\ 1 \in DOMAIN s /\ Head(s) = s[1] /\ s[1] \in S
         /\ \A i \in DOMAIN Tail(s) :
              i \in Nat /\ i + 1 \in DOMAIN s /\ i + 1 # 1 /\ Tail(s)[i] = s[i + 1]
BY HeadTailProperties, ElementOfSeq, LenProperties

\* Only the first message leaves a pipe.
LEMMA TailKeeps ==
  ASSUME NEW S, NEW s \in Seq(S), s # <<>>
  PROVE  \A i \in DOMAIN s :
           s[i] = Head(s) \/ (i - 1 \in DOMAIN Tail(s) /\ Tail(s)[i - 1] = s[i])
BY HeadTailProperties, LenProperties

\* A message that is written comes last.
LEMMA AppendElements ==
  ASSUME NEW S, NEW s \in Seq(S), NEW m \in S
  PROVE  /\ Append(s, m) \in Seq(S)
         /\ \A i \in DOMAIN Append(s, m) :
              \/ i \in DOMAIN s /\ Append(s, m)[i] = s[i]
              \/ i = Len(s) + 1 /\ Append(s, m)[i] = m
         /\ Len(s) + 1 \in DOMAIN Append(s, m) /\ Append(s, m)[Len(s) + 1] = m
         /\ \A i \in DOMAIN s : i \in DOMAIN Append(s, m) /\ Append(s, m)[i] = s[i]
         /\ Len(s) + 1 \notin DOMAIN s
BY AppendProperties, LenProperties

\* What a worker that dies has flushed.
LEMMA PrefixElements ==
  ASSUME NEW S, NEW s \in Seq(S), NEW n \in 0..Len(s)
  PROVE  /\ SubSeq(s, 1, n) \in Seq(S)
         /\ \A i \in DOMAIN SubSeq(s, 1, n) :
              i \in DOMAIN s /\ SubSeq(s, 1, n)[i] = s[i]
<1>1. \A i \in 1..n : s[i] \in S
  BY ElementOfSeq
<1>2. SubSeq(s, 1, n) \in Seq(S) /\ Len(SubSeq(s, 1, n)) = n
      /\ \A i \in 1..n : SubSeq(s, 1, n)[i] = s[i]
  BY <1>1, SubSeqProperties
<1>3. DOMAIN SubSeq(s, 1, n) = 1..n /\ DOMAIN s = 1..Len(s)
  BY <1>2, LenProperties
<1>4. QED
  BY <1>2, <1>3

-----------------------------------------------------------------------------
(* The types of the workers and of what the server reads from them *)

ReadingType == Seq(Worker \X {"poll", "read"})

WorkersTyped ==
  /\ WorkerTypeOK
  /\ reading \in ReadingType
  /\ rq_workers \subseteq Worker
  /\ pc \in Stages

LEMMA PipesType ==
  ASSUME NEW ws
  PROVE  Pipes(ws) \in Seq(Worker)
<1>1. Normal \in Worker /\ Fake \in Worker
  BY RunQueueAssumption
<1>2. /\ <<>> \in Seq(Worker)
      /\ <<Normal>> \in Seq(Worker) /\ <<Fake>> \in Seq(Worker)
  BY <1>1
<1>3. QED
  BY <1>2, ConcatProperties DEF Pipes

LEMMA ReadWorkersType ==
  read_workers \in ReadingType
<1> DEFINE ws == Pipes(rq_workers)
<1>1. ws \in Seq(Worker)
  BY PipesType
<1>2. Len(ws) \in Nat /\ 2 * Len(ws) \in Nat
  BY <1>1, LenProperties
<1>3. \A i \in 1..2 * Len(ws) : (i + 1) \div 2 \in 1..Len(ws)
  BY <1>2
<1>4. \A i \in 1..2 * Len(ws) : ws[(i + 1) \div 2] \in Worker
  BY <1>1, <1>3, ElementOfSeq
<1>5. read_workers \in [1..2 * Len(ws) -> Worker \X {"poll", "read"}]
  BY <1>4 DEF read_workers
<1>6. QED
  BY <1>2, <1>5, SeqDef DEF ReadingType

LEMMA QuittingType ==
  ASSUME NEW ws
  PROVE  /\ Quitting(Pipes(ws)) \in ReadingType
         /\ \A i \in DOMAIN Quitting(Pipes(ws)) : Quitting(Pipes(ws))[i][2] = "read"
<1>1. Pipes(ws) \in Seq(Worker) /\ Len(Pipes(ws)) \in Nat
      /\ DOMAIN Pipes(ws) = 1..Len(Pipes(ws))
  BY PipesType, LenProperties
<1>2. \A i \in 1..Len(Pipes(ws)) : Pipes(ws)[i] \in Worker
  BY <1>1, ElementOfSeq
<1>3. Quitting(Pipes(ws)) \in [1..Len(Pipes(ws)) -> Worker \X {"poll", "read"}]
      /\ \A i \in 1..Len(Pipes(ws)) : Quitting(Pipes(ws))[i][2] = "read"
  BY <1>1, <1>2 DEF Quitting
<1>4. QED
  BY <1>1, <1>3, SeqDef DEF ReadingType

\* What write() does to each pipe; the server writes no order to run a task
\* with it.
LEMMA WriteElements ==
  ASSUME WorkerTypeOK, NEW ws, NEW m \in {<<"finishnow">>, <<"quit">>}
  PROVE  /\ write(ws, m) \in [Worker -> Seq(Order)]
         /\ \A w \in Worker : \A i \in DOMAIN write(ws, m)[w] :
              \/ i \in DOMAIN stdin[w] /\ write(ws, m)[w][i] = stdin[w][i]
              \/ /\ w \in ws /\ process[w] = "up"
                 /\ write(ws, m)[w][i] = m
                 /\ \A t \in Task : write(ws, m)[w][i] # <<"runtask", t>>
<1>1. m \in Order /\ \A t \in Task : m # <<"runtask", t>>
  BY DEF Order
<1>2. ASSUME NEW w \in Worker
      PROVE  /\ stdin[w] \in Seq(Order)
             /\ \/ write(ws, m)[w] = stdin[w]
                \/ /\ w \in ws /\ process[w] = "up"
                   /\ write(ws, m)[w] = Append(stdin[w], m)
  BY DEF write, WorkerTypeOK
<1>3. ASSUME NEW w \in Worker
      PROVE  /\ write(ws, m)[w] \in Seq(Order)
             /\ \A i \in DOMAIN write(ws, m)[w] :
                  \/ i \in DOMAIN stdin[w] /\ write(ws, m)[w][i] = stdin[w][i]
                  \/ w \in ws /\ process[w] = "up" /\ write(ws, m)[w][i] = m
  <2>1. /\ Append(stdin[w], m) \in Seq(Order)
        /\ \A i \in DOMAIN Append(stdin[w], m) :
             \/ i \in DOMAIN stdin[w] /\ Append(stdin[w], m)[i] = stdin[w][i]
             \/ i = Len(stdin[w]) + 1 /\ Append(stdin[w], m)[i] = m
    <3>1. stdin[w] \in Seq(Order) /\ m \in Order
      BY <1>1, <1>2
    <3>2. QED
      BY <3>1, AppendElements
  <2>2. QED
    BY <1>2, <2>1
<1>4. write(ws, m) \in [Worker -> Seq(Order)]
  BY <1>3 DEF write
<1>5. QED
  BY <1>1, <1>3, <1>4, Zenon

\* WriteQuit writes to one pipe at most.
LEMMA QuitElements ==
  ASSUME WorkerTypeOK, NEW todo
  PROVE  /\ WriteQuit(todo) \in [Worker -> Seq(Order)]
         /\ \A w \in Worker : \A i \in DOMAIN WriteQuit(todo)[w] :
              \/ i \in DOMAIN stdin[w] /\ WriteQuit(todo)[w][i] = stdin[w][i]
              \/ \A t \in Task : WriteQuit(todo)[w][i] # <<"runtask", t>>
<1>1. CASE todo = <<>>
  BY <1>1 DEF WriteQuit, WorkerTypeOK
<1>2. CASE todo # <<>>
  <2> DEFINE ws == {Head(todo)[1]}
             m == <<"quit">>
  <2>1. WriteQuit(todo) = write(ws, m) /\ m \in {<<"finishnow">>, <<"quit">>}
    BY <1>2 DEF WriteQuit
  <2> HIDE DEF ws, m
  <2>2. QED
    BY <2>1, WriteElements
<1>3. QED
  BY <1>1, <1>2

-----------------------------------------------------------------------------
(* Where an exit code can be *)

\* An order that is written and not handled is for the right worker, is there
\* once, and its task has no process yet.
OrdersTracked ==
  \A w \in Worker : \A i \in DOMAIN stdin[w] : \A t \in Task :
    stdin[w][i] = <<"runtask", t>> =>
      /\ w = WorkerOf(t) /\ t \in build_stamps /\ child[t] = "none"
      /\ \A j \in DOMAIN stdin[w] : stdin[w][j] = <<"runtask", t>> => j = i

\* A worker waits for processes of tasks that the server expects from it.
PidsTracked ==
  \A w \in Worker : \A t \in build_pids[w] :
    w = WorkerOf(t) /\ t \in build_stamps /\ child[t] # "none"

\* An exit code in a pipe is there once, and waited for no more.
ReportsTracked ==
  \A w \in Worker : \A i \in DOMAIN stdout[w] : \A t \in Task :
    stdout[w][i] = t =>
      /\ w = WorkerOf(t) /\ t \in build_stamps /\ t \notin build_pids[w]
      /\ child[t] \in Ended
      /\ \A j \in DOMAIN stdout[w] : stdout[w][j] = t => j = i

\* A task with a process was started, and while it runs it is expected to end.
ChildrenTracked ==
  /\ build_stamps \subseteq runq_running
  /\ \A t \in Task : child[t] # "none" => t \in runq_running
  /\ \A t \in Task : child[t] \in Running => t \in build_stamps

\* The enforcement reads nothing, a teardown polls nobody.
ReadingInPlace ==
  /\ pc = "enforce" => reading = <<>>
  /\ pc \in {"teardown", "raised"} =>
       \A i \in DOMAIN reading : reading[i][2] = "read"

Tracked == OrdersTracked /\ PidsTracked /\ ReportsTracked /\ ChildrenTracked

Tracking == WorkersTyped /\ ReadingInPlace /\ Tracked

\* A step that leaves the workers' side and build_stamps alone.
LEMMA ElsewhereTracked ==
  ASSUME Tracked, UNCHANGED <<stdin, stdout, build_pids, child, build_stamps>>,
         runq_running \subseteq runq_running'
  PROVE  Tracked'
<1>1. OrdersTracked' /\ PidsTracked' /\ ReportsTracked'
  BY DEF Tracked, OrdersTracked, PidsTracked, ReportsTracked
<1>2. ChildrenTracked'
  BY DEF Tracked, ChildrenTracked
<1>3. QED
  BY <1>1, <1>2 DEF Tracked

\* A step that only takes or adds messages that order no task.
LEMMA OtherOrdersTracked ==
  ASSUME Tracked, UNCHANGED <<stdout, build_pids, child, build_stamps, runq_running>>,
         \A w \in Worker : \A i \in DOMAIN stdin'[w] :
           \/ i \in DOMAIN stdin[w] /\ stdin'[w][i] = stdin[w][i]
           \/ \A t \in Task : stdin'[w][i] # <<"runtask", t>>
  PROVE  Tracked'
<1>1. OrdersTracked'
  BY DEF Tracked, OrdersTracked
<1>2. PidsTracked' /\ ReportsTracked' /\ ChildrenTracked'
  BY DEF Tracked, PidsTracked, ReportsTracked, ChildrenTracked
<1>3. QED
  BY <1>1, <1>2 DEF Tracked

-----------------------------------------------------------------------------
(* The steps of the server keep track *)

\* What reading can become, besides a list of its own.
LEMMA ReadingTypes ==
  /\ <<>> \in ReadingType
  /\ read_workers \in ReadingType
  /\ reading \in ReadingType /\ reading # <<>> => Tail(reading) \in ReadingType
<1>1. reading \in ReadingType /\ reading # <<>> => Tail(reading) \in ReadingType
  BY HeadTailProperties DEF ReadingType
<1>2. QED
  BY <1>1, ReadWorkersType DEF ReadingType

\* A pipe that was polled or read is taken off the list.
LEMMA ReadingTail ==
  ASSUME WorkersTyped, ReadingInPlace, reading # <<>>,
         reading' = Tail(reading), UNCHANGED pc
  PROVE  ReadingInPlace'
<1>1. pc # "enforce"
  BY DEF ReadingInPlace
<1>2. ASSUME pc \in {"teardown", "raised"}, NEW i \in DOMAIN reading'
      PROVE  reading'[i][2] = "read"
  BY <1>2, TailElements DEF WorkersTyped, ReadingType, ReadingInPlace
<1>3. QED
  BY <1>1, <1>2 DEF ReadingInPlace

\* The steps that neither write to a worker nor change what it was given.
LEMMA ServerKeeps ==
  ASSUME Tracking, UNCHANGED <<workerVars, build_stamps>>,
         runq_running \subseteq runq_running',
         reading' \in ReadingType, rq_workers' \subseteq Worker, pc' \in Stages,
         ReadingInPlace'
  PROVE  Tracking'
<1>1. WorkersTyped'
  BY DEF Tracking, WorkersTyped, WorkerTypeOK, workerVars
<1>2. Tracked'
  BY ElsewhereTracked DEF Tracking, workerVars
<1>3. QED
  BY <1>1, <1>2 DEF Tracking

\* The steps that write "finishnow" or "quit".
LEMMA WritingKeeps ==
  ASSUME Tracking,
         UNCHANGED <<process, stdout, build_pids, tokill, child, build_stamps,
                     runq_running, rq_workers>>,
         reading' \in ReadingType, pc' \in Stages, ReadingInPlace',
         \/ stdin' = stdin
         \/ \E ws, m : m \in {<<"finishnow">>, <<"quit">>} /\ stdin' = write(ws, m)
         \/ \E todo : stdin' = WriteQuit(todo)
  PROVE  Tracking'
<1>1. WorkerTypeOK
  BY DEF Tracking, WorkersTyped
<1>2. /\ stdin' \in [Worker -> Seq(Order)]
      /\ \A w \in Worker : \A i \in DOMAIN stdin'[w] :
           \/ i \in DOMAIN stdin[w] /\ stdin'[w][i] = stdin[w][i]
           \/ \A t \in Task : stdin'[w][i] # <<"runtask", t>>
  <2>1. CASE stdin' = stdin
    BY <1>1, <2>1 DEF WorkerTypeOK
  <2>2. ASSUME NEW ws, NEW m \in {<<"finishnow">>, <<"quit">>}, stdin' = write(ws, m)
        PROVE  <1>2
    <3>1. /\ write(ws, m) \in [Worker -> Seq(Order)]
          /\ \A w \in Worker : \A i \in DOMAIN write(ws, m)[w] :
               \/ i \in DOMAIN stdin[w] /\ write(ws, m)[w][i] = stdin[w][i]
               \/ \A t \in Task : write(ws, m)[w][i] # <<"runtask", t>>
      BY <1>1, WriteElements
    <3>2. QED
      BY <2>2, <3>1, Zenon
  <2>3. ASSUME NEW todo, stdin' = WriteQuit(todo)
        PROVE  <1>2
    BY <1>1, <2>3, QuitElements, Zenon
  <2>4. QED
    BY <2>1, <2>2, <2>3
<1>3. WorkersTyped'
  BY <1>2 DEF Tracking, WorkersTyped, WorkerTypeOK
<1>4. Tracked'
  BY <1>2, OtherOrdersTracked DEF Tracking
<1>5. QED
  BY <1>3, <1>4 DEF Tracking

\* The steps of the first kind.
LEMMA ReadingStepsKeep ==
  ASSUME Tracking,
         \/ ReadDone \/ MonitorBegin \/ MonitorEnd \/ ExecuteBegin \/ ExecuteWait
         \/ CleanUp \/ TeardownDone \/ Return \/ ExceptionHandled
         \/ \E cmd \in Shutdowns : Command(cmd)
  PROVE  Tracking'
<1>1. UNCHANGED <<workerVars, build_stamps, runq_running>>
  BY DEF ReadDone, MonitorBegin, MonitorEnd, ExecuteBegin, ExecuteWait, CleanUp, finish,
         TeardownDone, Return, ExceptionHandled, ExecuteAborted, Command, queueVars
<1>2. reading' \in ReadingType
  BY ReadingTypes
  DEF ReadDone, MonitorBegin, MonitorEnd, ExecuteBegin, ExecuteWait, CleanUp, FinishReads,
      TeardownDone, Return, ExceptionHandled, Command, Tracking, WorkersTyped
<1>3. rq_workers' \subseteq Worker /\ pc' \in Stages
  BY DEF ReadDone, MonitorBegin, MonitorEnd, ExecuteBegin, ExecuteWait, CleanUp, Stages,
         TeardownDone, Return, ExceptionHandled, Command, Tracking, WorkersTyped
<1>4. ReadingInPlace'
  <2>1. CASE ReadDone
    BY <2>1, ReadingTail DEF ReadDone, Tracking
  <2>2. CASE ~ReadDone
    BY <2>2 DEF MonitorBegin, MonitorEnd, ExecuteBegin, ExecuteWait, CleanUp, At,
         TeardownDone, Return, ExceptionHandled, Command, Tracking, ReadingInPlace
  <2>3. QED
    BY <2>1, <2>2
<1>5. QED
  BY <1>1, <1>2, <1>3, <1>4, ServerKeeps

LEMMA ExecuteStepsKeep ==
  ASSUME Tracking, Enforce \/ ExecuteHere
  PROVE  Tracking'
<1>1. UNCHANGED <<workerVars, build_stamps, reading, rq_workers>>
      /\ reading = <<>> /\ pc' \in {pc, "cleanup"}
  BY DEF Enforce, ExecuteHere, At, EnforceSkip, EnforceDone, ExecuteSkip, ExecuteNoExec,
         ExecuteSpawnFails, build_taskdepdata, ExecuteFinished, task_skip, queueVars
<1>2. runq_running \subseteq runq_running'
  BY DEF Enforce, ExecuteHere, EnforceSkip, EnforceDone, ExecuteSkip, ExecuteNoExec,
         ExecuteSpawnFails, build_taskdepdata, ExecuteFinished, task_skip, queueVars
<1>3. QED
  BY <1>1, <1>2, ServerKeeps, ReadingTypes
  DEF Tracking, WorkersTyped, ReadingInPlace, Stages

LEMMA WritingStepsKeep ==
  ASSUME Tracking,
         \/ PollWorkers \/ BuildTargetsIdle \/ End \/ WorkerGone
         \/ ExecuteException \/ \E action \in DiskActions : DiskFull(action)
  PROVE  Tracking'
<1>1. CASE PollWorkers \/ WorkerGone
  <2>1. reading # <<>> /\ reading' = Tail(reading)
        /\ UNCHANGED <<process, stdout, build_pids, tokill, child, build_stamps,
                       runq_running, rq_workers, pc>>
    BY <1>1 DEF PollWorkers, WorkerGone, finish_now, queueVars
  <2>2. ReadingInPlace' /\ reading' \in ReadingType /\ pc' \in Stages
    BY <2>1, ReadingTail, ReadingTypes DEF Tracking, WorkersTyped
  <2>3. \/ stdin' = stdin
        \/ \E ws, m : m \in {<<"finishnow">>, <<"quit">>} /\ stdin' = write(ws, m)
        \/ \E todo : stdin' = WriteQuit(todo)
    BY <1>1 DEF PollWorkers, WorkerGone
  <2>4. QED
    BY <2>1, <2>2, <2>3, WritingKeeps
<1>2. CASE BuildTargetsIdle \/ \E action \in DiskActions : DiskFull(action)
  <2>1. /\ pc' \notin {"enforce", "teardown", "raised"} /\ pc' \in Stages
        /\ UNCHANGED <<process, stdout, build_pids, tokill, child, build_stamps,
                       runq_running, rq_workers>>
    BY <1>2 DEF BuildTargetsIdle, DiskFull, At, finish, finish_now, queueVars, Stages
  <2>2. reading' \in ReadingType
    BY <1>2, ReadingTypes DEF BuildTargetsIdle, DiskFull, FinishReads, Tracking, WorkersTyped
  <2>3. \/ stdin' = stdin
        \/ \E ws, m : m \in {<<"finishnow">>, <<"quit">>} /\ stdin' = write(ws, m)
    BY <1>2 DEF BuildTargetsIdle, DiskFull
  <2>4. QED
    BY <2>1, <2>2, <2>3, WritingKeeps DEF ReadingInPlace
<1>3. CASE End \/ ExecuteException
  <2>1. /\ \/ \E stage \in {"teardown", "raised"} : StartTeardown(stage)
           \/ pc' = "idle" /\ UNCHANGED <<reading, stdin>>
        /\ UNCHANGED <<process, stdout, build_pids, tokill, child, build_stamps,
                       runq_running, rq_workers>>
    BY <1>3 DEF End, ExecuteException, ExecuteRaises, ExecuteWriteFails,
                build_taskdepdata, queueVars
  <2>2. CASE pc' = "idle" /\ UNCHANGED <<reading, stdin>>
    BY <2>1, <2>2, WritingKeeps DEF ReadingInPlace, Tracking, WorkersTyped, Stages
  <2>3. CASE \E stage \in {"teardown", "raised"} : StartTeardown(stage)
    <3>1. reading' = Quitting(Pipes(rq_workers)) /\ pc' \in {"teardown", "raised"}
          /\ \E todo : stdin' = WriteQuit(todo)
      BY <2>3 DEF StartTeardown
    <3>2. reading' \in ReadingType /\ ReadingInPlace' /\ pc' \in Stages
      BY <3>1, QuittingType DEF ReadingInPlace, Stages
    <3>3. QED
      BY <2>1, <3>1, <3>2, WritingKeeps
  <2>4. QED
    BY <2>1, <2>2, <2>3
<1>4. QED
  BY <1>1, <1>2, <1>3

\* runqueue_process_waitpid takes the task out of build_stamps and starts none.
LEMMA WaitpidEffect ==
  ASSUME NEW t, NEW ok, runqueue_process_waitpid(t, ok)
  PROVE  build_stamps' = build_stamps \ {t} /\ runq_running' = runq_running
BY DEF runqueue_process_waitpid, task_complete, task_fail

LEMMA ReadExitcodeKeeps ==
  ASSUME Tracking, ReadExitcode
  PROVE  Tracking'
<1> DEFINE w == Head(reading)[1]
           t == Head(stdout[w])
<1>1. w \in Worker /\ reading # <<>>
  BY TailElements DEF ReadExitcode, Tracking, WorkersTyped, ReadingType
<1>2. stdout[w] \in Seq(Task) /\ stdout[w] # <<>>
  BY <1>1 DEF ReadExitcode, Tracking, WorkersTyped, WorkerTypeOK
<1>3. /\ 1 \in DOMAIN stdout[w] /\ t = stdout[w][1] /\ t \in Task
      /\ Tail(stdout[w]) \in Seq(Task)
      /\ \A i \in DOMAIN Tail(stdout[w]) :
           i \in Nat /\ i + 1 \in DOMAIN stdout[w] /\ i + 1 # 1
           /\ Tail(stdout[w])[i] = stdout[w][i + 1]
  BY <1>2, TailElements
<1>4. /\ build_stamps' = build_stamps \ {t} /\ runq_running' = runq_running
      /\ stdout' = [stdout EXCEPT ![w] = Tail(@)]
      /\ UNCHANGED <<process, stdin, build_pids, tokill, child, pc, reading, rq_workers>>
  BY WaitpidEffect DEF ReadExitcode
<1> HIDE DEF w, t
<1>5. /\ w = WorkerOf(t) /\ t \in build_stamps /\ t \notin build_pids[w] /\ child[t] \in Ended
      /\ \A j \in DOMAIN stdout[w] : stdout[w][j] = t => j = 1
  BY <1>1, <1>3 DEF Tracking, Tracked, ReportsTracked
<1>6. WorkersTyped' /\ ReadingInPlace'
  BY <1>1, <1>3, <1>4 DEF Tracking, WorkersTyped, WorkerTypeOK, ReadingInPlace
<1>7. OrdersTracked'
  <2>1. child[t] # "none"
    BY <1>5 DEF Ended
  <2>2. QED
    BY <1>4, <2>1 DEF Tracking, Tracked, OrdersTracked
<1>8. PidsTracked'
  BY <1>4, <1>5 DEF Tracking, Tracked, PidsTracked
<1>9. ReportsTracked'
  <2> SUFFICES ASSUME NEW v \in Worker, NEW i \in DOMAIN stdout'[v], NEW u \in Task,
                      stdout'[v][i] = u
               PROVE  /\ v = WorkerOf(u) /\ u \in build_stamps' /\ u \notin build_pids[v]
                      /\ child[u] \in Ended
                      /\ \A j \in DOMAIN stdout'[v] : stdout'[v][j] = u => j = i
    BY <1>4 DEF ReportsTracked
  <2>1. CASE v = w
    <3>1. stdout'[v] = Tail(stdout[w])
      BY <1>4, <2>1 DEF Tracking, WorkersTyped, WorkerTypeOK
    <3>2. /\ i \in Nat /\ i + 1 \in DOMAIN stdout[w] /\ i + 1 # 1
          /\ stdout[w][i + 1] = u
      BY <1>3, <3>1
    <3>3. \A j \in DOMAIN stdout'[v] : stdout'[v][j] = u => j + 1 = i + 1
      BY <1>1, <1>3, <3>1, <3>2 DEF Tracking, Tracked, ReportsTracked
    <3>4. \A j \in DOMAIN stdout'[v] : stdout'[v][j] = u => j = i
      BY <1>3, <3>1, <3>2, <3>3
    <3>5. u # t
      BY <1>5, <3>2
    <3>6. QED
      BY <1>1, <1>4, <2>1, <3>2, <3>4, <3>5 DEF Tracking, Tracked, ReportsTracked
  <2>2. CASE v # w
    <3>1. stdout'[v] = stdout[v]
      BY <1>4, <2>2 DEF Tracking, WorkersTyped, WorkerTypeOK
    <3>2. v = WorkerOf(u) /\ u # t
      BY <1>5, <2>2, <3>1 DEF Tracking, Tracked, ReportsTracked
    <3>3. QED
      BY <1>4, <3>1, <3>2 DEF Tracking, Tracked, ReportsTracked
  <2>3. QED
    BY <2>1, <2>2
<1>10. ChildrenTracked'
  BY <1>4, <1>5 DEF Tracking, Tracked, ChildrenTracked, Ended, Running
<1>11. QED
  BY <1>6, <1>7, <1>8, <1>9, <1>10 DEF Tracking, Tracked

\* A task that is launched has no process, no order and no exit code.
LEMMA LaunchKeeps ==
  ASSUME Tracking, NEW t \in Task, ExecuteLaunchOn(t)
  PROVE  Tracking'
<1> DEFINE w == WorkerOf(t)
           m == <<"runtask", t>>
<1>1. w \in Worker /\ m \in Order
  BY WorkerOfTask DEF Order
<1>2. /\ t \notin runq_running
      /\ build_stamps' = build_stamps \union {t}
      /\ runq_running' = runq_running \union {t}
      /\ stdin' = [stdin EXCEPT ![w] = Append(@, m)]
      /\ UNCHANGED <<stdout, build_pids, tokill, child>>
  BY DEF ExecuteLaunchOn, ExecuteLaunch, sched_next, Ready, Candidates, build_taskdepdata
<1>3. stdin[w] \in Seq(Order)
  BY <1>1 DEF Tracking, WorkersTyped, WorkerTypeOK
<1>4. /\ Append(stdin[w], m) \in Seq(Order)
      /\ \A i \in DOMAIN Append(stdin[w], m) :
           \/ i \in DOMAIN stdin[w] /\ Append(stdin[w], m)[i] = stdin[w][i]
           \/ i = Len(stdin[w]) + 1 /\ Append(stdin[w], m)[i] = m
  BY <1>1, <1>3, AppendElements
<1>5. child[t] = "none" /\ t \notin build_stamps
  BY <1>2 DEF Tracking, Tracked, ChildrenTracked
<1>6. WorkersTyped' /\ ReadingInPlace'
  <2>1. /\ process' \in [Worker -> {"none", "up", "dead"}]
        /\ rq_workers' \subseteq Worker
    BY RunQueueAssumption DEF ExecuteLaunchOn, Tracking, WorkersTyped, WorkerTypeOK
  <2>2. stdin' \in [Worker -> Seq(Order)]
    BY <1>1, <1>2, <1>4 DEF Tracking, WorkersTyped, WorkerTypeOK
  <2>3. pc' = "cleanup" /\ reading' \in {<<>>, read_workers'}
    BY DEF ExecuteLaunchOn
  <2>4. read_workers' \in ReadingType
    <3>1. (read_workers \in ReadingType)'
      BY ReadWorkersType, PTL
    <3>2. QED
      BY <3>1 DEF ReadingType
  <2>5. QED
    BY <1>2, <2>1, <2>2, <2>3, <2>4, ReadingTypes
    DEF Tracking, WorkersTyped, WorkerTypeOK, ReadingInPlace, Stages
<1> HIDE DEF w, m
<1>7. OrdersTracked'
  <2> SUFFICES ASSUME NEW v \in Worker, NEW i \in DOMAIN stdin'[v], NEW u \in Task,
                      stdin'[v][i] = <<"runtask", u>>
               PROVE  /\ v = WorkerOf(u) /\ u \in build_stamps' /\ child[u] = "none"
                      /\ \A j \in DOMAIN stdin'[v] : stdin'[v][j] = <<"runtask", u>> => j = i
    BY <1>2 DEF OrdersTracked
  <2>1. ASSUME NEW x \in Worker, NEW k \in DOMAIN stdin[x]
        PROVE  stdin[x][k] # m
    BY <1>5, <2>1 DEF Tracking, Tracked, OrdersTracked, m
  <2>2. stdin'[v] = IF v = w THEN Append(stdin[w], m) ELSE stdin[v]
    BY <1>1, <1>2 DEF Tracking, WorkersTyped, WorkerTypeOK
  <2>3. CASE u = t
    <3>1. v = w /\ i = Len(stdin[w]) + 1
      BY <1>1, <1>4, <2>1, <2>2, <2>3 DEF m
    <3>2. \A j \in DOMAIN stdin'[v] : stdin'[v][j] = <<"runtask", u>> => j = i
      BY <1>1, <1>4, <2>1, <2>2, <2>3, <3>1 DEF m
    <3>3. QED
      BY <1>2, <1>5, <2>3, <3>1, <3>2 DEF w
  <2>4. CASE u # t
    <3>1. \A j \in DOMAIN stdin'[v] :
            stdin'[v][j] = <<"runtask", u>> => j \in DOMAIN stdin[v] /\ stdin[v][j] = <<"runtask", u>>
      <4>1. m # <<"runtask", u>>
        BY <2>4 DEF m
      <4>2. QED
        BY <1>4, <2>2, <4>1
    <3>2. QED
      BY <1>2, <3>1 DEF Tracking, Tracked, OrdersTracked
  <2>5. QED
    BY <2>3, <2>4
<1>8. PidsTracked' /\ ReportsTracked'
  BY <1>2 DEF Tracking, Tracked, PidsTracked, ReportsTracked
<1>9. ChildrenTracked'
  BY <1>2, <1>5 DEF Tracking, Tracked, ChildrenTracked
<1>10. QED
  BY <1>6, <1>7, <1>8, <1>9 DEF Tracking, Tracked

-----------------------------------------------------------------------------
(* The steps of the workers and the task processes keep track *)

\* A worker takes its next order.
LEMMA OrderTaken ==
  ASSUME Tracking, NEW w \in Worker, NEW m, Handles(w, m)
  PROVE  /\ stdin' \in [Worker -> Seq(Order)]
         /\ \E i \in DOMAIN stdin[w] : stdin[w][i] = m
         /\ \A v \in Worker : \A i \in DOMAIN stdin'[v] :
              \E k \in DOMAIN stdin[v] :
                /\ stdin'[v][i] = stdin[v][k]
                /\ IF v = w THEN k = i + 1 /\ k # 1 /\ stdin[v][1] = m /\ 1 \in DOMAIN stdin[v]
                            ELSE k = i
<1>1. stdin[w] \in Seq(Order) /\ stdin[w] # <<>> /\ Head(stdin[w]) = m
      /\ stdin' = [stdin EXCEPT ![w] = Tail(@)]
  BY DEF Handles, Tracking, WorkersTyped, WorkerTypeOK
<1>2. /\ Tail(stdin[w]) \in Seq(Order)
      /\ 1 \in DOMAIN stdin[w] /\ stdin[w][1] = m
      /\ \A i \in DOMAIN Tail(stdin[w]) :
           i \in Nat /\ i + 1 \in DOMAIN stdin[w] /\ i + 1 # 1
           /\ Tail(stdin[w])[i] = stdin[w][i + 1]
  BY <1>1, TailElements
<1>3. \A v \in Worker : stdin'[v] = IF v = w THEN Tail(stdin[w]) ELSE stdin[v]
  BY <1>1 DEF Tracking, WorkersTyped, WorkerTypeOK
<1>4. stdin' \in [Worker -> Seq(Order)]
  BY <1>1, <1>2 DEF Tracking, WorkersTyped, WorkerTypeOK
<1>5. QED
  BY <1>2, <1>3, <1>4

\* Taking an order brings no other one in.
LEMMA OthersStay ==
  ASSUME Tracking, NEW w \in Worker, NEW m, Handles(w, m),
         NEW v \in Worker, NEW i \in DOMAIN stdin'[v], NEW u \in Task,
         stdin'[v][i] = <<"runtask", u>>
  PROVE  /\ m # <<"runtask", u>>
         /\ v = WorkerOf(u) /\ u \in build_stamps /\ child[u] = "none"
         /\ \A j \in DOMAIN stdin'[v] : stdin'[v][j] = <<"runtask", u>> => j = i
<1>a. /\ stdin' \in [Worker -> Seq(Order)]
      /\ \E k \in DOMAIN stdin[w] : stdin[w][k] = m
      /\ \A x \in Worker : \A j \in DOMAIN stdin'[x] :
           \E k \in DOMAIN stdin[x] :
             /\ stdin'[x][j] = stdin[x][k]
             /\ IF x = w THEN k = j + 1 /\ k # 1 /\ stdin[x][1] = m /\ 1 \in DOMAIN stdin[x]
                         ELSE k = j
  BY OrderTaken
<1>0. \A x \in Worker : \A k \in DOMAIN stdin'[x] : k \in Nat
  BY <1>a, LenProperties
<1>1. PICK k \in DOMAIN stdin[v] :
        /\ stdin[v][k] = <<"runtask", u>>
        /\ IF v = w THEN k = i + 1 /\ k # 1 /\ stdin[v][1] = m /\ 1 \in DOMAIN stdin[v]
                    ELSE k = i
  BY <1>a
<1>2. /\ v = WorkerOf(u) /\ u \in build_stamps /\ child[u] = "none"
      /\ \A j \in DOMAIN stdin[v] : stdin[v][j] = <<"runtask", u>> => j = k
  BY <1>1 DEF Tracking, Tracked, OrdersTracked
<1>3. m # <<"runtask", u>>
  <2>1. CASE v = w
    BY <1>1, <1>2, <2>1
  <2>2. CASE v # w
    <3>1. ASSUME m = <<"runtask", u>> PROVE w = WorkerOf(u)
      BY <1>a, <3>1 DEF Tracking, Tracked, OrdersTracked
    <3>2. QED
      BY <1>2, <2>2, <3>1
  <2>3. QED
    BY <2>1, <2>2
<1>4. ASSUME NEW j \in DOMAIN stdin'[v], stdin'[v][j] = <<"runtask", u>>
      PROVE  j = i
  <2>1. PICK l \in DOMAIN stdin[v] :
          stdin[v][l] = <<"runtask", u>> /\ IF v = w THEN l = j + 1 ELSE l = j
    BY <1>4, <1>a
  <2>2. l = k
    BY <1>2, <2>1
  <2>3. i \in Nat /\ j \in Nat
    BY <1>0, <1>4
  <2>4. QED
    BY <1>1, <2>1, <2>2, <2>3
<1>5. QED
  BY <1>2, <1>3, <1>4

LEMMA RuntaskKeeps ==
  ASSUME Tracking, NEW w \in Worker, NEW t \in Task, handle_runtask(w, t),
         UNCHANGED serverVars
  PROVE  Tracking'
<1>1. /\ Handles(w, <<"runtask", t>>)
      /\ child' = [child EXCEPT ![t] = "forked"]
      /\ build_pids' = [build_pids EXCEPT ![w] = @ \union {t}]
      /\ UNCHANGED <<process, stdout, tokill, build_stamps, runq_running, reading,
                     rq_workers, pc>>
  BY DEF handle_runtask, serverVars, queueVars
<1>2. w = WorkerOf(t) /\ t \in build_stamps /\ child[t] = "none"
  <2>1. \E i \in DOMAIN stdin[w] : stdin[w][i] = <<"runtask", t>>
    BY <1>1, OrderTaken
  <2>2. QED
    BY <2>1 DEF Tracking, Tracked, OrdersTracked
<1>3. /\ \A u \in Task : child'[u] = IF u = t THEN "forked" ELSE child[u]
      /\ \A v \in Worker :
           build_pids'[v] = IF v = w THEN build_pids[v] \union {t} ELSE build_pids[v]
  BY <1>1 DEF Tracking, WorkersTyped, WorkerTypeOK
<1>4. WorkersTyped' /\ ReadingInPlace'
  <2>1. stdin' \in [Worker -> Seq(Order)]
    BY <1>1, OrderTaken
  <2>2. QED
    BY <1>1, <2>1 DEF Tracking, WorkersTyped, WorkerTypeOK, ReadingInPlace, Running
<1>5. OrdersTracked'
  <2> SUFFICES ASSUME NEW v \in Worker, NEW i \in DOMAIN stdin'[v], NEW u \in Task,
                      stdin'[v][i] = <<"runtask", u>>
               PROVE  /\ v = WorkerOf(u) /\ u \in build_stamps' /\ child'[u] = "none"
                      /\ \A j \in DOMAIN stdin'[v] : stdin'[v][j] = <<"runtask", u>> => j = i
    BY DEF OrdersTracked
  <2>1. /\ <<"runtask", t>> # <<"runtask", u>>
        /\ v = WorkerOf(u) /\ u \in build_stamps /\ child[u] = "none"
        /\ \A j \in DOMAIN stdin'[v] : stdin'[v][j] = <<"runtask", u>> => j = i
    BY <1>1, OthersStay
  <2>2. u # t
    BY <2>1
  <2>3. QED
    BY <1>1, <1>3, <2>1, <2>2
<1>6. PidsTracked'
  BY <1>1, <1>2, <1>3 DEF Tracking, WorkersTyped, WorkerTypeOK, Tracked, PidsTracked
<1>7. ReportsTracked'
  BY <1>1, <1>2, <1>3 DEF Tracking, Tracked, ReportsTracked, Ended
<1>8. ChildrenTracked'
  BY <1>1, <1>2, <1>3 DEF Tracking, Tracked, ChildrenTracked
<1>9. QED
  BY <1>4, <1>5, <1>6, <1>7, <1>8 DEF Tracking, Tracked

LEMMA OtherOrderKeeps ==
  ASSUME Tracking, NEW w \in Worker, handle_finishnow(w) \/ handle_quit(w),
         UNCHANGED serverVars
  PROVE  Tracking'
<1>1. /\ \E m : Handles(w, m)
      /\ UNCHANGED <<stdout, build_pids, child, build_stamps, runq_running, reading,
                     rq_workers, pc>>
  BY DEF handle_finishnow, handle_quit, serverVars, queueVars
<1>2. WorkersTyped' /\ ReadingInPlace'
  <2>1. stdin' \in [Worker -> Seq(Order)]
    BY <1>1, OrderTaken
  <2>2. /\ process' \in [Worker -> {"none", "up", "dead"}]
        /\ tokill' \in [Worker -> SUBSET Task]
    BY DEF handle_finishnow, handle_quit, Tracking, WorkersTyped, WorkerTypeOK
  <2>3. QED
    BY <1>1, <2>1, <2>2 DEF Tracking, WorkersTyped, WorkerTypeOK, ReadingInPlace
<1>3. OrdersTracked'
  BY <1>1, OthersStay DEF OrdersTracked
<1>4. PidsTracked' /\ ReportsTracked' /\ ChildrenTracked'
  BY <1>1 DEF Tracking, Tracked, PidsTracked, ReportsTracked, ChildrenTracked
<1>5. QED
  BY <1>2, <1>3, <1>4 DEF Tracking, Tracked

LEMMA WaitpidKeeps ==
  ASSUME Tracking, NEW w \in Worker, NEW t \in Task, process_waitpid(w, t),
         UNCHANGED serverVars
  PROVE  Tracking'
<1>1. /\ t \in build_pids[w] /\ child[t] \in Ended
      /\ build_pids' = [build_pids EXCEPT ![w] = @ \ {t}]
      /\ stdout' = [stdout EXCEPT ![w] = Append(@, t)]
      /\ UNCHANGED <<process, stdin, tokill, child, build_stamps, runq_running, reading,
                     rq_workers, pc>>
  BY DEF process_waitpid, serverVars, queueVars
<1>2. w = WorkerOf(t) /\ t \in build_stamps
  BY <1>1 DEF Tracking, Tracked, PidsTracked
<1>3. stdout[w] \in Seq(Task)
  BY DEF Tracking, WorkersTyped, WorkerTypeOK
<1>4. /\ Append(stdout[w], t) \in Seq(Task)
      /\ \A i \in DOMAIN Append(stdout[w], t) :
           \/ i \in DOMAIN stdout[w] /\ Append(stdout[w], t)[i] = stdout[w][i]
           \/ i = Len(stdout[w]) + 1 /\ Append(stdout[w], t)[i] = t
  BY <1>3, AppendElements
<1>5. /\ \A v \in Worker :
           stdout'[v] = IF v = w THEN Append(stdout[w], t) ELSE stdout[v]
      /\ \A v \in Worker :
           build_pids'[v] = IF v = w THEN build_pids[v] \ {t} ELSE build_pids[v]
  BY <1>1 DEF Tracking, WorkersTyped, WorkerTypeOK
<1>6. WorkersTyped' /\ ReadingInPlace'
  BY <1>1, <1>4, <1>5 DEF Tracking, WorkersTyped, WorkerTypeOK, ReadingInPlace
<1>7. OrdersTracked' /\ ChildrenTracked'
  BY <1>1 DEF Tracking, Tracked, OrdersTracked, ChildrenTracked
<1>8. PidsTracked'
  BY <1>1, <1>5 DEF Tracking, Tracked, PidsTracked
<1>9. ReportsTracked'
  <2>1. \A v \in Worker : \A k \in DOMAIN stdout[v] : stdout[v][k] # t
    BY <1>1, <1>2 DEF Tracking, Tracked, ReportsTracked
  <2> SUFFICES ASSUME NEW v \in Worker, NEW i \in DOMAIN stdout'[v], NEW u \in Task,
                      stdout'[v][i] = u
               PROVE  /\ v = WorkerOf(u) /\ u \in build_stamps /\ u \notin build_pids'[v]
                      /\ child[u] \in Ended
                      /\ \A j \in DOMAIN stdout'[v] : stdout'[v][j] = u => j = i
    BY <1>1 DEF ReportsTracked
  <2>a. \A j \in DOMAIN stdout'[v] :
          \/ j \in DOMAIN stdout[v] /\ stdout'[v][j] = stdout[v][j]
          \/ v = w /\ j = Len(stdout[w]) + 1 /\ stdout'[v][j] = t
    <3>1. CASE v = w
      <4>1. stdout'[v] = Append(stdout[w], t)
        BY <1>5, <3>1
      <4>2. QED
        BY <1>4, <3>1, <4>1
    <3>2. CASE v # w
      BY <1>5, <3>2
    <3>3. QED
      BY <3>1, <3>2
  <2>b. build_pids'[v] \subseteq build_pids[v] /\ (v = w => t \notin build_pids'[v])
    BY <1>5
  <2>2. CASE u = t
    <3>1. v = w /\ i = Len(stdout[w]) + 1
      BY <2>1, <2>2, <2>a
    <3>2. \A j \in DOMAIN stdout'[v] : stdout'[v][j] = u => j = i
      BY <2>1, <2>2, <2>a, <3>1
    <3>3. QED
      BY <1>1, <1>2, <2>2, <2>b, <3>1, <3>2
  <2>3. CASE u # t
    <3>1. \A j \in DOMAIN stdout'[v] :
            stdout'[v][j] = u => j \in DOMAIN stdout[v] /\ stdout[v][j] = u
      BY <2>3, <2>a
    <3>2. /\ v = WorkerOf(u) /\ u \in build_stamps /\ u \notin build_pids[v]
          /\ child[u] \in Ended
          /\ \A j \in DOMAIN stdout[v] : stdout[v][j] = u => j = i
      BY <3>1 DEF Tracking, Tracked, ReportsTracked
    <3>3. QED
      BY <2>b, <3>1, <3>2
  <2>4. QED
    BY <2>2, <2>3
<1>10. QED
  BY <1>6, <1>7, <1>8, <1>9 DEF Tracking, Tracked

\* A process ends, of itself or killed.
LEMMA EndKeeps ==
  ASSUME Tracking, NEW t \in Task, NEW code \in Ended, child[t] = "running",
         child' = [child EXCEPT ![t] = code],
         UNCHANGED <<process, stdin, stdout, serverVars>>,
         build_pids' \in [Worker -> SUBSET Task], tokill' \in [Worker -> SUBSET Task],
         \A w \in Worker : build_pids'[w] \subseteq build_pids[w]
  PROVE  Tracking'
<1>1. UNCHANGED <<build_stamps, runq_running, reading, rq_workers, pc>>
  BY DEF serverVars, queueVars
<1>2. \A u \in Task : child'[u] = IF u = t THEN code ELSE child[u]
  BY DEF Tracking, WorkersTyped, WorkerTypeOK
<1>3. WorkersTyped' /\ ReadingInPlace'
  BY <1>1 DEF Tracking, WorkersTyped, WorkerTypeOK, ReadingInPlace
<1>4. OrdersTracked'
  BY <1>1, <1>2 DEF Tracking, Tracked, OrdersTracked
<1>5. PidsTracked'
  BY <1>1, <1>2 DEF Tracking, Tracked, PidsTracked, Ended, WorkersTyped, WorkerTypeOK
<1>6. ReportsTracked'
  BY <1>1, <1>2 DEF Tracking, Tracked, ReportsTracked
<1>7. ChildrenTracked'
  BY <1>1, <1>2 DEF Tracking, Tracked, ChildrenTracked, Running, Ended
<1>8. QED
  BY <1>3, <1>4, <1>5, <1>6, <1>7 DEF Tracking, Tracked

\* A worker forgets processes; no process ends.
LEMMA ForgettingKeeps ==
  ASSUME Tracking, UNCHANGED <<process, stdin, stdout, child, serverVars>>,
         build_pids' \in [Worker -> SUBSET Task], tokill' \in [Worker -> SUBSET Task],
         \A w \in Worker : build_pids'[w] \subseteq build_pids[w]
  PROVE  Tracking'
<1>1. UNCHANGED <<build_stamps, runq_running, reading, rq_workers, pc>>
  BY DEF serverVars, queueVars
<1>2. WorkersTyped' /\ ReadingInPlace'
  BY <1>1 DEF Tracking, WorkersTyped, WorkerTypeOK, ReadingInPlace
<1>3. OrdersTracked' /\ PidsTracked' /\ ReportsTracked' /\ ChildrenTracked'
  BY <1>1 DEF Tracking, Tracked, OrdersTracked, PidsTracked, ReportsTracked, ChildrenTracked
<1>4. QED
  BY <1>2, <1>3 DEF Tracking, Tracked

LEMMA KillKeeps ==
  ASSUME Tracking, NEW w \in Worker, NEW t \in Task,
         KillChild(w, t) \/ KillMisses(w, t), UNCHANGED serverVars
  PROVE  Tracking'
<1>1. /\ build_pids' \in [Worker -> SUBSET Task] /\ tokill' \in [Worker -> SUBSET Task]
      /\ \A v \in Worker : build_pids'[v] \subseteq build_pids[v]
      /\ UNCHANGED <<process, stdin, stdout>>
  BY DEF KillChild, KillMisses, Tracking, WorkersTyped, WorkerTypeOK
<1>2. CASE child' = child
  BY <1>1, <1>2, ForgettingKeeps
<1>3. CASE child' # child
  <2>1. child[t] = "running" /\ \E code \in Ended : child' = [child EXCEPT ![t] = code]
    BY <1>3 DEF KillChild, KillMisses, ends
  <2>2. QED
    BY <1>1, <2>1, EndKeeps
<1>4. QED
  BY <1>2, <1>3

\* A worker that dies takes orders and exit codes with it.
LEMMA DeathKeeps ==
  ASSUME Tracking, NEW w \in Worker, WorkerDies(w), UNCHANGED serverVars
  PROVE  Tracking'
<1>1. PICK n \in 0..Len(stdout[w]) :
        stdout' = [stdout EXCEPT ![w] = SubSeq(@, 1, n)]
  BY DEF WorkerDies
<1>2. /\ stdin' = [stdin EXCEPT ![w] = <<>>]
      /\ UNCHANGED <<build_pids, child, build_stamps, runq_running, reading, rq_workers, pc>>
  BY DEF WorkerDies, serverVars, queueVars
<1>3. stdout[w] \in Seq(Task)
  BY DEF Tracking, WorkersTyped, WorkerTypeOK
<1>4. /\ SubSeq(stdout[w], 1, n) \in Seq(Task)
      /\ \A i \in DOMAIN SubSeq(stdout[w], 1, n) :
           i \in DOMAIN stdout[w] /\ SubSeq(stdout[w], 1, n)[i] = stdout[w][i]
  BY <1>3, PrefixElements
<1>5. \A v \in Worker : \A i \in DOMAIN stdout'[v] :
        i \in DOMAIN stdout[v] /\ stdout'[v][i] = stdout[v][i]
  BY <1>1, <1>4 DEF Tracking, WorkersTyped, WorkerTypeOK
<1>6. \A v \in Worker : \A i \in DOMAIN stdin'[v] :
        i \in DOMAIN stdin[v] /\ stdin'[v][i] = stdin[v][i]
  BY <1>2 DEF Tracking, WorkersTyped, WorkerTypeOK
<1>7. WorkersTyped' /\ ReadingInPlace'
  <2>1. stdout' \in [Worker -> Seq(Task)]
    BY <1>1, <1>4 DEF Tracking, WorkersTyped, WorkerTypeOK
  <2>2. stdin' \in [Worker -> Seq(Order)]
    BY <1>2 DEF Tracking, WorkersTyped, WorkerTypeOK
  <2>3. /\ process' \in [Worker -> {"none", "up", "dead"}]
        /\ tokill' \in [Worker -> SUBSET Task]
    BY DEF WorkerDies, Tracking, WorkersTyped, WorkerTypeOK
  <2>4. QED
    BY <1>2, <2>1, <2>2, <2>3 DEF Tracking, WorkersTyped, WorkerTypeOK, ReadingInPlace
<1>8. OrdersTracked'
  BY <1>2, <1>6 DEF Tracking, Tracked, OrdersTracked
<1>9. PidsTracked' /\ ChildrenTracked'
  BY <1>2 DEF Tracking, Tracked, PidsTracked, ChildrenTracked
<1>10. ReportsTracked'
  BY <1>2, <1>5 DEF Tracking, Tracked, ReportsTracked
<1>11. QED
  BY <1>7, <1>8, <1>9, <1>10 DEF Tracking, Tracked

LEMMA TaskProcessKeeps ==
  ASSUME Tracking, NEW t \in Task, TaskProcess(t), UNCHANGED serverVars
  PROVE  Tracking'
<1>1. CASE ChildSetsid(t)
  <2>1. /\ \A u \in Task : child'[u] = IF u = t THEN "running" ELSE child[u]
        /\ child[t] = "forked"
        /\ UNCHANGED <<process, stdin, stdout, build_pids, tokill, build_stamps,
                       runq_running, reading, rq_workers, pc>>
    BY <1>1 DEF ChildSetsid, serverVars, queueVars, Tracking, WorkersTyped, WorkerTypeOK
  <2>2. WorkersTyped' /\ ReadingInPlace'
    BY <1>1, <2>1
    DEF ChildSetsid, Tracking, WorkersTyped, WorkerTypeOK, ReadingInPlace, Running
  <2>3. OrdersTracked' /\ PidsTracked'
    BY <2>1 DEF Tracking, WorkersTyped, WorkerTypeOK, Tracked, OrdersTracked, PidsTracked
  <2>4. ReportsTracked' /\ ChildrenTracked'
    BY <2>1 DEF Tracking, Tracked, ReportsTracked, ChildrenTracked, Running, Ended
  <2>5. QED
    BY <2>2, <2>3, <2>4 DEF Tracking, Tracked
<1>2. ASSUME NEW code \in Ended, ChildEnds(t, code) PROVE Tracking'
  <2>1. /\ child[t] = "running" /\ child' = [child EXCEPT ![t] = code]
        /\ UNCHANGED <<process, stdin, stdout, build_pids, tokill>>
    BY <1>2 DEF ChildEnds, ends
  <2>2. QED
    BY <2>1, EndKeeps DEF Tracking, WorkersTyped, WorkerTypeOK
<1>3. QED
  BY <1>1, <1>2 DEF TaskProcess

-----------------------------------------------------------------------------
(* Tracking is inductive *)

LEMMA InitTracking == Init => Tracking
<1> SUFFICES ASSUME Init PROVE Tracking
  OBVIOUS
<1>1. /\ stdin = [w \in Worker |-> <<>>] /\ stdout = [w \in Worker |-> <<>>]
      /\ build_pids = [w \in Worker |-> {}] /\ child = [t \in Task |-> "none"]
      /\ build_stamps = {} /\ reading = <<>> /\ pc = "execute"
  BY DEF Init, WorkerInit, ExecuteInit
<1>2. WorkersTyped
  BY <1>1, RunQueueAssumption
  DEF Init, WorkerInit, WorkersTyped, WorkerTypeOK, ReadingType, Stages
<1>3. ReadingInPlace /\ OrdersTracked /\ PidsTracked /\ ReportsTracked
  BY <1>1 DEF ReadingInPlace, OrdersTracked, PidsTracked, ReportsTracked
<1>4. ChildrenTracked
  BY <1>1 DEF ChildrenTracked, Running
<1>5. QED
  BY <1>2, <1>3, <1>4 DEF Tracking, Tracked

LEMMA NextTracking == Tracking /\ [Next]_vars => Tracking'
<1> SUFFICES ASSUME Tracking, [Next]_vars PROVE Tracking'
  OBVIOUS
<1>1. CASE \/ ReadDone \/ MonitorBegin \/ MonitorEnd \/ ExecuteBegin \/ ExecuteWait
           \/ CleanUp \/ TeardownDone \/ Return \/ ExceptionHandled
           \/ \E cmd \in Shutdowns : Command(cmd)
  BY <1>1, ReadingStepsKeep
<1>2. CASE Enforce \/ ExecuteHere
  BY <1>2, ExecuteStepsKeep
<1>3. CASE \/ PollWorkers \/ BuildTargetsIdle \/ End \/ WorkerGone
           \/ ExecuteException \/ \E action \in DiskActions : DiskFull(action)
  BY <1>3, WritingStepsKeep
<1>4. CASE ReadExitcode
  BY <1>4, ReadExitcodeKeeps
<1>5. ASSUME NEW t \in Task, ExecuteLaunchOn(t) PROVE Tracking'
  BY <1>5, LaunchKeeps
<1>6. ASSUME NEW w \in Worker, Serve(w), UNCHANGED serverVars PROVE Tracking'
  BY <1>6, OtherOrderKeeps, RuntaskKeeps, WaitpidKeeps, KillKeeps DEF Serve
<1>7. ASSUME NEW w \in Worker, WorkerDies(w), UNCHANGED serverVars PROVE Tracking'
  BY <1>7, DeathKeeps
<1>8. ASSUME NEW t \in Task, TaskProcess(t), UNCHANGED serverVars PROVE Tracking'
  BY <1>8, TaskProcessKeeps
<1>9. CASE UNCHANGED vars
  <2>1. UNCHANGED <<workerVars, build_stamps, runq_running, reading, rq_workers, pc>>
    BY <1>9 DEF vars, serverVars, queueVars
  <2>2. QED
    BY <2>1, ServerKeeps DEF Tracking, WorkersTyped, ReadingInPlace
<1>10. QED
  BY <1>1, <1>2, <1>3, <1>4, <1>5, <1>6, <1>7, <1>8, <1>9 DEF Next, Server

LEMMA TrackingInvariance == Spec => []Tracking
BY InitTracking, NextTracking, PTL DEF Spec

-----------------------------------------------------------------------------
(* No exit code is a surprise *)

\* The order of a task, its process and its exit code exclude each other.
LEMMA OnePlace ==
  ASSUME Tracking, NEW t \in Task
  PROVE  /\ Places(t) # {} => t \in build_stamps
         /\ \A p, q \in Places(t) : p = q
<1>1. \A p \in Places(t) :
        /\ p \in Worker \X {"stdin", "build_pids", "stdout"}
        /\ \/ p[2] = "stdin" /\ \E i \in DOMAIN stdin[p[1]] : stdin[p[1]][i] = <<"runtask", t>>
           \/ p[2] = "build_pids" /\ t \in build_pids[p[1]]
           \/ p[2] = "stdout" /\ \E i \in DOMAIN stdout[p[1]] : stdout[p[1]][i] = t
  BY DEF Places, Range
<1>2. ASSUME NEW p \in Places(t)
      PROVE  /\ p = <<WorkerOf(t), p[2]>> /\ t \in build_stamps
             /\ p[2] = "stdin" => child[t] = "none"
             /\ p[2] = "build_pids" => child[t] # "none" /\ t \in build_pids[WorkerOf(t)]
             /\ p[2] = "stdout" => child[t] \in Ended /\ t \notin build_pids[WorkerOf(t)]
             /\ p[2] \in {"stdin", "build_pids", "stdout"}
  <2>1. p = <<p[1], p[2]>> /\ p[1] \in Worker /\ p[2] \in {"stdin", "build_pids", "stdout"}
    BY <1>1
  <2>2. CASE p[2] = "stdin"
    BY <1>1, <2>1, <2>2 DEF Tracking, Tracked, OrdersTracked
  <2>3. CASE p[2] = "build_pids"
    BY <1>1, <2>1, <2>3 DEF Tracking, Tracked, PidsTracked
  <2>4. CASE p[2] = "stdout"
    BY <1>1, <2>1, <2>4 DEF Tracking, Tracked, ReportsTracked
  <2>5. QED
    BY <2>1, <2>2, <2>3, <2>4
<1>3. \A p, q \in Places(t) : p = q
  <2> SUFFICES ASSUME NEW p \in Places(t), NEW q \in Places(t) PROVE p[2] = q[2]
    BY <1>2
  <2>1. QED
    BY <1>2 DEF Ended
<1>4. QED
  BY <1>2, <1>3

\* runqueue_process_waitpid never sees a task twice, nor one that the queue
\* does not expect, however the build is stopped and whoever dies.
THEOREM NoStrayExitcodeHolds == Spec => []NoStrayExitcode
<1>1. ASSUME Tracking, NEW t \in Task
      PROVE  Cardinality(Places(t)) <= IF t \in build_stamps THEN 1 ELSE 0
  <2>1. CASE Places(t) = {}
    BY <2>1, FS_EmptySet
  <2>2. ASSUME NEW p \in Places(t)
        PROVE  Cardinality(Places(t)) <= IF t \in build_stamps THEN 1 ELSE 0
    <3>1. Places(t) = {p} /\ t \in build_stamps
      BY <1>1, OnePlace
    <3>2. Cardinality({p}) = 1
      BY FS_Singleton
    <3>3. QED
      BY <3>1, <3>2
  <2>3. QED
    BY <2>1, <2>2
<1>2. Tracking => NoStrayExitcode
  BY <1>1 DEF NoStrayExitcode
<1>3. QED
  BY <1>2, TrackingInvariance, PTL

-----------------------------------------------------------------------------
(* The build keeps the specification of the task queue *)

\* The methods of RunQueueExecute, here and in the task queue.
LEMMA SameScheduler ==
  ASSUME NEW t
  PROVE  /\ sched_next(t) <=> TaskQueue!sched_next(t)
         /\ sched_none <=> TaskQueue!sched_none
         /\ sched_raises <=> TaskQueue!sched_raises
         /\ UnexpectedTask <=> TaskQueue!UnexpectedTask
         /\ MustRun(t) <=> TaskQueue!MustRun(t)
         /\ make_stamp(t) <=> TaskQueue!make_stamp(t)
         /\ stampVars' = stampVars <=> TaskQueue!stampVars' = TaskQueue!stampVars
         /\ queueVars' = queueVars <=> TaskQueue!queueVars' = TaskQueue!queueVars
<1>1. /\ HasFreeSlot <=> TaskQueue!HasFreeSlot
      /\ Candidates = TaskQueue!Candidates
      /\ Ready = TaskQueue!Ready
  BY Zenon DEF HasFreeSlot, TaskQueue!HasFreeSlot, Candidates, TaskQueue!Candidates,
               Ready, TaskQueue!Ready, StampsInUse, TaskQueue!StampsInUse
<1>2. sched_raises <=> TaskQueue!sched_raises
  BY <1>1, Zenon DEF sched_raises, TaskQueue!sched_raises
<1>3. /\ sched_next(t) <=> TaskQueue!sched_next(t)
      /\ sched_none <=> TaskQueue!sched_none
  BY <1>1, <1>2, Zenon DEF sched_next, TaskQueue!sched_next, sched_none, TaskQueue!sched_none
<1>4. \A u : MustRun(u) <=> TaskQueue!MustRun(u)
  BY Zenon DEF MustRun, TaskQueue!MustRun, check_stamp_task, TaskQueue!check_stamp_task,
               SetsceneNewer, TaskQueue!SetsceneNewer, DepIsOlder, TaskQueue!DepIsOlder
<1>5. UnexpectedTask <=> TaskQueue!UnexpectedTask
  BY <1>4, Zenon DEF UnexpectedTask, TaskQueue!UnexpectedTask
<1>6. make_stamp(t) <=> TaskQueue!make_stamp(t)
  BY Zenon DEF make_stamp, TaskQueue!make_stamp
<1>7. /\ stampVars' = stampVars <=> TaskQueue!stampVars' = TaskQueue!stampVars
      /\ queueVars' = queueVars <=> TaskQueue!queueVars' = TaskQueue!queueVars
  BY Zenon DEF stampVars, TaskQueue!stampVars, queueVars, TaskQueue!queueVars
<1>8. QED
  BY <1>2, <1>3, <1>4, <1>5, <1>6, <1>7

LEMMA SameMethods ==
  ASSUME NEW t, NEW ok
  PROVE  /\ ExecuteSkip(t) => TaskQueue!ExecuteSkip(t)
         /\ ExecuteNoExec(t) => TaskQueue!ExecuteNoExec(t)
         /\ ExecuteLaunch(t) => TaskQueue!ExecuteLaunch(t)
         /\ ExecuteSpawnFails(t) => TaskQueue!ExecuteSpawnFails(t)
         /\ ExecuteWriteFails(t) => TaskQueue!ExecuteWriteFails(t)
         /\ EnforceSkip(t) => TaskQueue!EnforceSkip(t)
         /\ ExecuteFinished => TaskQueue!ExecuteFinished
         /\ ExecuteRaises => TaskQueue!ExecuteRaises
         /\ ExecuteAborted => TaskQueue!ExecuteAborted
         /\ EnforceDone => TaskQueue!EnforceDone
         /\ finish => TaskQueue!finish
         /\ finish_now => TaskQueue!finish_now
         /\ runqueue_process_waitpid(t, ok) => TaskQueue!runqueue_process_waitpid(t, ok)
<1> USE SameScheduler
<1>1. \A running, buildable :
        task_completeoutright(t, running, buildable)
          => TaskQueue!task_completeoutright(t, running, buildable)
  BY Zenon DEF task_completeoutright, TaskQueue!task_completeoutright, RevDeps,
               TaskQueue!RevDeps
<1>2. \A s : /\ taskActive(s) = TaskQueue!taskActive(s)
             /\ taskCompleted(s) = TaskQueue!taskCompleted(s)
             /\ taskSkipped(s) = TaskQueue!taskSkipped(s)
             /\ taskFailed(s) = TaskQueue!taskFailed(s)
  BY Zenon DEF taskActive, TaskQueue!taskActive, taskCompleted, TaskQueue!taskCompleted,
               taskSkipped, TaskQueue!taskSkipped, taskFailed, TaskQueue!taskFailed
<1>3. task_skip(t) => TaskQueue!task_skip(t)
  BY <1>1, <1>2, Zenon DEF task_skip, TaskQueue!task_skip
<1>4. task_complete(t) => TaskQueue!task_complete(t)
  BY <1>1, <1>2, Zenon DEF task_complete, TaskQueue!task_complete
<1>5. task_fail(t) => TaskQueue!task_fail(t)
  BY <1>2, Zenon DEF task_fail, TaskQueue!task_fail
<1>6. runqueue_process_waitpid(t, ok) => TaskQueue!runqueue_process_waitpid(t, ok)
  BY <1>4, <1>5, Zenon DEF runqueue_process_waitpid, TaskQueue!runqueue_process_waitpid
<1>7. /\ ExecuteSkip(t) => TaskQueue!ExecuteSkip(t)
      /\ EnforceSkip(t) => TaskQueue!EnforceSkip(t)
  BY <1>3, Zenon DEF ExecuteSkip, TaskQueue!ExecuteSkip, EnforceSkip, TaskQueue!EnforceSkip
<1>8. ExecuteNoExec(t) => TaskQueue!ExecuteNoExec(t)
  BY <1>1, <1>2, Zenon DEF ExecuteNoExec, TaskQueue!ExecuteNoExec
<1>9. /\ ExecuteLaunch(t) => TaskQueue!ExecuteLaunch(t)
      /\ ExecuteSpawnFails(t) => TaskQueue!ExecuteSpawnFails(t)
      /\ ExecuteWriteFails(t) => TaskQueue!ExecuteWriteFails(t)
  BY <1>2, Zenon DEF ExecuteLaunch, TaskQueue!ExecuteLaunch,
                     ExecuteSpawnFails, TaskQueue!ExecuteSpawnFails,
                     ExecuteWriteFails, TaskQueue!ExecuteWriteFails,
                     build_taskdepdata, TaskQueue!build_taskdepdata
<1>10. /\ ExecuteFinished => TaskQueue!ExecuteFinished
       /\ ExecuteRaises => TaskQueue!ExecuteRaises
       /\ ExecuteAborted => TaskQueue!ExecuteAborted
       /\ EnforceDone => TaskQueue!EnforceDone
       /\ finish => TaskQueue!finish
       /\ finish_now => TaskQueue!finish_now
  BY Zenon DEF ExecuteFinished, TaskQueue!ExecuteFinished, ExecuteRaises,
               TaskQueue!ExecuteRaises, ExecuteAborted, TaskQueue!ExecuteAborted,
               EnforceDone, TaskQueue!EnforceDone, finish, TaskQueue!finish,
               finish_now, TaskQueue!finish_now
<1>11. QED
  BY <1>6, <1>7, <1>8, <1>9, <1>10

\* Between two calls of execute() the task queue is idle.
LEMMA QueuePc ==
  /\ queuePc = "execute" <=> pc = "select"
  /\ queuePc = "enforce" <=> pc = "enforce"
  /\ queuePc = "raised" <=> pc = "raised"
  /\ queuePc = "idle" <=> pc \notin {"select", "enforce", "raised"}
BY DEF queuePc

LEMMA QueuePcNext ==
  /\ queuePc' = "execute" <=> pc' = "select"
  /\ queuePc' = "enforce" <=> pc' = "enforce"
  /\ queuePc' = "raised" <=> pc' = "raised"
  /\ queuePc' = "idle" <=> pc' \notin {"select", "enforce", "raised"}
  /\ pc' = pc => queuePc' = queuePc
BY DEF queuePc

LEMMA ExitcodeUnchanged ==
  ASSUME UNCHANGED child
  PROVE  exitcode' = exitcode
BY DEF exitcode

\* A step that the task queue does not see.
LEMMA Stutters ==
  ASSUME UNCHANGED <<state, queueVars, stampVars, whitelist_checked>>,
         queuePc' = queuePc, exitcode' = exitcode
  PROVE  UNCHANGED TaskQueue!vars
BY SameScheduler, Zenon DEF TaskQueue!vars

LEMMA StutteringSteps ==
  ASSUME Tracking,
         \/ ReadDone \/ MonitorBegin \/ MonitorEnd \/ End \/ WorkerGone
         \/ TeardownDone \/ Return \/ \E cmd \in Shutdowns : Command(cmd)
  PROVE  UNCHANGED TaskQueue!vars
<1>1. UNCHANGED <<state, queueVars, stampVars, whitelist_checked, child>>
  BY DEF ReadDone, MonitorBegin, MonitorEnd, End, WorkerGone, TeardownDone, Return,
         Command, workerVars
<1>2. pc' = pc \/ (queuePc = "idle" /\ queuePc' = "idle")
  BY QueuePc, QueuePcNext
  DEF ReadDone, MonitorBegin, MonitorEnd, End, WorkerGone, TeardownDone, Return, Command,
      At, StartTeardown
<1>3. QED
  BY <1>1, <1>2, Stutters, ExitcodeUnchanged, QueuePcNext

\* finish() and finish_now() are called between two calls of execute(), and
\* finish_now() by a read inside execute() too.
LEMMA FinishingSteps ==
  ASSUME Tracking,
         \/ PollWorkers \/ BuildTargetsIdle \/ CleanUp
         \/ \E action \in DiskActions : DiskFull(action)
  PROVE  TaskQueue!Finish \/ TaskQueue!FinishNow \/ UNCHANGED TaskQueue!vars
<1>1. UNCHANGED <<child, whitelist_checked>>
  BY DEF PollWorkers, BuildTargetsIdle, CleanUp, DiskFull, workerVars
<1>2. queuePc' = queuePc
  BY QueuePc, QueuePcNext DEF PollWorkers, BuildTargetsIdle, CleanUp, DiskFull, At
<1>3. \/ finish /\ queuePc = "idle"
      \/ finish_now /\ queuePc \in {"idle", "execute"}
      \/ UNCHANGED <<state, queueVars, stampVars>>
  <2>1. CASE PollWorkers
    <3>1. pc \notin {"enforce", "raised"}
      BY <2>1, TailElements
      DEF PollWorkers, Tracking, WorkersTyped, ReadingType, ReadingInPlace
    <3>2. QED
      BY <2>1, <3>1, QueuePc DEF PollWorkers
  <2>2. CASE BuildTargetsIdle
    BY <2>2, QueuePc DEF BuildTargetsIdle, At
  <2>3. CASE CleanUp
    BY <2>3, QueuePc DEF CleanUp, At
  <2>4. CASE \E action \in DiskActions : DiskFull(action)
    BY <2>4, QueuePc DEF DiskFull, At
  <2>5. QED
    BY <2>1, <2>2, <2>3, <2>4
<1>4. CASE finish /\ queuePc = "idle"
  BY <1>1, <1>2, <1>4, SameMethods, ExitcodeUnchanged DEF TaskQueue!Finish
<1>5. CASE finish_now /\ queuePc \in {"idle", "execute"}
  BY <1>1, <1>2, <1>5, SameMethods, ExitcodeUnchanged DEF TaskQueue!FinishNow
<1>6. CASE UNCHANGED <<state, queueVars, stampVars>>
  BY <1>1, <1>2, <1>6, Stutters, ExitcodeUnchanged
<1>7. QED
  BY <1>3, <1>4, <1>5, <1>6

\* The outcomes of execute() are those of the task queue.
LEMMA ExecuteSteps ==
  ASSUME Tracking,
         \/ ExecuteBegin \/ Enforce \/ ExecuteHere \/ ExecuteWait
         \/ ExecuteException \/ ExceptionHandled
         \/ \E t \in Task : ExecuteLaunchOn(t)
  PROVE  TaskQueue!Next \/ UNCHANGED TaskQueue!vars
<1>1. exitcode' = exitcode
  BY ExitcodeUnchanged
  DEF ExecuteBegin, Enforce, ExecuteHere, ExecuteWait, ExecuteException, ExceptionHandled,
      ExecuteLaunchOn, workerVars
<1>2. CASE ExecuteBegin
  <2>1. CASE state = "Running"
    <3>1. queuePc = "idle"
          /\ queuePc' = (IF ~whitelist_checked /\ UnexpectedTask THEN "enforce" ELSE "execute")
      BY <1>2, <2>1, QueuePc, QueuePcNext DEF ExecuteBegin, At
    <3>2. whitelist_checked' = TRUE /\ UNCHANGED <<state, queueVars, stampVars>>
      BY <1>2, <2>1 DEF ExecuteBegin
    <3>3. TaskQueue!ExecuteBegin
      BY <1>1, <2>1, <3>1, <3>2, SameScheduler DEF TaskQueue!ExecuteBegin
    <3>4. QED
      BY <3>3 DEF TaskQueue!Next
  <2>2. CASE state # "Running"
    <3>1. queuePc = "idle" /\ queuePc' = "idle"
          /\ UNCHANGED <<whitelist_checked, state, queueVars, stampVars>>
      BY <1>2, <2>2, QueuePc, QueuePcNext DEF ExecuteBegin, At
    <3>2. QED
      BY <1>1, <3>1, Stutters
  <2>3. QED
    BY <2>1, <2>2
<1>3. CASE Enforce
  <2>1. queuePc = "enforce" /\ UNCHANGED whitelist_checked
    BY <1>3, QueuePc DEF Enforce, At
  <2>2. ASSUME NEW t \in Task, EnforceSkip(t), pc' = pc PROVE TaskQueue!Enforce(t)
    BY <1>1, <2>1, <2>2, QueuePcNext, SameMethods DEF TaskQueue!Enforce
  <2>3. ASSUME EnforceDone, pc' = "cleanup" PROVE TaskQueue!ExecuteEnd
    BY <1>1, <2>1, <2>3, QueuePcNext, SameMethods DEF TaskQueue!ExecuteEnd
  <2>4. QED
    BY <1>3, <2>2, <2>3 DEF Enforce, TaskQueue!Next
<1>4. CASE ExecuteHere
  <2>1. queuePc = "execute" /\ queuePc' = "idle" /\ UNCHANGED whitelist_checked
    BY <1>4, QueuePc, QueuePcNext DEF ExecuteHere, At
  <2>2. ASSUME NEW t \in Task, ExecuteSkip(t) \/ ExecuteNoExec(t) \/ ExecuteSpawnFails(t)
        PROVE  TaskQueue!ExecuteTask(t)
    BY <1>1, <2>1, <2>2, SameMethods DEF TaskQueue!ExecuteTask
  <2>3. ASSUME ExecuteFinished PROVE TaskQueue!ExecuteEnd
    BY <1>1, <2>1, <2>3, SameMethods DEF TaskQueue!ExecuteEnd
  <2>4. QED
    BY <1>4, <2>2, <2>3 DEF ExecuteHere, TaskQueue!Next
<1>5. ASSUME NEW t \in Task, ExecuteLaunchOn(t) PROVE TaskQueue!Next
  <2>1. queuePc = "execute" /\ queuePc' = "idle" /\ UNCHANGED whitelist_checked
        /\ ExecuteLaunch(t)
    BY <1>5, QueuePc, QueuePcNext DEF ExecuteLaunchOn, At
  <2>2. TaskQueue!ExecuteTask(t)
    BY <1>1, <2>1, SameMethods DEF TaskQueue!ExecuteTask
  <2>3. QED
    BY <2>2 DEF TaskQueue!Next
<1>6. CASE ExecuteWait
  <2>1. queuePc = "execute" /\ queuePc' = "idle"
        /\ UNCHANGED <<whitelist_checked, state, queueVars, stampVars>>
        /\ sched_none /\ stats.active > 0
    BY <1>6, QueuePc, QueuePcNext DEF ExecuteWait, At
  <2>2. TaskQueue!ExecuteWait
    BY <1>1, <2>1, SameScheduler DEF TaskQueue!ExecuteWait
  <2>3. QED
    BY <2>2 DEF TaskQueue!Next
<1>7. CASE ExecuteException
  <2>1. queuePc' = "raised" /\ queuePc \in {"execute", "enforce"}
        /\ UNCHANGED whitelist_checked
    BY <1>7, QueuePc, QueuePcNext DEF ExecuteException, StartTeardown
  <2>2. ExecuteRaises \/ \E t \in Task : queuePc = "execute" /\ ExecuteWriteFails(t)
    BY <1>7, QueuePc DEF ExecuteException
  <2>3. TaskQueue!ExecuteException
    BY <1>1, <2>1, <2>2, SameMethods DEF TaskQueue!ExecuteException
  <2>4. QED
    BY <2>3 DEF TaskQueue!Next
<1>8. CASE ExceptionHandled
  <2>1. queuePc = "raised" /\ queuePc' = "idle" /\ UNCHANGED whitelist_checked
        /\ ExecuteAborted
    BY <1>8, QueuePc, QueuePcNext DEF ExceptionHandled, At
  <2>2. TaskQueue!ExecuteEnd
    BY <1>1, <2>1, SameMethods DEF TaskQueue!ExecuteEnd
  <2>3. QED
    BY <2>2 DEF TaskQueue!Next
<1>9. QED
  BY <1>2, <1>3, <1>4, <1>5, <1>6, <1>7, <1>8

\* The server takes the exit code of t from the pipe of its worker.
LEMMA WaitpidStep ==
  ASSUME Tracking, ReadExitcode
  PROVE  \E t \in Task : TaskQueue!ProcessWaitpid(t)
<1> DEFINE w == Head(reading)[1]
           t == Head(stdout[w])
<1>1. w \in Worker /\ reading # <<>>
  BY TailElements DEF ReadExitcode, Tracking, WorkersTyped, ReadingType
<1>2. stdout[w] \in Seq(Task) /\ stdout[w] # <<>>
  BY <1>1 DEF ReadExitcode, Tracking, WorkersTyped, WorkerTypeOK
<1>3. 1 \in DOMAIN stdout[w] /\ t = stdout[w][1] /\ t \in Task
  BY <1>2, TailElements
<1>4. t \in build_stamps /\ child[t] \in Ended
  BY <1>1, <1>3 DEF Tracking, Tracked, ReportsTracked
<1>5. /\ runqueue_process_waitpid(t, child[t] = "ok")
      /\ UNCHANGED <<stampVars, whitelist_checked, child, pc>>
  BY DEF ReadExitcode
<1> HIDE DEF w, t
<1>6. queuePc # "enforce" /\ queuePc' = queuePc
  BY <1>1, <1>5, QueuePc, QueuePcNext DEF Tracking, ReadingInPlace
<1>7. exitcode[t] = child[t] /\ exitcode' = exitcode
  BY <1>3, <1>4, <1>5, ExitcodeUnchanged DEF exitcode
<1>8. TaskQueue!runqueue_process_waitpid(t, exitcode[t] = "ok")
  BY <1>5, <1>7, SameMethods
<1>9. exitcode[t] # "none"
  BY <1>4, <1>7 DEF Ended
<1>10. UNCHANGED TaskQueue!stampVars
  BY <1>5, SameScheduler
<1>11. TaskQueue!ProcessWaitpid(t)
  BY <1>4, <1>5, <1>6, <1>7, <1>8, <1>9, <1>10 DEF TaskQueue!ProcessWaitpid
<1>12. QED
  BY <1>3, <1>11

\* A process ends, of itself or killed.
LEMMA EndStep ==
  ASSUME Tracking, NEW t \in Task, NEW code \in Ended, child[t] = "running",
         ends(t, code), UNCHANGED serverVars
  PROVE  TaskQueue!WorkerEnds(t, code)
<1>1. t \in build_stamps
  BY DEF Tracking, Tracked, ChildrenTracked, Running
<1>2. UNCHANGED <<state, queueVars, whitelist_checked>> /\ queuePc' = queuePc
  BY QueuePcNext DEF serverVars
<1>3. exitcode[t] = "none" /\ exitcode' = [exitcode EXCEPT ![t] = code]
  <2>1. \A u \in Task : child'[u] = IF u = t THEN code ELSE child[u]
    BY DEF ends, Tracking, WorkersTyped, WorkerTypeOK
  <2>2. \A u \in Task : exitcode'[u] = IF u = t THEN code ELSE exitcode[u]
    BY <2>1 DEF exitcode
  <2>3. QED
    BY <2>2 DEF exitcode, Ended
<1>4. \/ code = "ok" /\ t \in NoStamp /\ UNCHANGED TaskQueue!stampVars
      \/ code = "failed" /\ UNCHANGED TaskQueue!stampVars
      \/ t \notin NoStamp /\ TaskQueue!make_stamp(t)
  BY SameScheduler DEF ends
<1>5. UNCHANGED TaskQueue!queueVars
  BY <1>2, SameScheduler
<1>6. QED
  BY <1>1, <1>2, <1>3, <1>4, <1>5 DEF TaskQueue!WorkerEnds

\* Whatever else a worker or a process does, the task queue does not see it.
LEMMA WorkerSteps ==
  ASSUME Tracking, UNCHANGED serverVars,
         \/ \E w \in Worker : Serve(w) \/ WorkerDies(w)
         \/ \E t \in Task : TaskProcess(t)
  PROVE  TaskQueue!Next \/ UNCHANGED TaskQueue!vars
<1>1. UNCHANGED <<state, queueVars, whitelist_checked>> /\ queuePc' = queuePc
  BY QueuePcNext DEF serverVars
<1>2. CASE \E t \in Task, code \in Ended : child[t] = "running" /\ ends(t, code)
  BY <1>2, EndStep DEF TaskQueue!Next, Ended
<1>3. CASE ~ \E t \in Task, code \in Ended : child[t] = "running" /\ ends(t, code)
  <2>1. UNCHANGED stampVars /\ exitcode' = exitcode
    <3>1. ASSUME NEW w \in Worker, Serve(w) PROVE <2>1
      <4>1. CASE handle_finishnow(w) \/ handle_quit(w)
        BY <4>1, ExitcodeUnchanged DEF handle_finishnow, handle_quit
      <4>2. ASSUME NEW t \in Task, handle_runtask(w, t) PROVE <2>1
        <5>1. \E i \in DOMAIN stdin[w] : stdin[w][i] = <<"runtask", t>>
          BY <4>2, OrderTaken DEF handle_runtask
        <5>2. child[t] = "none"
          BY <5>1 DEF Tracking, Tracked, OrdersTracked
        <5>3. \A u \in Task : child'[u] = IF u = t THEN "forked" ELSE child[u]
          BY <4>2 DEF handle_runtask, Tracking, WorkersTyped, WorkerTypeOK
        <5>4. exitcode' = exitcode
          BY <5>2, <5>3 DEF exitcode, Ended
        <5>5. QED
          BY <4>2, <5>4 DEF handle_runtask
      <4>3. ASSUME NEW t \in Task, process_waitpid(w, t) PROVE <2>1
        BY <4>3, ExitcodeUnchanged DEF process_waitpid
      <4>4. ASSUME NEW t \in Task, KillChild(w, t) \/ KillMisses(w, t) PROVE <2>1
        BY <1>3, <4>4, ExitcodeUnchanged DEF KillChild, KillMisses
      <4>5. QED
        BY <3>1, <4>1, <4>2, <4>3, <4>4 DEF Serve
    <3>2. ASSUME NEW w \in Worker, WorkerDies(w) PROVE <2>1
      BY <3>2, ExitcodeUnchanged DEF WorkerDies
    <3>3. ASSUME NEW t \in Task, TaskProcess(t) PROVE <2>1
      <4>1. ChildSetsid(t)
        BY <1>3, <3>3 DEF TaskProcess, ChildEnds
      <4>2. \A u \in Task : child'[u] = IF u = t THEN "running" ELSE child[u]
        BY <4>1 DEF ChildSetsid, Tracking, WorkersTyped, WorkerTypeOK
      <4>3. exitcode' = exitcode
        BY <4>1, <4>2 DEF exitcode, Ended, ChildSetsid
      <4>4. QED
        BY <4>1, <4>3 DEF ChildSetsid
    <3>4. QED
      BY <3>1, <3>2, <3>3
  <2>2. QED
    BY <1>1, <2>1, Stutters
<1>4. QED
  BY <1>2, <1>3

LEMMA NextImplements == Tracking /\ [Next]_vars => [TaskQueue!Next]_TaskQueue!vars
<1> SUFFICES ASSUME Tracking, [Next]_vars
             PROVE  TaskQueue!Next \/ UNCHANGED TaskQueue!vars
  OBVIOUS
<1>1. CASE \/ ReadDone \/ MonitorBegin \/ MonitorEnd \/ End \/ WorkerGone
           \/ TeardownDone \/ Return \/ \E cmd \in Shutdowns : Command(cmd)
  BY <1>1, StutteringSteps
<1>2. CASE \/ PollWorkers \/ BuildTargetsIdle \/ CleanUp
           \/ \E action \in DiskActions : DiskFull(action)
  BY <1>2, FinishingSteps DEF TaskQueue!Next
<1>3. CASE \/ ExecuteBegin \/ Enforce \/ ExecuteHere \/ ExecuteWait
           \/ ExecuteException \/ ExceptionHandled
           \/ \E t \in Task : ExecuteLaunchOn(t)
  BY <1>3, ExecuteSteps
<1>4. CASE ReadExitcode
  BY <1>4, WaitpidStep DEF TaskQueue!Next
<1>5. CASE /\ UNCHANGED serverVars
           /\ \/ \E w \in Worker : Serve(w) \/ WorkerDies(w)
              \/ \E t \in Task : TaskProcess(t)
  BY <1>5, WorkerSteps
<1>6. CASE UNCHANGED vars
  <2>1. UNCHANGED <<state, queueVars, stampVars, whitelist_checked, child, pc>>
    BY <1>6 DEF vars, serverVars, workerVars
  <2>2. QED
    BY <2>1, Stutters, ExitcodeUnchanged, QueuePcNext
<1>7. QED
  BY <1>1, <1>2, <1>3, <1>4, <1>5, <1>6 DEF Next, Server

LEMMA InitImplements == Init => TaskQueue!Init
<1> SUFFICES ASSUME Init PROVE TaskQueue!Init
  OBVIOUS
<1>1. queuePc = "idle" /\ exitcode = [t \in Task |-> "none"]
  BY DEF Init, WorkerInit, queuePc, exitcode, Ended
<1>2. TaskQueue!ExecuteInit /\ TaskQueue!StampInit
  BY Zenon DEF Init, ExecuteInit, StampInit, TaskQueue!ExecuteInit, TaskQueue!StampInit
<1>3. QED
  BY <1>1, <1>2 DEF Init, TaskQueue!Init

\* The whole build, with its disk monitor, its workers that may die and the
\* shutdown commands, does to the task queue nothing that the task queue's own
\* specification does not allow: see RunQueueExecuteTasks for what a read, a
\* call of finish() or an exception may do at which place.
THEOREM ImplementsTaskQueueHolds == Spec => ImplementsTaskQueue
BY InitImplements, NextImplements, TrackingInvariance, PTL
DEF Spec, ImplementsTaskQueue, TaskQueue!Spec

-----------------------------------------------------------------------------
(* What is proved of the task queue holds of the whole build *)

Queue == INSTANCE RunQueueExecuteTasksProofs WITH pc <- queuePc

LEMMA SameSpec == TaskQueue!Spec => Queue!Spec
<1>1. TaskQueue!Init => Queue!Init
  BY Zenon DEF Queue!Init, Queue!ExecuteInit, Queue!StampInit,
               TaskQueue!Init, TaskQueue!ExecuteInit, TaskQueue!StampInit
<1>2. TaskQueue!Next => Queue!Next
  BY Zenon
  DEF Queue!Next, Queue!ExecuteBegin, Queue!UnexpectedTask, Queue!MustRun,
      Queue!check_stamp_task, Queue!SetsceneNewer, Queue!DepIsOlder, Queue!queueVars,
      Queue!stampVars, Queue!ExecuteWait, Queue!sched_none, Queue!sched_raises,
      Queue!HasFreeSlot, Queue!Ready, Queue!Candidates, Queue!StampsInUse,
      Queue!ExecuteEnd, Queue!ExecuteFinished, Queue!EnforceDone, Queue!ExecuteAborted,
      Queue!ExecuteException, Queue!ExecuteWriteFails, Queue!sched_next,
      Queue!build_taskdepdata, Queue!ExecuteRaises, Queue!Finish, Queue!finish,
      Queue!FinishNow, Queue!finish_now, Queue!ExecuteTask, Queue!ExecuteSkip,
      Queue!ExecuteNoExec, Queue!ExecuteLaunch, Queue!ExecuteSpawnFails,
      Queue!task_skip, Queue!task_completeoutright, Queue!RevDeps, Queue!taskSkipped,
      Queue!taskCompleted, Queue!taskActive, Queue!taskFailed, Queue!make_stamp,
      Queue!Enforce, Queue!EnforceSkip, Queue!ProcessWaitpid,
      Queue!runqueue_process_waitpid, Queue!task_complete, Queue!task_fail,
      Queue!WorkerEnds,
      TaskQueue!Next, TaskQueue!ExecuteBegin, TaskQueue!UnexpectedTask, TaskQueue!MustRun,
      TaskQueue!check_stamp_task, TaskQueue!SetsceneNewer, TaskQueue!DepIsOlder,
      TaskQueue!queueVars, TaskQueue!stampVars, TaskQueue!ExecuteWait,
      TaskQueue!sched_none, TaskQueue!sched_raises, TaskQueue!HasFreeSlot,
      TaskQueue!Ready, TaskQueue!Candidates, TaskQueue!StampsInUse, TaskQueue!ExecuteEnd,
      TaskQueue!ExecuteFinished, TaskQueue!EnforceDone, TaskQueue!ExecuteAborted,
      TaskQueue!ExecuteException, TaskQueue!ExecuteWriteFails, TaskQueue!sched_next,
      TaskQueue!build_taskdepdata, TaskQueue!ExecuteRaises, TaskQueue!Finish,
      TaskQueue!finish, TaskQueue!FinishNow, TaskQueue!finish_now, TaskQueue!ExecuteTask,
      TaskQueue!ExecuteSkip, TaskQueue!ExecuteNoExec, TaskQueue!ExecuteLaunch,
      TaskQueue!ExecuteSpawnFails, TaskQueue!task_skip, TaskQueue!task_completeoutright,
      TaskQueue!RevDeps, TaskQueue!taskSkipped, TaskQueue!taskCompleted,
      TaskQueue!taskActive, TaskQueue!taskFailed, TaskQueue!make_stamp,
      TaskQueue!Enforce, TaskQueue!EnforceSkip, TaskQueue!ProcessWaitpid,
      TaskQueue!runqueue_process_waitpid, TaskQueue!task_complete, TaskQueue!task_fail,
      TaskQueue!WorkerEnds
<1>3. UNCHANGED TaskQueue!vars => UNCHANGED Queue!vars
  BY Zenon DEF Queue!vars, Queue!queueVars, Queue!stampVars,
               TaskQueue!vars, TaskQueue!queueVars, TaskQueue!stampVars
<1>4. [TaskQueue!Next]_TaskQueue!vars => [Queue!Next]_Queue!vars
  BY <1>2, <1>3
<1>5. QED
  BY <1>1, <1>4, PTL DEF Queue!Spec, TaskQueue!Spec

LEMMA QueueInvariance == Spec => []Queue!IInv
<1>1. Queue!IsFiniteSet(Task)
  BY ExecuteAssumption, Zenon DEF IsFiniteSet, Queue!IsFiniteSet
<1>2. Queue!Spec => []Queue!IInv
  <2>1. Queue!Init => Queue!IInv
    BY <1>1, Queue!InitIInv, TaskAssumption, ExecuteAssumption, AcyclicAssumption
  <2>2. Queue!IInv /\ [Queue!Next]_Queue!vars => Queue!IInv'
    BY <1>1, Queue!NextIInv, TaskAssumption, ExecuteAssumption, AcyclicAssumption
  <2>3. QED
    BY <2>1, <2>2, PTL DEF Queue!Spec
<1>3. Spec => TaskQueue!Spec
  BY ImplementsTaskQueueHolds DEF ImplementsTaskQueue
<1>4. QED
  BY <1>2, <1>3, SameSpec, PTL

\* The invariant of the task queue, in the terms of the build.
QueueSafe ==
  /\ ExecuteTypeOK /\ StampTypeOK /\ whitelist_checked \in BOOLEAN
  /\ runq_running = build_stamps \union runq_complete \union failed_tids
  /\ build_stamps \intersect runq_complete = {}
  /\ build_stamps \intersect failed_tids = {}
  /\ runq_complete \intersect failed_tids = {}
  /\ \A t \in runq_running : Depends[t] \subseteq runq_complete
  /\ Cardinality(build_stamps) <= NumberTasks
  /\ \A t, u \in build_stamps : StampNoExtra[t] = StampNoExtra[u] => t = u
  /\ stats.failed >= Cardinality(failed_tids)
  /\ stats.active = Cardinality(build_stamps)
                      - (stats.failed - Cardinality(failed_tids))

LEMMA QueueIsSafe == Spec => []QueueSafe
<1>1. Queue!IInv => QueueSafe
  <2> SUFFICES ASSUME Queue!IInv PROVE QueueSafe
    OBVIOUS
  <2>1. /\ Queue!TypeOK /\ Queue!Partition /\ Queue!Buildability /\ Queue!Announced
        /\ Queue!StampExclusion /\ Queue!StatsAgree /\ Queue!ThreadLimit
    BY DEF Queue!IInv
  <2>2. ExecuteTypeOK /\ StampTypeOK /\ whitelist_checked \in BOOLEAN
    BY <2>1, Zenon DEF Queue!TypeOK, Queue!ExecuteTypeOK, ExecuteTypeOK, Queue!States, States,
                Queue!RunQueueStats, RunQueueStats, Queue!StampTypeOK, StampTypeOK
  <2>3. \A S : Queue!Cardinality(S) = Cardinality(S)
    BY Zenon DEF Queue!Cardinality, Cardinality
  <2>4. /\ runq_running = build_stamps \union runq_complete \union failed_tids
        /\ build_stamps \intersect runq_complete = {}
        /\ build_stamps \intersect failed_tids = {}
        /\ runq_complete \intersect failed_tids = {}
    BY <2>1 DEF Queue!Partition
  <2>5. \A t \in runq_running : Depends[t] \subseteq runq_complete
    BY <2>1, <2>2 DEF Queue!Buildability, ExecuteTypeOK
  <2>6. Cardinality(build_stamps) <= NumberTasks
    BY <2>1, <2>3 DEF Queue!ThreadLimit
  <2>7. \A t, u \in build_stamps : StampNoExtra[t] = StampNoExtra[u] => t = u
    BY <2>1 DEF Queue!StampExclusion
  <2>8. stats.failed >= Cardinality(failed_tids)
    BY <2>1, <2>3 DEF Queue!Announced
  <2>9. stats.active = Cardinality(build_stamps)
                         - (stats.failed - Cardinality(failed_tids))
    BY <2>1, <2>3 DEF Queue!StatsAgree
  <2>10. QED
    BY <2>2, <2>4, <2>5, <2>6, <2>7, <2>8, <2>9 DEF QueueSafe
<1>2. QED
  BY <1>1, QueueInvariance, PTL

\* The whole build keeps the promise of BuildOrder, which knows no server and
\* no workers: tasks start, end and are skipped in no other order.
THEOREM BuildOrderKept == Spec => Queue!ImplementsBuildOrder
<1>1. Queue!IsFiniteSet(Task)
  BY ExecuteAssumption, Zenon DEF IsFiniteSet, Queue!IsFiniteSet
<1>2. Queue!Init => Queue!Promise!Init
  BY Zenon DEF Queue!Init, Queue!ExecuteInit, Queue!Promise!Init, Queue!taskStatus
<1>3. Queue!IInv /\ [Queue!Next]_Queue!vars => [Queue!Promise!Next]_Queue!taskStatus
  BY <1>1, Queue!NextImplements, TaskAssumption, ExecuteAssumption, AcyclicAssumption
<1>4. Spec => Queue!Spec
  BY ImplementsTaskQueueHolds, SameSpec DEF ImplementsTaskQueue
<1>5. QED
  BY <1>2, <1>3, <1>4, QueueInvariance, PTL
  DEF Queue!Spec, Queue!ImplementsBuildOrder, Queue!Promise!Spec

\* Tasks of one stamp are done once by the whole build, where they are the same
\* work, whichever of its two workers has them and whatever stops it.
THEOREM SharedWorkKept ==
  ASSUME Queue!SharedAlike
  PROVE  Spec => []Queue!SharedWorkDoneOnce
<1>1. Queue!IsFiniteSet(Task)
  BY ExecuteAssumption, Zenon DEF IsFiniteSet, Queue!IsFiniteSet
<1>2. Queue!Init => Queue!SharedInv
  BY <1>1, Queue!InitSharedInv, TaskAssumption, ExecuteAssumption, AcyclicAssumption
<1>3. Queue!IInv /\ Queue!SharedInv /\ [Queue!Next]_Queue!vars => Queue!SharedInv'
  BY <1>1, Queue!NextSharedInv, TaskAssumption, ExecuteAssumption, AcyclicAssumption
<1>4. Queue!SharedInv => Queue!SharedWorkDoneOnce
  BY <1>1, Queue!OnlyOneRan, TaskAssumption, ExecuteAssumption, AcyclicAssumption
<1>5. Spec => Queue!Spec
  BY ImplementsTaskQueueHolds, SameSpec DEF ImplementsTaskQueue
<1>6. QED
  BY <1>2, <1>3, <1>4, <1>5, QueueInvariance, PTL DEF Queue!Spec

-----------------------------------------------------------------------------
(* Types *)

ServerTyped ==
  /\ cooker_state \in {"running", "shutdown", "forceshutdown"}
  /\ dm_checked \subseteq DiskActions
  /\ failures \in Nat

LEMMA FailuresFinite ==
  ASSUME QueueSafe
  PROVE  /\ IsFiniteSet(failed_tids) /\ Cardinality(failed_tids) \in Nat
         /\ IsFiniteSet(build_stamps) /\ Cardinality(build_stamps) \in Nat
<1>1. failed_tids \in SUBSET Task /\ build_stamps \in SUBSET Task
  BY DEF QueueSafe, ExecuteTypeOK
<1>2. QED
  BY <1>1, FS_Subset, FS_CardinalityType, ExecuteAssumption

LEMMA NextServerTyped == ServerTyped /\ QueueSafe /\ [Next]_vars => ServerTyped'
<1> SUFFICES ASSUME ServerTyped, QueueSafe, [Next]_vars PROVE ServerTyped'
  OBVIOUS
<1>1. cooker_state' = cooker_state \/ \E cmd \in Shutdowns : Command(cmd)
  BY Zenon
  DEF Next, Server, PollWorkers, ReadExitcode, ReadDone, BuildTargetsIdle, MonitorBegin,
      MonitorEnd, DiskFull, ExecuteBegin, Enforce, ExecuteHere, ExecuteWait,
      ExecuteLaunchOn, CleanUp, End, WorkerGone, TeardownDone, Return, ExecuteException,
      ExceptionHandled, vars, serverVars
<1>2. dm_checked' = dm_checked \/ \E action \in DiskActions : DiskFull(action)
  BY Zenon
  DEF Next, Server, PollWorkers, ReadExitcode, ReadDone, BuildTargetsIdle, MonitorBegin,
      MonitorEnd, ExecuteBegin, Enforce, ExecuteHere, ExecuteWait, Command,
      ExecuteLaunchOn, CleanUp, End, WorkerGone, TeardownDone, Return, ExecuteException,
      ExceptionHandled, vars, serverVars
<1>3. failures' = failures \/ Return
  BY Zenon
  DEF Next, Server, PollWorkers, ReadExitcode, ReadDone, BuildTargetsIdle, MonitorBegin,
      MonitorEnd, DiskFull, ExecuteBegin, Enforce, ExecuteHere, ExecuteWait, Command,
      ExecuteLaunchOn, CleanUp, End, WorkerGone, TeardownDone, ExecuteException,
      ExceptionHandled, vars, serverVars
<1>4. cooker_state' \in {"running", "shutdown", "forceshutdown"}
  BY <1>1, RunQueueAssumption DEF Command, ServerTyped
<1>5. dm_checked' \subseteq DiskActions
  BY <1>2 DEF DiskFull, ServerTyped
<1>6. failures' \in Nat
  BY <1>3, FailuresFinite DEF Return, ServerTyped
<1>7. QED
  BY <1>4, <1>5, <1>6 DEF ServerTyped

\* Every variable keeps its type: in the pipes there are orders and exit codes
\* only, and the counters of BuildCompleted never go below zero.
THEOREM TypeCorrect == Spec => []TypeOK
<1>1. Init => ServerTyped
  BY DEF Init, ServerTyped
<1>2. Spec => []ServerTyped
  BY <1>1, NextServerTyped, QueueIsSafe, PTL DEF Spec
<1>3. ServerTyped /\ QueueSafe /\ Tracking => TypeOK
  BY DEF ServerTyped, QueueSafe, Tracking, WorkersTyped, ReadingType, TypeOK
<1>4. QED
  BY <1>2, <1>3, QueueIsSafe, TrackingInvariance, PTL

-----------------------------------------------------------------------------
(* The processes on the machine *)

\* How the task of an exit code that was read has ended.
Outcomes ==
  /\ \A t \in runq_complete : child[t] \in {"none", "ok"}
  /\ \A t \in failed_tids : child[t] = "failed"

\* The steps that end or change a task in the queue.
LEMMA NextOutcomes ==
  Tracking /\ QueueSafe /\ Outcomes /\ [Next]_vars => Outcomes'
<1> SUFFICES ASSUME Tracking, QueueSafe, Outcomes, [Next]_vars PROVE Outcomes'
  OBVIOUS
<1>1. CASE UNCHANGED <<runq_complete, failed_tids, child>>
  BY <1>1 DEF Outcomes
<1>2. CASE ReadExitcode
  <2> DEFINE w == Head(reading)[1]
             t == Head(stdout[w])
  <2>1. w \in Worker /\ reading # <<>>
    BY <1>2, TailElements DEF ReadExitcode, Tracking, WorkersTyped, ReadingType
  <2>2. stdout[w] \in Seq(Task) /\ stdout[w] # <<>>
    BY <1>2, <2>1 DEF ReadExitcode, Tracking, WorkersTyped, WorkerTypeOK
  <2>3. 1 \in DOMAIN stdout[w] /\ t = stdout[w][1] /\ t \in Task
    BY <2>2, TailElements
  <2>4. child[t] \in Ended
    BY <2>1, <2>3 DEF Tracking, Tracked, ReportsTracked
  <2>5. /\ IF child[t] = "ok"
           THEN runq_complete' = runq_complete \union {t} /\ failed_tids' = failed_tids
           ELSE failed_tids' = failed_tids \union {t} /\ runq_complete' = runq_complete
        /\ child' = child
    BY <1>2 DEF ReadExitcode, runqueue_process_waitpid, task_complete, task_fail,
                task_completeoutright
  <2>6. QED
    BY <2>4, <2>5 DEF Outcomes, Ended
<1>3. ASSUME NEW t \in Task, t \notin runq_running,
             runq_complete' = runq_complete \union {t},
             UNCHANGED <<failed_tids, child>>
      PROVE  Outcomes'
  BY <1>3 DEF Outcomes, Tracking, Tracked, ChildrenTracked
<1>4. CASE Enforce
  <2>1. CASE \E t \in Task : EnforceSkip(t)
    BY <1>3, <1>4, <2>1
    DEF Enforce, EnforceSkip, sched_next, Ready, Candidates, task_skip,
        task_completeoutright, workerVars
  <2>2. CASE EnforceDone
    BY <1>1, <1>4, <2>2 DEF Enforce, EnforceDone, queueVars, workerVars
  <2>3. QED
    BY <1>4, <2>1, <2>2 DEF Enforce
<1>5. CASE ExecuteHere
  <2>1. CASE \E t \in Task : ExecuteSkip(t) \/ ExecuteNoExec(t)
    BY <1>3, <1>5, <2>1
    DEF ExecuteHere, ExecuteSkip, ExecuteNoExec, sched_next, Ready, Candidates, task_skip,
        task_completeoutright, workerVars
  <2>2. CASE ExecuteFinished \/ \E t \in Task : ExecuteSpawnFails(t)
    BY <1>1, <1>5, <2>2
    DEF ExecuteHere, ExecuteSpawnFails, ExecuteFinished, build_taskdepdata, queueVars,
        workerVars
  <2>3. QED
    BY <1>5, <2>1, <2>2 DEF ExecuteHere
<1>6. ASSUME NEW t \in Task, ExecuteLaunchOn(t) PROVE Outcomes'
  BY <1>1, <1>6 DEF ExecuteLaunchOn, ExecuteLaunch, build_taskdepdata
<1>7. CASE ExecuteException
  BY <1>1, <1>7 DEF ExecuteException, ExecuteRaises, ExecuteWriteFails, build_taskdepdata,
                    queueVars
<1>8. CASE \/ PollWorkers \/ ReadDone \/ BuildTargetsIdle \/ MonitorBegin \/ MonitorEnd
           \/ \E action \in DiskActions : DiskFull(action)
           \/ ExecuteBegin \/ ExecuteWait \/ CleanUp \/ End \/ WorkerGone \/ TeardownDone
           \/ Return \/ ExceptionHandled \/ \E cmd \in Shutdowns : Command(cmd)
           \/ UNCHANGED vars
  <2>1. UNCHANGED <<queueVars, child>>
    BY <1>8 DEF PollWorkers, ReadDone, BuildTargetsIdle, MonitorBegin, MonitorEnd, DiskFull,
      ExecuteBegin, ExecuteWait, CleanUp, End, WorkerGone, TeardownDone, Return,
      ExceptionHandled, Command, finish, finish_now, ExecuteAborted, workerVars, vars,
      serverVars
  <2>2. QED
    BY <1>1, <2>1 DEF queueVars
<1>9. ASSUME NEW w \in Worker, Serve(w) \/ WorkerDies(w), UNCHANGED serverVars
      PROVE  Outcomes'
  <2>1. UNCHANGED <<runq_complete, failed_tids>>
    BY <1>9 DEF serverVars, queueVars
  <2>2. CASE child' = child
    BY <1>1, <2>1, <2>2
  <2>3. ASSUME NEW t \in Task, handle_runtask(w, t) PROVE Outcomes'
    <3>1. \E i \in DOMAIN stdin[w] : stdin[w][i] = <<"runtask", t>>
      BY <2>3, OrderTaken DEF handle_runtask
    <3>2. t \in build_stamps
      BY <3>1 DEF Tracking, Tracked, OrdersTracked
    <3>3. \A u \in Task \ {t} : child'[u] = child[u]
      BY <2>3 DEF handle_runtask, Tracking, WorkersTyped, WorkerTypeOK
    <3>4. QED
      BY <2>1, <3>2, <3>3 DEF QueueSafe, Outcomes, ExecuteTypeOK
  <2>4. ASSUME NEW t \in Task, KillChild(w, t), child' # child PROVE Outcomes'
    <3>1. t \in build_stamps
      BY <2>4 DEF KillChild, Tracking, Tracked, ChildrenTracked, Running
    <3>2. \A u \in Task \ {t} : child'[u] = child[u]
      BY <2>4 DEF KillChild, ends, Tracking, WorkersTyped, WorkerTypeOK
    <3>3. QED
      BY <2>1, <3>1, <3>2 DEF QueueSafe, Outcomes, ExecuteTypeOK
  <2>5. QED
    BY <1>9, <2>2, <2>3, <2>4
    DEF Serve, handle_finishnow, handle_quit, process_waitpid, KillMisses, WorkerDies
<1>10. ASSUME NEW t \in Task, TaskProcess(t), UNCHANGED serverVars
       PROVE  Outcomes'
  <2>1. UNCHANGED <<runq_complete, failed_tids>>
    BY <1>10 DEF serverVars, queueVars
  <2>2. t \in build_stamps
    BY <1>10 DEF TaskProcess, ChildSetsid, ChildEnds, Tracking, Tracked, ChildrenTracked,
                 Running
  <2>3. \A u \in Task \ {t} : child'[u] = child[u]
    BY <1>10 DEF TaskProcess, ChildSetsid, ChildEnds, ends, Tracking, WorkersTyped,
                 WorkerTypeOK
  <2>4. QED
    BY <2>1, <2>2, <2>3 DEF QueueSafe, Outcomes, ExecuteTypeOK
<1>11. QED
  BY <1>2, <1>4, <1>5, <1>6, <1>7, <1>8, <1>9, <1>10 DEF Next, Server

LEMMA OutcomesInvariance == Spec => []Outcomes
<1>1. Init => Outcomes
  BY DEF Init, ExecuteInit, Outcomes
<1>2. QED
  BY <1>1, NextOutcomes, TrackingInvariance, QueueIsSafe, PTL DEF Spec

\* Whatever is killed, dies or is reported late: there are never more processes
\* than BB_NUMBER_THREADS, never two of one stamp, and none before all it needs
\* has ended well.
THEOREM ProcessesInOrderHolds == Spec => []ProcessesInOrder
<1>1. ASSUME Tracking, QueueSafe, Outcomes PROVE ProcessesInOrder
  <2>1. Alive \subseteq build_stamps
    BY <1>1 DEF Alive, Tracking, Tracked, ChildrenTracked
  <2>2. Cardinality(Alive) <= NumberTasks
    <3>1. Cardinality(Alive) <= Cardinality(build_stamps) /\ Cardinality(Alive) \in Nat
          /\ Cardinality(build_stamps) \in Nat
      BY <1>1, <2>1, FailuresFinite, FS_Subset, FS_CardinalityType
    <3>2. QED
      BY <1>1, <3>1, ExecuteAssumption DEF QueueSafe
  <2>3. \A t, u \in Alive : StampNoExtra[t] = StampNoExtra[u] => t = u
    BY <1>1, <2>1 DEF QueueSafe
  <2>4. \A t \in Alive : \A d \in Depends[t] : child[d] \in {"none", "ok"}
    BY <1>1, <2>1 DEF QueueSafe, Outcomes
  <2>5. QED
    BY <2>2, <2>3, <2>4 DEF ProcessesInOrder
<1>2. QED
  BY <1>1, TrackingInvariance, QueueIsSafe, OutcomesInvariance, PTL

-----------------------------------------------------------------------------
(* A build that is stopped in good order, or not at all *)

\* No worker dies of itself, and nobody has the build stopped without waiting.
GoodOrder ==
  /\ MayDie = {}
  /\ "ABORT" \notin DiskActions
  /\ "forceshutdown" \notin Shutdowns

\* No worker is told to kill its tasks, and a worker that the server still has
\* is there, with no order to quit, until the workers are torn down.
Undisturbed ==
  /\ cooker_state # "forceshutdown"
  /\ \A w \in Worker : tokill[w] = {}
  /\ \A w \in Worker : \A i \in DOMAIN stdin[w] : stdin[w][i] # <<"finishnow">>
  /\ \A w \in rq_workers :
       process[w] = "dead" \/ (\E i \in DOMAIN stdin[w] : stdin[w][i] = <<"quit">>)
         => pc \in {"teardown", "raised"}
  /\ ~fakeworker => process[Fake] = "none" /\ stdin[Fake] = <<>>

\* The task of an exit code that is still to come is somewhere.
Somewhere(t) ==
  \E w \in Worker :
    \/ \E i \in DOMAIN stdin[w] : stdin[w][i] = <<"runtask", t>>
    \/ t \in build_pids[w]
    \/ \E i \in DOMAIN stdout[w] : stdout[w][i] = t

Expected == \A t \in build_stamps : Somewhere(t)

\* What the steps of the server do to all that, one group of steps at a time.
\* The server never takes a dead worker for one that died of itself.
LEMMA NobodyDied ==
  ASSUME Tracking, Undisturbed, PollWorkers
  PROVE  Dead = {}
<1>1. pc \notin {"teardown", "raised"}
  BY TailElements DEF PollWorkers, Tracking, WorkersTyped, ReadingType, ReadingInPlace
<1>2. QED
  BY <1>1 DEF Undisturbed, Dead

\* The steps that change nothing of it, or less than they may.
LEMMA UntouchedUndisturbed ==
  ASSUME Undisturbed, UNCHANGED <<process, stdin, tokill>>,
         cooker_state' # "forceshutdown", rq_workers' \subseteq rq_workers,
         pc' \in {"teardown", "raised"} \/ pc \notin {"teardown", "raised"} \/ rq_workers' = {},
         fakeworker => fakeworker'
  PROVE  Undisturbed'
BY DEF Undisturbed

LEMMA UntouchedExpected ==
  ASSUME Expected, UNCHANGED <<stdin, stdout, build_pids>>,
         build_stamps' \subseteq build_stamps
  PROVE  Expected'
BY DEF Expected, Somewhere

\* "quit" is written when the teardown has begun, and takes no order out.
LEMMA QuitWritten ==
  ASSUME Tracking, NEW todo
  PROVE  /\ \A w \in Worker :
              /\ \A i \in DOMAIN stdin[w] :
                   i \in DOMAIN WriteQuit(todo)[w] /\ WriteQuit(todo)[w][i] = stdin[w][i]
              /\ \A i \in DOMAIN WriteQuit(todo)[w] :
                   \/ i \in DOMAIN stdin[w] /\ WriteQuit(todo)[w][i] = stdin[w][i]
                   \/ WriteQuit(todo)[w][i] = <<"quit">>
              /\ process[w] # "up" => WriteQuit(todo)[w] = stdin[w]
<1>1. CASE todo = <<>>
  BY <1>1 DEF WriteQuit
<1>2. CASE todo # <<>>
  <2> DEFINE quit == <<"quit">>
             v == Head(todo)[1]
  <2>1. \A w \in Worker :
          WriteQuit(todo)[w] = IF w = v /\ process[w] = "up" THEN Append(stdin[w], quit) ELSE stdin[w]
    BY <1>2 DEF WriteQuit, write
  <2>2. quit \in Order
    BY DEF Order
  <2> HIDE DEF quit, v
  <2>3. ASSUME NEW w \in Worker
        PROVE  /\ \A i \in DOMAIN Append(stdin[w], quit) :
                    \/ i \in DOMAIN stdin[w] /\ Append(stdin[w], quit)[i] = stdin[w][i]
                    \/ i = Len(stdin[w]) + 1 /\ Append(stdin[w], quit)[i] = quit
               /\ \A i \in DOMAIN stdin[w] :
                    i \in DOMAIN Append(stdin[w], quit) /\ Append(stdin[w], quit)[i] = stdin[w][i]
    <3>1. stdin[w] \in Seq(Order)
      BY DEF Tracking, WorkersTyped, WorkerTypeOK
    <3>2. QED
      BY <2>2, <3>1, AppendElements
  <2>4. \A w \in Worker :
              /\ \A i \in DOMAIN stdin[w] :
                   i \in DOMAIN WriteQuit(todo)[w] /\ WriteQuit(todo)[w][i] = stdin[w][i]
              /\ \A i \in DOMAIN WriteQuit(todo)[w] :
                   \/ i \in DOMAIN stdin[w] /\ WriteQuit(todo)[w][i] = stdin[w][i]
                   \/ WriteQuit(todo)[w][i] = quit
              /\ process[w] # "up" => WriteQuit(todo)[w] = stdin[w]
    <3> SUFFICES ASSUME NEW w \in Worker
                 PROVE  /\ \A i \in DOMAIN stdin[w] :
                             i \in DOMAIN WriteQuit(todo)[w] /\ WriteQuit(todo)[w][i] = stdin[w][i]
                        /\ \A i \in DOMAIN WriteQuit(todo)[w] :
                             \/ i \in DOMAIN stdin[w] /\ WriteQuit(todo)[w][i] = stdin[w][i]
                             \/ WriteQuit(todo)[w][i] = quit
                        /\ process[w] # "up" => WriteQuit(todo)[w] = stdin[w]
      BY Zenon
    <3>1. CASE w = v /\ process[w] = "up"
      <4>1. WriteQuit(todo)[w] = Append(stdin[w], quit)
        BY <2>1, <3>1
      <4>2. QED
        BY <2>3, <3>1, <4>1
    <3>2. CASE ~(w = v /\ process[w] = "up")
      <4>1. WriteQuit(todo)[w] = stdin[w]
        BY <2>1, <3>2
      <4>2. QED
        BY <4>1
    <3>3. QED
      BY <3>1, <3>2
  <2>5. QED
    BY <2>4 DEF quit
<1>3. QED
  BY <1>1, <1>2

\* No order is taken out of a pipe.
LEMMA OrdersRemain ==
  ASSUME Expected, UNCHANGED <<stdout, build_pids, build_stamps>>,
         \A w \in Worker : \A i \in DOMAIN stdin[w] :
           i \in DOMAIN stdin'[w] /\ stdin'[w][i] = stdin[w][i]
  PROVE  Expected'
<1> SUFFICES ASSUME NEW t \in build_stamps PROVE Somewhere(t)'
  BY DEF Expected
<1>1. PICK w \in Worker :
        \/ \E i \in DOMAIN stdin[w] : stdin[w][i] = <<"runtask", t>>
        \/ t \in build_pids[w]
        \/ \E i \in DOMAIN stdout[w] : stdout[w][i] = t
  BY DEF Expected, Somewhere
<1>2. CASE \E i \in DOMAIN stdin[w] : stdin[w][i] = <<"runtask", t>>
  <2>1. \E i \in DOMAIN stdin'[w] : stdin'[w][i] = <<"runtask", t>>
    BY <1>2
  <2>2. QED
    BY <2>1 DEF Somewhere
<1>3. QED
  BY <1>1, <1>2 DEF Somewhere

LEMMA QuitKeeps ==
  ASSUME Tracking, Undisturbed, Expected,
         \E todo : stdin' = WriteQuit(todo),
         UNCHANGED <<process, tokill, cooker_state, rq_workers, stdout, build_pids,
                     build_stamps>>,
         pc' \in {"teardown", "raised"}, fakeworker => fakeworker'
  PROVE  Undisturbed' /\ Expected'
<1>1. \A w \in Worker :
        /\ \A i \in DOMAIN stdin[w] : i \in DOMAIN stdin'[w] /\ stdin'[w][i] = stdin[w][i]
        /\ \A i \in DOMAIN stdin'[w] :
             \/ i \in DOMAIN stdin[w] /\ stdin'[w][i] = stdin[w][i]
             \/ stdin'[w][i] = <<"quit">>
        /\ process[w] # "up" => stdin'[w] = stdin[w]
  BY QuitWritten
<1>2. \A w \in Worker : \A i \in DOMAIN stdin'[w] : stdin'[w][i] # <<"finishnow">>
  <2>1. <<"quit">> # <<"finishnow">>
    OBVIOUS
  <2>2. QED
    BY <1>1, <2>1, Zenon DEF Undisturbed
<1>3. ~fakeworker' => process'[Fake] = "none" /\ stdin'[Fake] = <<>>
  BY <1>1, RunQueueAssumption DEF Undisturbed
<1>4. Undisturbed'
  <2>1. cooker_state' # "forceshutdown" /\ \A w \in Worker : tokill'[w] = {}
    BY DEF Undisturbed
  <2>2. QED
    BY <1>2, <1>3, <2>1, Zenon DEF Undisturbed
<1>5. Expected'
  BY <1>1, OrdersRemain
<1>6. QED
  BY <1>4, <1>5

LEMMA QuietStepsStand ==
  ASSUME GoodOrder, Undisturbed, Expected,
         \/ ReadDone \/ MonitorBegin \/ MonitorEnd \/ ExecuteBegin \/ Enforce
         \/ ExecuteHere \/ ExecuteWait \/ CleanUp \/ TeardownDone \/ Return
         \/ ExceptionHandled \/ \E cmd \in Shutdowns : Command(cmd)
  PROVE  Undisturbed' /\ Expected'
<1>1. UNCHANGED <<workerVars, build_stamps, fakeworker>>
  BY DEF ReadDone, MonitorBegin, MonitorEnd, ExecuteBegin, ExecuteWait, CleanUp, finish,
         TeardownDone, Return, ExceptionHandled, ExecuteAborted, Command, queueVars,
         Enforce, ExecuteHere, EnforceSkip, EnforceDone, ExecuteSkip, ExecuteNoExec,
         ExecuteSpawnFails, build_taskdepdata, ExecuteFinished, task_skip
<1>2. /\ rq_workers' \subseteq rq_workers
      /\ pc \in {"teardown", "raised"} => pc' \in {"teardown", "raised"} \/ rq_workers' = {}
  BY DEF ReadDone, MonitorBegin, MonitorEnd, ExecuteBegin, ExecuteWait, CleanUp, At,
         TeardownDone, Return, ExceptionHandled, Command, Enforce, ExecuteHere
<1>3. cooker_state' # "forceshutdown"
  BY DEF ReadDone, MonitorBegin, MonitorEnd, ExecuteBegin, ExecuteWait, CleanUp,
         TeardownDone, Return, ExceptionHandled, Command, Enforce, ExecuteHere,
         Undisturbed, GoodOrder
<1>4. QED
  BY <1>1, <1>2, <1>3, UntouchedUndisturbed, UntouchedExpected DEF workerVars

\* Nobody is told to finish now.
LEMMA StoppingStepsStand ==
  ASSUME GoodOrder, Tracking, Undisturbed, Expected,
         PollWorkers \/ BuildTargetsIdle \/ \E action \in DiskActions : DiskFull(action)
  PROVE  Undisturbed' /\ Expected'
<1>1. stdin' = stdin /\ UNCHANGED queueVars
  <2>1. CASE PollWorkers
    BY <2>1, NobodyDied DEF PollWorkers
  <2>2. CASE BuildTargetsIdle
    BY <2>2 DEF BuildTargetsIdle, Undisturbed, finish
  <2>3. ASSUME NEW action \in DiskActions, DiskFull(action) PROVE <1>1
    BY <2>3 DEF DiskFull, GoodOrder, finish
  <2>4. QED
    BY <2>1, <2>2, <2>3
<1>2. /\ UNCHANGED <<process, stdout, build_pids, tokill, rq_workers, cooker_state>>
      /\ pc \in {"teardown", "raised"} => pc' = pc
  BY DEF PollWorkers, BuildTargetsIdle, DiskFull, At
<1>3. cooker_state' # "forceshutdown"
  BY <1>2 DEF Undisturbed
<1>4. QED
  BY <1>1, <1>2, <1>3, UntouchedUndisturbed, UntouchedExpected DEF queueVars

LEMMA TeardownStepsStand ==
  ASSUME Tracking, Undisturbed, Expected, End \/ WorkerGone \/ ExecuteException
  PROVE  Undisturbed' /\ Expected'
<1>1. /\ UNCHANGED <<process, tokill, cooker_state, rq_workers, stdout, build_pids,
                     build_stamps>>
      /\ fakeworker => fakeworker'
  <2>1. UNCHANGED <<process, tokill, cooker_state, rq_workers, stdout, build_pids,
                    build_stamps>>
    BY DEF End, WorkerGone, ExecuteException, ExecuteRaises, ExecuteWriteFails, queueVars
  <2>2. fakeworker => fakeworker'
    <3>1. CASE End \/ WorkerGone
      BY <3>1 DEF End, WorkerGone, queueVars
    <3>2. CASE ExecuteException
      <4>1. ExecuteRaises \/ \E t \in Task : ExecuteWriteFails(t)
        BY <3>2 DEF ExecuteException
      <4>2. CASE ExecuteRaises
        BY <4>2 DEF ExecuteRaises, queueVars
      <4>3. ASSUME NEW t \in Task, ExecuteWriteFails(t) PROVE fakeworker => fakeworker'
        BY <4>3, Zenon DEF ExecuteWriteFails
      <4>4. QED
        BY <4>1, <4>2, <4>3
    <3>3. QED
      BY <3>1, <3>2
  <2>3. QED
    BY <2>1, <2>2
<1>2. CASE End /\ state \notin {"Complete", "Failed"}
  <2>1. stdin' = stdin /\ pc = "end" /\ cooker_state' # "forceshutdown"
    BY <1>1, <1>2 DEF End, At, Undisturbed
  <2>2. QED
    BY <1>1, <2>1, UntouchedUndisturbed, UntouchedExpected
<1>3. CASE ~(End /\ state \notin {"Complete", "Failed"})
  <2>1. pc' \in {"teardown", "raised"} /\ \E todo : stdin' = WriteQuit(todo)
    BY <1>3 DEF End, WorkerGone, ExecuteException, StartTeardown
  <2>2. QED
    BY <1>1, <2>1, QuitKeeps
<1>4. QED
  BY <1>2, <1>3

\* A task whose exit code was read is not expected any more.
LEMMA ReadExitcodeStands ==
  ASSUME Tracking, Undisturbed, Expected, ReadExitcode
  PROVE  Undisturbed' /\ Expected'
<1> DEFINE w == Head(reading)[1]
           t == Head(stdout[w])
<1>1. w \in Worker
  BY TailElements DEF ReadExitcode, Tracking, WorkersTyped, ReadingType
<1>2. stdout[w] \in Seq(Task) /\ stdout[w] # <<>>
  BY <1>1 DEF ReadExitcode, Tracking, WorkersTyped, WorkerTypeOK
<1>3. \A i \in DOMAIN stdout[w] :
        stdout[w][i] = t \/ (i - 1 \in DOMAIN Tail(stdout[w])
                             /\ Tail(stdout[w])[i - 1] = stdout[w][i])
  BY <1>2, TailKeeps
<1>4. /\ build_stamps' = build_stamps \ {t}
      /\ stdout' = [stdout EXCEPT ![w] = Tail(@)]
      /\ UNCHANGED <<process, stdin, build_pids, tokill, pc, rq_workers, cooker_state,
                     fakeworker>>
  BY WaitpidEffect DEF ReadExitcode, runqueue_process_waitpid
<1>5. Undisturbed'
  BY <1>4 DEF Undisturbed
<1>6. \A v \in Worker : stdout'[v] = IF v = w THEN Tail(stdout[w]) ELSE stdout[v]
  BY <1>1, <1>4 DEF Tracking, WorkersTyped, WorkerTypeOK
<1> HIDE DEF w, t
<1>7. ASSUME NEW u \in build_stamps' PROVE Somewhere(u)'
  <2>1. PICK v \in Worker :
          \/ \E i \in DOMAIN stdin[v] : stdin[v][i] = <<"runtask", u>>
          \/ u \in build_pids[v]
          \/ \E i \in DOMAIN stdout[v] : stdout[v][i] = u
    BY <1>4, <1>7 DEF Expected, Somewhere
  <2>2. ASSUME NEW i \in DOMAIN stdout[v], stdout[v][i] = u
        PROVE  \E j \in DOMAIN stdout'[v] : stdout'[v][j] = u
    <3>1. u # t
      BY <1>4, <1>7
    <3>2. QED
      BY <1>3, <1>6, <2>2, <3>1
  <2>3. QED
    BY <1>4, <2>1, <2>2 DEF Somewhere
<1>8. QED
  BY <1>5, <1>7 DEF Expected

\* A launched task is expected, and its order waits for the worker.
LEMMA LaunchStands ==
  ASSUME Tracking, Undisturbed, Expected, NEW t \in Task, ExecuteLaunchOn(t)
  PROVE  Undisturbed' /\ Expected'
<1> DEFINE w == WorkerOf(t)
           m == <<"runtask", t>>
<1>1. w \in Worker /\ m \in Order
  BY WorkerOfTask DEF Order
<1>2. /\ build_stamps' = build_stamps \union {t}
      /\ stdin' = [stdin EXCEPT ![w] = Append(@, m)]
      /\ UNCHANGED <<stdout, build_pids, tokill, cooker_state>>
      /\ fakeworker' = (fakeworker \/ t \in Fakeroot)
      /\ pc = "select"
      /\ process' = [u \in Worker |-> IF w = Fake /\ ~fakeworker /\ u = Fake
                                      THEN "up" ELSE process[u]]
      /\ rq_workers' = IF w = Fake /\ ~fakeworker THEN rq_workers \union {Fake} ELSE rq_workers
  BY DEF ExecuteLaunchOn, ExecuteLaunch, build_taskdepdata, At
<1>3. stdin[w] \in Seq(Order)
  BY <1>1 DEF Tracking, WorkersTyped, WorkerTypeOK
<1>4. /\ \A i \in DOMAIN Append(stdin[w], m) :
           \/ i \in DOMAIN stdin[w] /\ Append(stdin[w], m)[i] = stdin[w][i]
           \/ i = Len(stdin[w]) + 1 /\ Append(stdin[w], m)[i] = m
      /\ Len(stdin[w]) + 1 \in DOMAIN Append(stdin[w], m)
      /\ Append(stdin[w], m)[Len(stdin[w]) + 1] = m
      /\ \A i \in DOMAIN stdin[w] :
           i \in DOMAIN Append(stdin[w], m) /\ Append(stdin[w], m)[i] = stdin[w][i]
  BY <1>1, <1>3, AppendElements
<1>5. \A v \in Worker : stdin'[v] = IF v = w THEN Append(stdin[w], m) ELSE stdin[v]
  BY <1>1, <1>2 DEF Tracking, WorkersTyped, WorkerTypeOK
<1>6. w = Fake => t \in Fakeroot
  BY RunQueueAssumption DEF WorkerOf
<1>7. m # <<"quit">> /\ m # <<"finishnow">>
  OBVIOUS
<1>8. Fake \in Worker
  BY RunQueueAssumption
<1>9. t \in Fakeroot => w = Fake
  BY DEF WorkerOf
<1> HIDE DEF w, m
<1>10. \A v \in Worker : \A i \in DOMAIN stdin'[v] :
         (i \in DOMAIN stdin[v] /\ stdin'[v][i] = stdin[v][i]) \/ stdin'[v][i] = m
  <2> SUFFICES ASSUME NEW v \in Worker, NEW i \in DOMAIN stdin'[v]
               PROVE  (i \in DOMAIN stdin[v] /\ stdin'[v][i] = stdin[v][i]) \/ stdin'[v][i] = m
    OBVIOUS
  <2>1. stdin'[v] = IF v = w THEN Append(stdin[w], m) ELSE stdin[v]
    BY <1>5
  <2>2. QED
    BY <1>4, <2>1
<1>11. Undisturbed'
  <2>1. cooker_state' # "forceshutdown" /\ \A v \in Worker : tokill'[v] = {}
    BY <1>2 DEF Undisturbed
  <2>2. \A v \in Worker : \A i \in DOMAIN stdin'[v] : stdin'[v][i] # <<"finishnow">>
    BY <1>7, <1>10, Zenon DEF Undisturbed
  <2>3. \A v \in Worker : \A i \in DOMAIN stdin'[v] : stdin'[v][i] = <<"quit">> =>
          i \in DOMAIN stdin[v] /\ stdin[v][i] = <<"quit">>
    BY <1>7, <1>10, Zenon
  <2>4. ASSUME NEW v \in rq_workers'
        PROVE  process'[v] # "dead" /\ \A i \in DOMAIN stdin'[v] : stdin'[v][i] # <<"quit">>
    <3>0. v \in Worker
      BY <1>2, <1>8, <2>4 DEF Tracking, WorkersTyped
    <3>1. CASE v \in rq_workers
      <4>1. process[v] # "dead" /\ \A i \in DOMAIN stdin[v] : stdin[v][i] # <<"quit">>
        BY <1>2, <3>1 DEF Undisturbed
      <4>2. QED
        BY <1>2, <2>3, <3>0, <4>1
    <3>2. CASE v \notin rq_workers
      <4>1. v = Fake /\ w = Fake /\ ~fakeworker
        BY <1>2, <2>4, <3>2
      <4>2. process'[v] = "up"
        BY <1>2, <3>0, <4>1
      <4>3. stdin[v] = <<>>
        BY <4>1 DEF Undisturbed
      <4>4. QED
        BY <2>3, <3>0, <4>2, <4>3
    <3>3. QED
      BY <3>1, <3>2
  <2>5. ~fakeworker' => process'[Fake] = "none" /\ stdin'[Fake] = <<>>
    BY <1>2, <1>5, <1>6, <1>8 DEF Undisturbed
  <2>6. QED
    BY <2>1, <2>2, <2>4, <2>5 DEF Undisturbed
<1>12. ASSUME NEW u \in build_stamps' PROVE Somewhere(u)'
  <2>1. CASE u = t
    <3>1. stdin'[w] = Append(stdin[w], m)
      BY <1>1, <1>5
    <3>2. \E i \in DOMAIN stdin'[w] : stdin'[w][i] = <<"runtask", u>>
      BY <1>4, <2>1, <3>1 DEF m
    <3>3. QED
      BY <1>1, <3>2 DEF Somewhere
  <2>2. CASE u # t
    <3>1. PICK v \in Worker :
            \/ \E i \in DOMAIN stdin[v] : stdin[v][i] = <<"runtask", u>>
            \/ u \in build_pids[v]
            \/ \E i \in DOMAIN stdout[v] : stdout[v][i] = u
      BY <1>2, <1>12, <2>2 DEF Expected, Somewhere
    <3>2. ASSUME NEW i \in DOMAIN stdin[v], stdin[v][i] = <<"runtask", u>>
          PROVE  \E j \in DOMAIN stdin'[v] : stdin'[v][j] = <<"runtask", u>>
      <4>1. stdin'[v] = IF v = w THEN Append(stdin[w], m) ELSE stdin[v]
        BY <1>5
      <4>2. QED
        BY <1>4, <3>2, <4>1
    <3>3. QED
      BY <1>2, <3>1, <3>2 DEF Somewhere
  <2>3. QED
    BY <2>1, <2>2
<1>13. QED
  BY <1>11, <1>12 DEF Expected

\* The order that a worker takes is the only one to leave its pipe.
LEMMA OrdersLeft ==
  ASSUME Tracking, NEW w \in Worker, NEW m, Handles(w, m)
  PROVE  /\ \A v \in Worker : v # w => stdin'[v] = stdin[v]
         /\ \A v \in Worker : \A i \in DOMAIN stdin[v] :
              stdin[v][i] = m \/ \E j \in DOMAIN stdin'[v] : stdin'[v][j] = stdin[v][i]
<1>1. stdin[w] \in Seq(Order) /\ stdin[w] # <<>> /\ Head(stdin[w]) = m
      /\ stdin' = [stdin EXCEPT ![w] = Tail(@)]
  BY DEF Handles, Tracking, WorkersTyped, WorkerTypeOK
<1>2. \A i \in DOMAIN stdin[w] :
        stdin[w][i] = m \/ (i - 1 \in DOMAIN Tail(stdin[w])
                            /\ Tail(stdin[w])[i - 1] = stdin[w][i])
  BY <1>1, TailKeeps
<1>3. \A v \in Worker : stdin'[v] = IF v = w THEN Tail(stdin[w]) ELSE stdin[v]
  BY <1>1 DEF Tracking, WorkersTyped, WorkerTypeOK
<1>4. QED
  BY <1>2, <1>3

\* Taking an order that is not to finish now disturbs nobody.
LEMMA OrderTakenUndisturbed ==
  ASSUME Tracking, Undisturbed, NEW w \in Worker, NEW m, Handles(w, m),
         UNCHANGED <<cooker_state, tokill, rq_workers, pc, fakeworker>>,
         \A v \in rq_workers : process'[v] = "dead" =>
           process[v] = "dead" \/ \E i \in DOMAIN stdin[v] : stdin[v][i] = <<"quit">>,
         \A v \in Worker : v # w => process'[v] = process[v]
  PROVE  Undisturbed'
<1>1. \A v \in Worker : \A i \in DOMAIN stdin'[v] :
        \E k \in DOMAIN stdin[v] : stdin'[v][i] = stdin[v][k]
  BY OrderTaken
<1>2. \A v \in Worker : \A i \in DOMAIN stdin'[v] : stdin'[v][i] # <<"finishnow">>
  <2> TAKE v \in Worker
  <2> TAKE i \in DOMAIN stdin'[v]
  <2>1. PICK k \in DOMAIN stdin[v] : stdin'[v][i] = stdin[v][k]
    BY <1>1
  <2>2. stdin[v][k] # <<"finishnow">>
    BY Zenon DEF Undisturbed
  <2>3. QED
    BY <2>1, <2>2
<1>3. \A v \in rq_workers :
        process'[v] = "dead" \/ (\E i \in DOMAIN stdin'[v] : stdin'[v][i] = <<"quit">>)
          => pc \in {"teardown", "raised"}
  <2> SUFFICES ASSUME NEW v \in rq_workers,
                      process'[v] = "dead" \/ \E i \in DOMAIN stdin'[v] : stdin'[v][i] = <<"quit">>
               PROVE  pc \in {"teardown", "raised"}
    OBVIOUS
  <2>1. v \in Worker
    BY DEF Tracking, WorkersTyped
  <2>2. process[v] = "dead" \/ \E i \in DOMAIN stdin[v] : stdin[v][i] = <<"quit">>
    BY <1>1, <2>1, Zenon
  <2>3. QED
    BY <2>2 DEF Undisturbed
<1>4. ~fakeworker => process'[Fake] = "none" /\ stdin'[Fake] = <<>>
  <2>1. Fake \in Worker
    BY RunQueueAssumption
  <2>2. CASE w = Fake
    <3>1. stdin[Fake] # <<>>
      BY <2>2 DEF Handles
    <3>2. QED
      BY <3>1 DEF Undisturbed
  <2>3. CASE w # Fake
    <3>1. stdin'[Fake] = stdin[Fake]
      BY <2>1, <2>3, OrdersLeft
    <3>2. QED
      BY <2>1, <2>3, <3>1 DEF Undisturbed
  <2>4. QED
    BY <2>2, <2>3
<1>5. cooker_state' # "forceshutdown" /\ \A v \in Worker : tokill'[v] = {}
  BY DEF Undisturbed
<1>6. QED
  BY <1>2, <1>3, <1>4, <1>5 DEF Undisturbed

LEMMA HandlingStands ==
  ASSUME Tracking, Undisturbed, Expected, NEW w \in Worker, UNCHANGED serverVars,
         handle_finishnow(w) \/ handle_quit(w) \/ \E t \in Task : handle_runtask(w, t)
  PROVE  Undisturbed' /\ Expected'
<1>1. UNCHANGED <<cooker_state, rq_workers, pc, fakeworker, build_stamps>>
  BY DEF serverVars, queueVars
<1>2. ~handle_finishnow(w)
  <2>1. ASSUME Handles(w, <<"finishnow">>) PROVE FALSE
    <3>1. \E i \in DOMAIN stdin[w] : stdin[w][i] = <<"finishnow">>
      BY <2>1, OrderTaken
    <3>2. QED
      BY <3>1, Zenon DEF Undisturbed
  <2>2. QED
    BY <2>1 DEF handle_finishnow
<1>3. CASE handle_quit(w)
  <2> DEFINE m == <<"quit">>
  <2>1. /\ Handles(w, m)
        /\ process' = [process EXCEPT ![w] = "dead"]
        /\ UNCHANGED <<stdout, build_pids, tokill>>
    BY <1>3 DEF handle_quit
  <2>2. \A u : m # <<"runtask", u>>
    OBVIOUS
  <2>3. m = <<"quit">>
    OBVIOUS
  <2> HIDE DEF m
  <2>4. \E i \in DOMAIN stdin[w] : stdin[w][i] = m
    BY <2>1, OrderTaken
  <2>5. \A v \in Worker : \A i \in DOMAIN stdin[v] :
          stdin[v][i] = m \/ \E j \in DOMAIN stdin'[v] : stdin'[v][j] = stdin[v][i]
    BY <2>1, OrdersLeft
  <2>6. \A v \in Worker : v # w => process'[v] = process[v]
    BY <2>1 DEF Tracking, WorkersTyped, WorkerTypeOK
  <2>7. \A v \in rq_workers : process'[v] = "dead" =>
          process[v] = "dead" \/ \E i \in DOMAIN stdin[v] : stdin[v][i] = <<"quit">>
    <3>1. rq_workers \subseteq Worker
      BY DEF Tracking, WorkersTyped
    <3>2. QED
      BY <2>3, <2>4, <2>6, <3>1, Zenon
  <2>8. Undisturbed'
    BY <1>1, <2>1, <2>6, <2>7, OrderTakenUndisturbed
  <2>9. ASSUME NEW u \in build_stamps' PROVE Somewhere(u)'
    <3>1. PICK v \in Worker :
            \/ \E i \in DOMAIN stdin[v] : stdin[v][i] = <<"runtask", u>>
            \/ u \in build_pids[v]
            \/ \E i \in DOMAIN stdout[v] : stdout[v][i] = u
      BY <1>1, <2>9 DEF Expected, Somewhere
    <3>2. ASSUME NEW i \in DOMAIN stdin[v], stdin[v][i] = <<"runtask", u>>
          PROVE  \E j \in DOMAIN stdin'[v] : stdin'[v][j] = <<"runtask", u>>
      BY <2>2, <2>5, <3>2, Zenon
    <3>3. QED
      BY <2>1, <3>1, <3>2 DEF Somewhere
  <2>10. QED
    BY <2>8, <2>9 DEF Expected
<1>4. ASSUME NEW t \in Task, handle_runtask(w, t) PROVE Undisturbed' /\ Expected'
  <2> DEFINE m == <<"runtask", t>>
  <2>1. /\ Handles(w, m)
        /\ build_pids' = [build_pids EXCEPT ![w] = @ \union {t}]
        /\ UNCHANGED <<process, stdout, tokill>>
    BY <1>4 DEF handle_runtask
  <2>2. \A u : m = <<"runtask", u>> => u = t
    OBVIOUS
  <2> HIDE DEF m
  <2>3. \A v \in Worker : \A i \in DOMAIN stdin[v] :
          stdin[v][i] = m \/ \E j \in DOMAIN stdin'[v] : stdin'[v][j] = stdin[v][i]
    BY <2>1, OrdersLeft
  <2>4. Undisturbed'
    BY <1>1, <2>1, OrderTakenUndisturbed
  <2>5. \A v \in Worker :
          build_pids'[v] = IF v = w THEN build_pids[v] \union {t} ELSE build_pids[v]
    BY <2>1 DEF Tracking, WorkersTyped, WorkerTypeOK
  <2>6. ASSUME NEW u \in build_stamps' PROVE Somewhere(u)'
    <3>1. PICK v \in Worker :
            \/ \E i \in DOMAIN stdin[v] : stdin[v][i] = <<"runtask", u>>
            \/ u \in build_pids[v]
            \/ \E i \in DOMAIN stdout[v] : stdout[v][i] = u
      BY <1>1, <2>6 DEF Expected, Somewhere
    <3>2. ASSUME NEW i \in DOMAIN stdin[v], stdin[v][i] = <<"runtask", u>>
          PROVE  u = t \/ \E j \in DOMAIN stdin'[v] : stdin'[v][j] = <<"runtask", u>>
      BY <2>2, <2>3, <3>2, Zenon
    <3>3. u = t => \E x \in Worker : u \in build_pids'[x]
      BY <2>5
    <3>4. QED
      BY <2>1, <2>5, <3>1, <3>2, <3>3 DEF Somewhere
  <2>7. QED
    BY <2>4, <2>6 DEF Expected
<1>5. QED
  BY <1>2, <1>3, <1>4

\* The exit code of a process that is waited for goes into the pipe.
LEMMA WaitpidStands ==
  ASSUME Tracking, Undisturbed, Expected, NEW w \in Worker, NEW t \in Task,
         process_waitpid(w, t), UNCHANGED serverVars
  PROVE  Undisturbed' /\ Expected'
<1>1. /\ build_pids' = [build_pids EXCEPT ![w] = @ \ {t}]
      /\ stdout' = [stdout EXCEPT ![w] = Append(@, t)]
      /\ UNCHANGED <<process, stdin, tokill, cooker_state, rq_workers, pc, fakeworker,
                     build_stamps>>
  BY DEF process_waitpid, serverVars, queueVars
<1>2. Undisturbed'
  BY <1>1 DEF Undisturbed
<1>3. stdout[w] \in Seq(Task)
  BY DEF Tracking, WorkersTyped, WorkerTypeOK
<1>4. /\ Len(stdout[w]) + 1 \in DOMAIN Append(stdout[w], t)
      /\ Append(stdout[w], t)[Len(stdout[w]) + 1] = t
      /\ \A i \in DOMAIN stdout[w] :
           i \in DOMAIN Append(stdout[w], t) /\ Append(stdout[w], t)[i] = stdout[w][i]
  BY <1>3, AppendElements
<1>5. /\ \A v \in Worker :
           stdout'[v] = IF v = w THEN Append(stdout[w], t) ELSE stdout[v]
      /\ \A v \in Worker :
           build_pids'[v] = IF v = w THEN build_pids[v] \ {t} ELSE build_pids[v]
  BY <1>1 DEF Tracking, WorkersTyped, WorkerTypeOK
<1>6. ASSUME NEW u \in build_stamps' PROVE Somewhere(u)'
  <2>1. CASE u = t
    <3>1. \E j \in DOMAIN stdout'[w] : stdout'[w][j] = t
      BY <1>4, <1>5
    <3>2. QED
      BY <2>1, <3>1 DEF Somewhere
  <2>2. CASE u # t
    <3>1. PICK v \in Worker :
            \/ \E i \in DOMAIN stdin[v] : stdin[v][i] = <<"runtask", u>>
            \/ u \in build_pids[v]
            \/ \E i \in DOMAIN stdout[v] : stdout[v][i] = u
      BY <1>1, <1>6 DEF Expected, Somewhere
    <3>2. u \in build_pids[v] => u \in build_pids'[v]
      BY <1>5, <2>2
    <3>3. ASSUME NEW i \in DOMAIN stdout[v], stdout[v][i] = u
          PROVE  \E j \in DOMAIN stdout'[v] : stdout'[v][j] = u
      <4>1. stdout'[v] = IF v = w THEN Append(stdout[w], t) ELSE stdout[v]
        BY <1>5
      <4>2. QED
        BY <1>4, <3>3, <4>1
    <3>4. QED
      BY <1>1, <3>1, <3>2, <3>3 DEF Somewhere
  <2>3. QED
    BY <2>1, <2>2
<1>7. QED
  BY <1>2, <1>6 DEF Expected

LEMMA NextStands ==
  ASSUME GoodOrder, Tracking, Undisturbed, Expected, [Next]_vars
  PROVE  Undisturbed' /\ Expected'
<1>1. CASE UNCHANGED <<process, stdin, stdout, build_pids, tokill, serverVars>>
  BY <1>1, UntouchedUndisturbed, UntouchedExpected DEF serverVars, queueVars, Undisturbed
<1>2. CASE Server \/ \E cmd \in Shutdowns : Command(cmd)
  BY <1>2, QuietStepsStand, StoppingStepsStand, TeardownStepsStand, ReadExitcodeStands,
     LaunchStands
  DEF Server
<1>3. ASSUME NEW w \in Worker, Serve(w), UNCHANGED serverVars
      PROVE  Undisturbed' /\ Expected'
  <2>1. \A t \in Task : ~KillChild(w, t) /\ ~KillMisses(w, t)
    BY DEF Undisturbed, KillChild, KillMisses
  <2>2. QED
    BY <1>3, <2>1, HandlingStands, WaitpidStands DEF Serve
<1>4. ASSUME NEW w \in Worker PROVE ~WorkerDies(w)
  BY DEF WorkerDies, GoodOrder
<1>5. ASSUME NEW t \in Task, TaskProcess(t), UNCHANGED serverVars
      PROVE  Undisturbed' /\ Expected'
  BY <1>1, <1>5 DEF TaskProcess, ChildSetsid, ChildEnds
<1>6. CASE UNCHANGED vars
  BY <1>1, <1>6 DEF vars, workerVars
<1>7. QED
  BY <1>2, <1>3, <1>4, <1>5, <1>6 DEF Next

LEMMA StandingInvariance ==
  ASSUME GoodOrder
  PROVE  Spec => [](Undisturbed /\ Expected)
<1>1. Init => Undisturbed /\ Expected
  <2>1. Fake \in Worker /\ Fake # Normal
    BY RunQueueAssumption
  <2> SUFFICES ASSUME Init PROVE Undisturbed /\ Expected
    OBVIOUS
  <2>2. /\ \A w \in Worker : stdin[w] = <<>> /\ tokill[w] = {}
        /\ \A w \in rq_workers : process[w] = "up"
        /\ process[Fake] = "none"
        /\ build_stamps = {} /\ cooker_state = "running" /\ rq_workers \subseteq Worker
    BY <2>1, RunQueueAssumption DEF Init, WorkerInit, ExecuteInit
  <2>3. QED
    BY <2>1, <2>2 DEF Undisturbed, Expected
<1>2. Tracking /\ (Undisturbed /\ Expected) /\ [Next]_vars => (Undisturbed /\ Expected)'
  BY NextStands
<1>3. QED
  BY <1>1, <1>2, TrackingInvariance, PTL DEF Spec

\* Unless a worker dies or is told to finish now, no exit code is lost: the
\* order of each task the server waits for, its process or its exit code is on
\* its way, in one place.
THEOREM ExitcodeTrackedHolds ==
  ASSUME GoodOrder
  PROVE  Spec => []ExitcodeTracked
<1>1. ASSUME Tracking, Expected, NEW t \in Task
      PROVE  Cardinality(Places(t)) = IF t \in build_stamps THEN 1 ELSE 0
  <2>1. CASE t \notin build_stamps
    <3>1. Places(t) = {}
      BY <1>1, <2>1, OnePlace
    <3>2. QED
      BY <2>1, <3>1, FS_EmptySet
  <2>2. CASE t \in build_stamps
    <3>1. PICK w \in Worker :
            \/ \E i \in DOMAIN stdin[w] : stdin[w][i] = <<"runtask", t>>
            \/ t \in build_pids[w]
            \/ \E i \in DOMAIN stdout[w] : stdout[w][i] = t
      BY <1>1, <2>2 DEF Expected, Somewhere
    <3>2. \E p \in Places(t) : TRUE
      <4>1. CASE \E i \in DOMAIN stdin[w] : stdin[w][i] = <<"runtask", t>>
        <5>1. <<w, "stdin">> \in Places(t)
          BY <4>1 DEF Places, Range
        <5>2. QED
          BY <5>1
      <4>2. CASE t \in build_pids[w]
        <5>1. <<w, "build_pids">> \in Places(t)
          BY <4>2 DEF Places
        <5>2. QED
          BY <5>1
      <4>3. CASE \E i \in DOMAIN stdout[w] : stdout[w][i] = t
        <5>1. <<w, "stdout">> \in Places(t)
          BY <4>3 DEF Places, Range
        <5>2. QED
          BY <5>1
      <4>4. QED
        BY <3>1, <4>1, <4>2, <4>3
    <3>3. PICK p \in Places(t) : Places(t) = {p}
      BY <1>1, <3>2, OnePlace
    <3>4. Cardinality({p}) = 1
      BY FS_Singleton
    <3>5. QED
      BY <2>2, <3>3, <3>4
  <2>3. QED
    BY <2>1, <2>2
<1>2. Tracking /\ (Undisturbed /\ Expected) => ExitcodeTracked
  BY <1>1 DEF ExitcodeTracked
<1>3. QED
  BY <1>2, TrackingInvariance, StandingInvariance, PTL

-----------------------------------------------------------------------------
(* What the end of a build in good order tells *)

\* Once the queue is said to be complete or failed, the server expects no exit
\* code; the workers are given up last.
InOrder ==
  /\ pc \in {"select", "enforce"} => state \in {"Running", "CleanUp"}
  /\ pc \notin {"raised", "quit"} /\ state \in {"Complete", "Failed"} => build_stamps = {}
  /\ pc \notin {"raised", "quit"} /\ state = "Complete" => failed_tids = {}
  /\ pc \in {"teardown", "return"} => state \in {"Complete", "Failed"}
  /\ rq_workers = {} => pc \in {"return", "done", "quit"}
  /\ pc = "done" => build_stamps = {} /\ failures = Cardinality(failed_tids)

\* A fakeroot worker that could not be spawned is a failure without a task, and
\* leaves the counts apart for good.
Finishing == ~SpawnFailed => InOrder

LEMMA FailedCount ==
  ASSUME NEW s \in RunQueueStats
  PROVE  /\ s.failed \in Int /\ s.active \in Int
         /\ taskActive(s).failed = s.failed
         /\ taskCompleted(s).failed = s.failed
         /\ taskSkipped(s).failed = s.failed
         /\ taskFailed(s).failed = s.failed + 1
         /\ taskSkipped(taskCompleted(s)).failed = s.failed
         /\ taskCompleted(taskActive(s)).failed = s.failed
BY DEF RunQueueStats, taskActive, taskCompleted, taskSkipped, taskFailed

\* Nothing is active when the server expects no exit code, and the other way
\* round, unless a worker could not be spawned.
LEMMA ActiveCount ==
  ASSUME QueueSafe, ~SpawnFailed
  PROVE  /\ stats.active \in Int
         /\ stats.active > 0 <=> build_stamps # {}
<1>1. stats.active = Cardinality(build_stamps)
  BY FailuresFinite, FailedCount DEF QueueSafe, ExecuteTypeOK, SpawnFailed
<1>2. Cardinality(build_stamps) \in Nat /\ (Cardinality(build_stamps) = 0 <=> build_stamps = {})
  BY FailuresFinite, FS_EmptySet
<1>3. QED
  BY <1>1, <1>2

\* The failures that the statistics count and that no task accounts for stay.
LEMMA ReadExitcodeCounts ==
  ASSUME Tracking, QueueSafe, ReadExitcode
  PROVE  /\ SpawnFailed' <=> SpawnFailed
         /\ build_stamps # {} /\ build_stamps' \subseteq build_stamps
         /\ state' \in {state, "CleanUp"}
         /\ failed_tids' = failed_tids \/ state' = "CleanUp" \/ state' = state
<1> DEFINE w == Head(reading)[1]
           t == Head(stdout[w])
           ok == child[t] = "ok"
<1>1. w \in Worker
  BY TailElements DEF ReadExitcode, Tracking, WorkersTyped, ReadingType
<1>2. stdout[w] \in Seq(Task) /\ stdout[w] # <<>>
  BY <1>1 DEF ReadExitcode, Tracking, WorkersTyped, WorkerTypeOK
<1>3. 1 \in DOMAIN stdout[w] /\ t = stdout[w][1] /\ t \in Task
  BY <1>2, TailElements
<1>4. t \in build_stamps
  BY <1>1, <1>3 DEF Tracking, Tracked, ReportsTracked
<1>5. t \notin failed_tids
  BY <1>4 DEF QueueSafe
<1>6. runqueue_process_waitpid(t, ok)
  BY DEF ReadExitcode
<1> HIDE DEF w, t, ok
<1>7. CASE ok
  BY <1>4, <1>6, <1>7, FailedCount
  DEF runqueue_process_waitpid, task_complete, SpawnFailed, QueueSafe, ExecuteTypeOK
<1>8. CASE ~ok
  <2>1. /\ failed_tids' = failed_tids \union {t} /\ stats' = taskFailed(stats)
        /\ build_stamps' = build_stamps \ {t} /\ state' \in {state, "CleanUp"}
    BY <1>6, <1>8 DEF runqueue_process_waitpid, task_fail
  <2>2. Cardinality(failed_tids') = Cardinality(failed_tids) + 1
    BY <1>5, <2>1, FailuresFinite, FS_AddElement
  <2>3. QED
    BY <1>4, <2>1, <2>2, FailedCount, FailuresFinite DEF SpawnFailed, QueueSafe, ExecuteTypeOK
<1>9. QED
  BY <1>7, <1>8

\* finish() says complete or failed only when it expects no exit code.
LEMMA FinishInOrder ==
  ASSUME QueueSafe, ~SpawnFailed, finish
  PROVE  /\ UNCHANGED queueVars
         /\ state' \in {"CleanUp", "Failed", "Complete"}
         /\ state' \in {"Complete", "Failed"} => build_stamps = {}
         /\ state' = "Complete" => failed_tids = {}
BY ActiveCount DEF finish

LEMMA NextFinishing ==
  ASSUME GoodOrder, Tracking, QueueSafe, Undisturbed, Finishing, [Next]_vars
  PROVE  Finishing'
<1> SUFFICES ASSUME ~SpawnFailed' PROVE InOrder'
  BY DEF Finishing
<1>1. ASSUME UNCHANGED <<state, build_stamps, failed_tids, stats, rq_workers, failures>>,
             \/ pc' = pc
             \/ pc' \notin {"select", "enforce", "teardown", "return", "done"}
                /\ pc \notin {"raised", "quit", "return", "done"}
      PROVE  InOrder'
  BY <1>1 DEF Finishing, InOrder, SpawnFailed
<1>2. CASE PollWorkers
  BY <1>1, <1>2, NobodyDied DEF PollWorkers, queueVars
<1>3. CASE ReadExitcode
  <2>1. InOrder
    BY <1>3, ReadExitcodeCounts DEF Finishing
  <2>2. UNCHANGED <<pc, rq_workers, failures>>
    BY <1>3 DEF ReadExitcode
  <2>3. QED
    BY <1>3, <2>1, <2>2, ReadExitcodeCounts DEF InOrder
<1>4. CASE ReadDone \/ MonitorBegin \/ MonitorEnd \/ ExecuteWait \/ WorkerGone
           \/ \E cmd \in Shutdowns : Command(cmd)
  BY <1>1, <1>4
  DEF ReadDone, MonitorBegin, MonitorEnd, ExecuteWait, WorkerGone, Command, At, queueVars
<1>5. CASE BuildTargetsIdle \/ \E action \in DiskActions : DiskFull(action)
  <2>1. UNCHANGED <<rq_workers, failures>> /\ pc \in {"idle", "monitor"}
        /\ pc' \in {"check", "monitor"}
    BY <1>5 DEF BuildTargetsIdle, DiskFull, At
  <2>2. CASE finish
    <3>1. UNCHANGED queueVars
      BY <2>2 DEF finish
    <3>2. InOrder /\ ~SpawnFailed
      BY <3>1 DEF Finishing, SpawnFailed, queueVars
    <3>3. QED
      BY <2>1, <2>2, <3>2, FinishInOrder DEF InOrder, queueVars
  <2>3. CASE UNCHANGED <<state, queueVars>>
    BY <1>1, <2>1, <2>3 DEF queueVars
  <2>4. finish \/ UNCHANGED <<state, queueVars>>
    <3>1. CASE BuildTargetsIdle
      BY <3>1 DEF BuildTargetsIdle, Undisturbed
    <3>2. ASSUME NEW action \in DiskActions, DiskFull(action)
          PROVE  finish \/ UNCHANGED <<state, queueVars>>
      BY <3>2 DEF DiskFull, GoodOrder
    <3>3. QED
      BY <1>5, <3>1, <3>2
  <2>5. QED
    BY <2>2, <2>3, <2>4
<1>6. CASE ExecuteBegin
  <2>1. UNCHANGED <<state, build_stamps, failed_tids, stats, rq_workers, failures>>
        /\ pc = "execute" /\ (pc' = "cleanup" \/ (pc' \in {"enforce", "select"} /\ state = "Running"))
    BY <1>6 DEF ExecuteBegin, At, queueVars
  <2>2. QED
    BY <2>1 DEF Finishing, InOrder, SpawnFailed
<1>7. CASE Enforce
  <2>1. CASE (\E t \in Task : EnforceSkip(t)) /\ UNCHANGED pc
    <3>1. /\ UNCHANGED <<state, build_stamps, failed_tids, pc, rq_workers, failures>>
          /\ stats' = taskSkipped(taskCompleted(stats))
      BY <1>7, <2>1 DEF Enforce, EnforceSkip, task_skip
    <3>2. stats'.failed = stats.failed
      BY <3>1, FailedCount DEF QueueSafe, ExecuteTypeOK
    <3>3. QED
      BY <3>1, <3>2 DEF Finishing, InOrder, SpawnFailed
  <2>2. CASE EnforceDone /\ pc' = "cleanup"
    <3>1. UNCHANGED <<build_stamps, failed_tids, stats, rq_workers, failures>>
          /\ state' = "CleanUp" /\ pc = "enforce" /\ pc' = "cleanup"
      BY <1>7, <2>2 DEF Enforce, At, EnforceDone, queueVars
    <3>2. QED
      BY <3>1 DEF Finishing, InOrder, SpawnFailed
  <2>3. QED
    BY <1>7, <2>1, <2>2 DEF Enforce
<1>8. CASE ExecuteHere
  <2>1. UNCHANGED <<rq_workers, failures>> /\ pc = "select" /\ pc' = "cleanup"
    BY <1>8 DEF ExecuteHere, At
  <2>2. ASSUME NEW t \in Task, ExecuteSkip(t) \/ ExecuteNoExec(t) PROVE InOrder'
    <3>1. /\ UNCHANGED <<state, build_stamps, failed_tids>>
          /\ \/ stats' = taskSkipped(taskCompleted(stats))
             \/ stats' = taskCompleted(taskActive(stats))
      BY <2>2 DEF ExecuteSkip, ExecuteNoExec, task_skip
    <3>2. stats'.failed = stats.failed
      BY <3>1, FailedCount DEF QueueSafe, ExecuteTypeOK
    <3>3. QED
      BY <2>1, <3>1, <3>2 DEF Finishing, InOrder, SpawnFailed
  <2>3. ASSUME NEW t \in Task PROVE ~ExecuteSpawnFails(t)
    <3>1. SUFFICES ASSUME ExecuteSpawnFails(t) PROVE SpawnFailed'
      OBVIOUS
    <3>2. stats' = taskFailed(stats) /\ failed_tids' = failed_tids
      BY <3>1 DEF ExecuteSpawnFails
    <3>3. QED
      BY <3>2, FailedCount, FailuresFinite DEF QueueSafe, ExecuteTypeOK, SpawnFailed
  <2>4. CASE ExecuteFinished
    <3>1. UNCHANGED <<build_stamps, failed_tids, stats>> /\ stats.active <= 0
          /\ state' = IF failed_tids # {} THEN "Failed" ELSE "Complete"
      BY <2>4 DEF ExecuteFinished, queueVars
    <3>2. InOrder /\ ~SpawnFailed
      BY <3>1 DEF Finishing, SpawnFailed
    <3>3. QED
      BY <2>1, <3>1, <3>2, ActiveCount DEF InOrder
  <2>5. QED
    BY <1>8, <2>2, <2>3, <2>4 DEF ExecuteHere
<1>9. ASSUME NEW t \in Task, ExecuteLaunchOn(t) PROVE InOrder'
  <2>1. /\ UNCHANGED <<state, failed_tids, failures>> /\ stats' = taskActive(stats)
        /\ pc = "select" /\ pc' = "cleanup" /\ rq_workers \subseteq rq_workers'
    BY <1>9 DEF ExecuteLaunchOn, ExecuteLaunch, At
  <2>2. stats'.failed = stats.failed
    BY <2>1, FailedCount DEF QueueSafe, ExecuteTypeOK
  <2>3. QED
    BY <2>1, <2>2 DEF Finishing, InOrder, SpawnFailed
<1>10. CASE CleanUp
  <2>1. UNCHANGED <<queueVars, rq_workers, failures>> /\ pc = "cleanup"
    BY <1>10 DEF CleanUp, At, finish
  <2>2. InOrder /\ ~SpawnFailed
    BY <2>1 DEF Finishing, SpawnFailed, queueVars
  <2>3. pc' = "end" /\ (state' = state \/ finish)
    BY <1>10, <2>1, <2>2 DEF CleanUp, InOrder
  <2>4. QED
    BY <2>1, <2>2, <2>3, FinishInOrder DEF InOrder, queueVars
<1>11. CASE End
  <2>1. UNCHANGED <<state, build_stamps, failed_tids, stats, rq_workers, failures>>
        /\ pc = "end"
        /\ (pc' = "idle" \/ (pc' = "teardown" /\ state \in {"Complete", "Failed"}))
    BY <1>11 DEF End, StartTeardown, At, queueVars
  <2>2. QED
    BY <2>1 DEF Finishing, InOrder, SpawnFailed
<1>12. CASE TeardownDone \/ Return
  <2>1. UNCHANGED <<state, build_stamps, failed_tids, stats>>
    BY <1>12 DEF TeardownDone, Return, queueVars
  <2>2. InOrder
    BY <2>1 DEF Finishing, SpawnFailed
  <2>3. CASE TeardownDone
    <3>1. pc = "teardown" /\ pc' = "return" /\ failures' = failures
      BY <2>3 DEF TeardownDone, At
    <3>2. QED
      BY <2>1, <2>2, <3>1 DEF InOrder
  <2>4. CASE Return
    <3>1. pc = "return" /\ state \in {"Complete", "Failed"} /\ rq_workers' = rq_workers
      BY <2>2, <2>4 DEF Return, At, InOrder
    <3>2. pc' = "done" /\ failures' = IF state = "Failed" THEN Cardinality(failed_tids) ELSE 0
      BY <2>4, <3>1 DEF Return
    <3>3. QED
      BY <2>1, <2>2, <3>1, <3>2, FS_EmptySet DEF InOrder
  <2>5. QED
    BY <1>12, <2>3, <2>4
<1>13. CASE ExecuteException
  <2>1. UNCHANGED <<state, build_stamps, failed_tids, stats, rq_workers, failures>>
        /\ pc \in {"select", "enforce"} /\ pc' = "raised"
    BY <1>13 DEF ExecuteException, StartTeardown, ExecuteRaises, ExecuteWriteFails, queueVars
  <2>2. QED
    BY <2>1 DEF Finishing, InOrder, SpawnFailed
<1>14. CASE ExceptionHandled
  <2>1. pc' = "quit"
    BY <1>14 DEF ExceptionHandled
  <2>2. QED
    BY <2>1 DEF InOrder
<1>15. CASE UNCHANGED serverVars
  BY <1>1, <1>15 DEF serverVars, queueVars
<1>16. QED
  BY <1>2, <1>3, <1>4, <1>5, <1>6, <1>7, <1>8, <1>9, <1>10, <1>11, <1>12, <1>13, <1>14,
     <1>15
  DEF Next, Server, vars

LEMMA FinishingInvariance ==
  ASSUME GoodOrder
  PROVE  Spec => []Finishing
<1>1. Init => Finishing
  BY DEF Init, Finishing, InOrder
<1>2. Tracking /\ QueueSafe /\ (Undisturbed /\ Expected) /\ Finishing /\ [Next]_vars
        => Finishing'
  BY NextFinishing
<1>3. QED
  BY <1>1, <1>2, TrackingInvariance, QueueIsSafe, StandingInvariance, PTL DEF Spec

\* A build that is stopped in good order, or not at all, ends after its last
\* process, and what BuildCompleted counts is what failed on the machine.
THEOREM CompletedTellsAllHolds ==
  ASSUME GoodOrder
  PROVE  Spec => []CompletedTellsAll
<1>1. ASSUME Tracking, QueueSafe, Outcomes, Finishing, pc = "done", ~SpawnFailed
      PROVE  Alive = {} /\ failures = Cardinality({t \in Task : child[t] = "failed"})
  <2>1. build_stamps = {} /\ failures = Cardinality(failed_tids)
    BY <1>1 DEF Finishing, InOrder
  <2>2. Alive = {}
    BY <1>1, <2>1 DEF Alive, Tracking, Tracked, ChildrenTracked
  <2>3. {t \in Task : child[t] = "failed"} \subseteq failed_tids
    BY <1>1, <2>1 DEF Tracking, Tracked, ChildrenTracked, QueueSafe, Outcomes
  <2>4. failed_tids \subseteq {t \in Task : child[t] = "failed"}
    BY <1>1 DEF QueueSafe, ExecuteTypeOK, Outcomes
  <2>5. failed_tids = {t \in Task : child[t] = "failed"}
    BY <2>3, <2>4
  <2>6. QED
    BY <2>1, <2>2, <2>5
<1>2. Tracking /\ QueueSafe /\ Outcomes /\ Finishing => CompletedTellsAll
  BY <1>1 DEF CompletedTellsAll
<1>3. QED
  BY <1>2, TrackingInvariance, QueueIsSafe, OutcomesInvariance, FinishingInvariance, PTL
=============================================================================
