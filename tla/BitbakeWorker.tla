---------------------------- MODULE BitbakeWorker ----------------------------
(***************************************************************************)
(* The bitbake-worker processes (bin/bitbake-worker): the server's orders  *)
(* come in through stdin, each task runs in a process of its own, and its  *)
(* exit code goes back through stdout.  There is one worker for ordinary   *)
(* tasks and one for the tasks that run under fakeroot.                    *)
(***************************************************************************)
EXTENDS Stamps, Sequences, FiniteSets

CONSTANTS
  Worker,      \* the worker processes
  MayDie       \* the workers that can die of themselves (fork fails, killed)

ASSUME WorkerAssumption == MayDie \subseteq Worker

VARIABLES
  process,     \* process[w]: not started, up, or dead
  stdin,       \* stdin[w]: orders written and not yet handled
  stdout,      \* stdout[w]: the tasks whose exit code the server has to read
  build_pids,  \* build_pids[w]: task processes w has not waited for; a pid that
               \* handle_finishnow waited for stays in the dictionary, unused
  tokill,      \* tokill[w]: what is left of the loop in handle_finishnow
  child        \* child[t]: the process of t

workerVars == <<process, stdin, stdout, build_pids, tokill, child>>

Order == {<<"finishnow">>, <<"quit">>} \union ({"runtask"} \X Task)
Running == {"forked", "running"}
Ended == {"ok", "failed"}

WorkerTypeOK ==
  /\ process \in [Worker -> {"none", "up", "dead"}]
  /\ stdin \in [Worker -> Seq(Order)]
  /\ stdout \in [Worker -> Seq(Task)]
  /\ build_pids \in [Worker -> SUBSET Task]
  /\ tokill \in [Worker -> SUBSET Task]
  /\ child \in [Task -> {"none"} \union Running \union Ended]

\* start_worker() has started the workers in ws.
WorkerInit(ws) ==
  /\ process = [w \in Worker |-> IF w \in ws THEN "up" ELSE "none"]
  /\ stdin = [w \in Worker |-> <<>>]
  /\ stdout = [w \in Worker |-> <<>>]
  /\ build_pids = [w \in Worker |-> {}]
  /\ tokill = [w \in Worker |-> {}]
  /\ child = [t \in Task |-> "none"]

\* The server writes m to the workers in ws; nobody reads what the dead get.
write(ws, m) ==
  [w \in Worker |-> IF w \in ws /\ process[w] = "up"
                    THEN Append(stdin[w], m) ELSE stdin[w]]

-----------------------------------------------------------------------------
(* The serve() loop *)

Serving(w) == process[w] = "up" /\ tokill[w] = {}

Handles(w, m) ==
  /\ Serving(w)
  /\ stdin[w] # <<>> /\ Head(stdin[w]) = m
  /\ stdin' = [stdin EXCEPT ![w] = Tail(@)]

handle_runtask(w, t) ==
  /\ Handles(w, <<"runtask", t>>)
  /\ child' = [child EXCEPT ![t] = "forked"]
  /\ build_pids' = [build_pids EXCEPT ![w] = @ \union {t}]
  /\ UNCHANGED <<process, stdout, tokill, stampVars>>

handle_finishnow(w) ==
  /\ Handles(w, <<"finishnow">>)
  /\ tokill' = [tokill EXCEPT ![w] = build_pids[w]]
  /\ UNCHANGED <<process, stdout, build_pids, child, stampVars>>

handle_quit(w) ==
  /\ Handles(w, <<"quit">>)
  /\ process' = [process EXCEPT ![w] = "dead"]
  /\ UNCHANGED <<stdout, build_pids, tokill, child, stampVars>>

\* A faulty variant, to try the properties with.
process_waitpid_keeps_pid(w, t) ==
  /\ Serving(w)
  /\ t \in build_pids[w]
  /\ child[t] \in Ended
  /\ Len(stdout[w]) < 3
  /\ stdout' = [stdout EXCEPT ![w] = Append(@, t)]
  /\ UNCHANGED <<process, stdin, build_pids, tokill, child, stampVars>>

process_waitpid(w, t) ==
  /\ Serving(w)
  /\ t \in build_pids[w]
  /\ child[t] \in Ended
  /\ build_pids' = [build_pids EXCEPT ![w] = @ \ {t}]
  /\ stdout' = [stdout EXCEPT ![w] = Append(@, t)]
  /\ UNCHANGED <<process, stdin, tokill, child, stampVars>>

-----------------------------------------------------------------------------
(* The task processes *)

\* exec_task() stamps a task that succeeded just before the process exits, so
\* that a process killed in between fails although it left its stamp.
ends(t, code) ==
  /\ child' = [child EXCEPT ![t] = code]
  /\ \/ code = "ok" /\ t \in NoStamp /\ UNCHANGED stampVars
     \/ code = "failed" /\ UNCHANGED stampVars
     \/ t \notin NoStamp /\ make_stamp(t)

\* The forked process makes itself the leader of its process group.
ChildSetsid(t) ==
  /\ child[t] = "forked"
  /\ child' = [child EXCEPT ![t] = "running"]
  /\ UNCHANGED <<process, stdin, stdout, build_pids, tokill, stampVars>>

ChildEnds(t, code) ==
  /\ child[t] = "running"
  /\ ends(t, code)
  /\ UNCHANGED <<process, stdin, stdout, build_pids, tokill>>

\* One turn of the loop in handle_finishnow: the process group of t is killed,
\* then the first process to have ended is waited for and its status dropped.
KillChild(w, t) ==
  /\ process[w] = "up"
  /\ t \in tokill[w]
  /\ child[t] # "forked"
  /\ IF child[t] = "running"
     THEN \E code \in Ended : ends(t, code)
     ELSE UNCHANGED <<child, stampVars>>
  /\ \E r \in {u \in build_pids[w] : u = t \/ child[u] \in Ended} :
       /\ build_pids' = [build_pids EXCEPT ![w] = @ \ {r}]
       /\ tokill' = [tokill EXCEPT ![w] = @ \ {t, r}]
  /\ UNCHANGED <<process, stdin, stdout>>

\* There is no group of that number yet: kill() fails, and nothing is waited for.
KillMisses(w, t) ==
  /\ process[w] = "up"
  /\ t \in tokill[w]
  /\ child[t] = "forked"
  /\ tokill' = [tokill EXCEPT ![w] = @ \ {t}]
  /\ UNCHANGED <<process, stdin, stdout, build_pids, child, stampVars>>

-----------------------------------------------------------------------------

\* A worker dies of itself, with what it had not flushed yet.
WorkerDies(w) ==
  /\ w \in MayDie
  /\ process[w] = "up"
  /\ process' = [process EXCEPT ![w] = "dead"]
  /\ \E n \in 0..Len(stdout[w]) :
       stdout' = [stdout EXCEPT ![w] = SubSeq(@, 1, n)]
  /\ stdin' = [stdin EXCEPT ![w] = <<>>]
  /\ tokill' = [tokill EXCEPT ![w] = {}]
  /\ UNCHANGED <<build_pids, child, stampVars>>

Serve(w) ==
  \/ handle_finishnow(w) \/ handle_quit(w)
  \/ \E t \in Task : \/ handle_runtask(w, t) \/ process_waitpid(w, t)
                     \/ KillChild(w, t) \/ KillMisses(w, t)

TaskProcess(t) ==
  ChildSetsid(t) \/ \E code \in Ended : ChildEnds(t, code)
=============================================================================
