------------------------------- MODULE Stamps -------------------------------
(***************************************************************************)
(* The stamp files of a build: lib/bb/build.py writes them from the task   *)
(* processes, RunQueue.check_stamp_task reads them in the server.  A stamp *)
(* is its modification time in whole seconds, 0 when the file is absent.   *)
(***************************************************************************)
EXTENDS Integers

CONSTANTS
  Task,           \* the task ids of the run queue
  Depends,        \* Depends[t]: the tasks t depends on, as prepare() left them
  Fn,             \* Fn[t]: the recipe file of t
  StampFile,      \* the paths of stamp files
  StampOf,        \* StampOf[t]: the stamp file of t
  StampNoExtra,   \* StampNoExtra[t]: the same without stamp-extra-info
  NoStamp,        \* tasks with the nostamp flag
  DepTreeFiles,   \* recipes whose stamps count for tasks of other recipes too:
                  \* {} under BB_STAMP_POLICY "perfile"
  OldStamps       \* the latest second an earlier build can have stamped

ASSUME TaskAssumption ==
  /\ Depends \in [Task -> SUBSET Task]
  /\ StampOf \in [Task -> StampFile]
  /\ NoStamp \subseteq Task
  /\ OldStamps \in Nat
  /\ \A t, u \in Task :
       StampOf[t] = StampOf[u] => StampNoExtra[t] = StampNoExtra[u]

VARIABLES
  mtime,            \* the stamp of each path
  mtime_setscene,   \* the _setscene stamp next to it
  clock             \* the current second

stampVars == <<mtime, mtime_setscene, clock>>

StampTypeOK ==
  /\ mtime \in [StampFile -> Nat]
  /\ mtime_setscene \in [StampFile -> Nat]
  /\ clock \in Nat

\* Earlier builds may have left any stamp, in any order of age.
StampInit ==
  /\ mtime \in [StampFile -> 0..OldStamps]
  /\ mtime_setscene \in [StampFile -> 0..OldStamps]
  /\ clock = OldStamps

\* A dependency whose _setscene stamp is the newer one is never compared.
SetsceneNewer(d) == mtime_setscene[StampOf[d]] > mtime[StampOf[d]]

\* A faulty variant, to try the properties with: a stamp of the same second is
\* not old enough.
DepIsOlder_strictly(t, d) ==
  mtime[StampOf[d]] # 0 /\ mtime[StampOf[d]] < mtime[StampOf[t]]

DepIsOlder(t, d) ==
  mtime[StampOf[d]] # 0 /\ mtime[StampOf[d]] <= mtime[StampOf[t]]

check_stamp_task(t) ==
  /\ mtime[StampOf[t]] # 0
  /\ t \notin NoStamp
  /\ \A d \in Depends[t] :
       \/ SetsceneNewer(d)
       \/ Fn[d] # Fn[t] /\ Fn[d] \notin DepTreeFiles
       \/ DepIsOlder(t, d)

\* A faulty variant, to try the properties with: the clock is set back.
make_stamp_clock_set_back(t) ==
  \E now \in {clock - 1, clock} :
    /\ clock' = now
    /\ mtime' = [mtime EXCEPT ![StampOf[t]] = now]
    /\ mtime_setscene' = [mtime_setscene EXCEPT ![StampOf[t]] = 0]

\* The clock may or may not have reached the next second since the last
\* stamp.  The clean mask of the stamp covers its _setscene sibling.
make_stamp(t) ==
  \E now \in {clock, clock + 1} :
    /\ clock' = now
    /\ mtime' = [mtime EXCEPT ![StampOf[t]] = now]
    /\ mtime_setscene' = [mtime_setscene EXCEPT ![StampOf[t]] = 0]
=============================================================================
