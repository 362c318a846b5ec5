------------------------------- MODULE PRServ -------------------------------
(***************************************************************************)
(* The PR service (lib/prserv): one thread of the server takes requests    *)
(* from a queue, answers them from a table of an SQLite database and       *)
(* commits after it has answered; another thread accepts the requests and  *)
(* handles signals.                                                        *)
(***************************************************************************)
EXTENDS Integers, Sequences, FiniteSetsExt

CONSTANTS
  Key,         \* pairs of a version and a pkgarch
  Sum,         \* checksums
  Modes,       \* the modes of the table: {TRUE} as the server opens it
  Imports,     \* the values the clients import
  MayCrash,    \* the process can die of itself
  MaxQueue, MaxValue   \* bounds: requests waiting, values handed out

None == -1   \* no such row, no such reply

ASSUME PRServAssumption ==
  /\ IsFiniteSet(Sum) /\ Sum # {}
  /\ Modes \subseteq BOOLEAN /\ MayCrash \in BOOLEAN
  /\ Imports \subseteq Nat

Row == Key \X Sum
Request ==
  [op : {"getPR"}, row : Row]
    \union [op : {"importone"}, row : Row, value : Imports]
    \union [op : {"dump_db", "quit"}]

VARIABLES
  nohist,       \* the mode, "no history" or "history"
  committed,    \* the value of each row, as it is in the file
  table,        \* the same as the open connection sees it
  dirty,
  requestqueue,
  handler,      \* the handler thread: waiting, about to reply, about to sync, ended
  accepting,    \* the main thread is in handle_request()
  quit,
  up,           \* the server runs
  reply,        \* what the handler found out: [row, value]
  given,        \* given[r]: the last value a client was given for row r
  highest,      \* highest[k]: the highest value a client was given for key k
  seen,         \* seen[r]: what the service first found for row r, or was told by
                \* an import, whether or not a client was there to hear it
  events        \* "crash" and "import", once they have happened

serverVars ==
  <<committed, table, dirty, requestqueue, handler, accepting, quit, up>>
clientVars == <<reply, given, highest, seen, events>>
vars == <<nohist, serverVars, clientVars>>

Values == Nat \union {None}

TypeOK ==
  /\ nohist \in BOOLEAN /\ events \subseteq {"crash", "import"}
  /\ committed \in [Row -> Values]
  /\ table \in [Row -> Values]
  /\ dirty \in BOOLEAN
  /\ requestqueue \in Seq(Request)
  /\ handler \in {"wait", "reply", "sync", "ended"}
  /\ accepting \in BOOLEAN /\ quit \in BOOLEAN /\ up \in BOOLEAN
  /\ reply \in [row : Row, value : Nat] \union {<<>>}
  /\ given \in [Row -> Values]
  /\ highest \in [Key -> Values]
  /\ seen \in [Row -> Values]

Init ==
  /\ nohist \in Modes
  /\ committed = [r \in Row |-> None]
  /\ table = committed
  /\ dirty = FALSE
  /\ requestqueue = <<>>
  /\ handler = "wait"
  /\ accepting = TRUE
  /\ quit = FALSE
  /\ up = TRUE
  /\ reply = <<>>
  /\ given = [r \in Row |-> None]
  /\ highest = [k \in Key |-> None]
  /\ seen = [r \in Row |-> None]
  /\ events = {}

-----------------------------------------------------------------------------
(* The table *)

maxValue(k) == Max({table[<<k, s>>] : s \in Sum})

\* Faulty variants, to try the properties with: a row is found although it is
\* not the highest, or is looked up with no regard to the checksum.
Found_any(r) == table[r]
Found_any_sum(r) == maxValue(r[1])

\* Another: no row is ever found, and each query inserts its row anew.
Found_none(r) == None

\* The value that getValue() finds, or None.
Found(r) ==
  IF nohist /\ table[r] < maxValue(r[1]) THEN None ELSE table[r]

\* What it inserts otherwise: ifnull(max(value)+1,0).
getValue(r) == IF Found(r) = None THEN maxValue(r[1]) + 1 ELSE Found(r)

\* _importNohist raises a value that is there, _importHist does not touch it.
importone(r, value) ==
  IF table[r] = None \/ (nohist /\ table[r] < value) THEN value ELSE table[r]

sync == committed' = table

-----------------------------------------------------------------------------
(* The threads of the server *)

\* process_request(): the request waits for the handler thread, and the main
\* thread looks at quit before it accepts another one.
process_request(q) ==
  /\ up /\ accepting
  /\ Len(requestqueue) < MaxQueue
  /\ requestqueue' = Append(requestqueue, q)
  /\ accepting' = ~quit
  /\ UNCHANGED <<nohist, committed, table, dirty, handler, quit, up,
                 clientVars>>

handle_request_timeout ==
  /\ up /\ accepting
  /\ quit
  /\ accepting' = FALSE
  /\ UNCHANGED <<nohist, committed, table, dirty, requestqueue, handler, quit,
                 up, clientVars>>

\* The history of the rows, in the mode that has one: the first value counts.
Seen(r, value) ==
  seen' = IF nohist \/ seen[r] # None THEN seen ELSE [seen EXCEPT ![r] = value]

Taken(op) ==
  /\ up
  /\ handler = "wait"
  /\ requestqueue # <<>> /\ Head(requestqueue).op = op
  /\ requestqueue' = Tail(requestqueue)
  /\ handler' = "reply"

getPR ==
  /\ Taken("getPR")
  /\ LET r == Head(requestqueue).row IN
       /\ getValue(r) <= MaxValue
       /\ table' = [table EXCEPT ![r] = getValue(r)]
       /\ dirty' = (dirty \/ Found(r) = None)
       /\ reply' = [row |-> r, value |-> getValue(r)]
  /\ UNCHANGED <<nohist, committed, accepting, quit, up, given, highest, seen,
                 events>>

\* importone's answer goes to the tool that restores a database: no package is
\* given that value.
import ==
  /\ Taken("importone")
  /\ LET r == Head(requestqueue).row
         value == importone(r, Head(requestqueue).value) IN
       /\ table' = [table EXCEPT ![r] = value]
       /\ dirty' = (dirty \/ nohist \/ table[r] = None)
       /\ Seen(r, Head(requestqueue).value)
  /\ reply' = <<>>
  /\ events' = events \union {"import"}
  /\ UNCHANGED <<nohist, committed, accepting, quit, up, given, highest>>

dump_db ==
  /\ Taken("dump_db")
  /\ sync
  /\ reply' = <<>>
  /\ UNCHANGED <<nohist, table, dirty, accepting, quit, up, given, highest, seen,
                 events>>

quitRPC ==
  /\ Taken("quit")
  /\ quit' = TRUE
  /\ reply' = <<>>
  /\ UNCHANGED <<nohist, committed, table, dirty, accepting, up, given,
                 highest, seen, events>>

\* finish_request() sends the answer.
Reply ==
  /\ up /\ handler = "reply"
  /\ IF reply = <<>> THEN UNCHANGED <<given, highest, seen>>
     ELSE LET r == reply.row IN
            /\ Seen(r, reply.value)
            /\ given' = [given EXCEPT ![r] = reply.value]
            /\ highest' = [highest EXCEPT ![r[1]] = Max({@, reply.value})]
  /\ handler' = "sync"
  /\ UNCHANGED <<nohist, committed, table, dirty, requestqueue, accepting, quit,
                 up, reply, events>>

\* The client is gone.  The exception's sync() leaves dirty as it is.
ReplyFails ==
  /\ up /\ handler = "reply"
  /\ sync
  /\ IF reply = <<>> THEN UNCHANGED seen ELSE Seen(reply.row, reply.value)
  /\ reply' = <<>>
  /\ handler' = "sync"
  /\ UNCHANGED <<nohist, table, dirty, requestqueue, accepting, quit, up,
                 given, highest, events>>

\* The end of a turn of the loop, after an answer or after 30 seconds without a
\* request, and the loop's condition.
TurnEnds ==
  /\ up
  /\ handler = "sync" \/ (handler = "wait" /\ requestqueue = <<>>)
  /\ handler' = IF quit THEN "ended" ELSE "wait"

\* A faulty variant: nothing is committed.
sync_if_dirty_forgets ==
  /\ TurnEnds
  /\ dirty' = FALSE
  /\ UNCHANGED <<nohist, committed, table, requestqueue, accepting, quit, up,
                 clientVars>>

sync_if_dirty ==
  /\ TurnEnds
  /\ IF dirty THEN sync ELSE UNCHANGED committed
  /\ dirty' = FALSE
  /\ UNCHANGED <<nohist, table, requestqueue, accepting, quit, up, clientVars>>

\* The main thread handles a signal whatever the other one is doing.
sigint_handler ==
  /\ up
  /\ sync
  /\ UNCHANGED <<nohist, table, dirty, requestqueue, handler, accepting, quit,
                 up, clientVars>>

sigterm_handler ==
  /\ up
  /\ sync
  /\ quit' = TRUE
  /\ UNCHANGED <<nohist, table, dirty, requestqueue, handler, accepting, up,
                 clientVars>>

\* The process is gone, and with it the requests that still wait and what was
\* not committed.
Gone ==
  /\ up /\ up' = FALSE
  /\ table' = committed
  /\ requestqueue' = <<>>
  /\ dirty' = FALSE
  /\ UNCHANGED <<nohist, committed, reply, given, highest, seen>>

\* The end of work_forever(), both threads having left their loops.
disconnect ==
  /\ ~accepting /\ handler = "ended"
  /\ Gone
  /\ UNCHANGED <<handler, accepting, quit, events>>

Crash ==
  /\ MayCrash
  /\ Gone
  /\ handler' = "ended" /\ accepting' = FALSE /\ quit' = TRUE
  /\ events' = events \union {"crash"}

start ==
  /\ ~up
  /\ up' = TRUE
  /\ handler' = "wait" /\ accepting' = TRUE /\ quit' = FALSE
  /\ UNCHANGED <<nohist, committed, table, dirty, requestqueue, clientVars>>

Next ==
  \/ \E q \in Request : process_request(q)
  \/ handle_request_timeout
  \/ getPR \/ import \/ dump_db \/ quitRPC
  \/ Reply \/ ReplyFails \/ sync_if_dirty
  \/ sigint_handler \/ sigterm_handler
  \/ disconnect \/ Crash \/ start

Spec == Init /\ [][Next]_vars

-----------------------------------------------------------------------------
(* Properties *)

Replying == handler = "reply" /\ reply # <<>>

\* "No History": "This means the PR value returned can NOT be decremented".
NeverDecrements ==
  nohist /\ Replying => reply.value >= highest[reply.row[1]]

\* The same while the server is stopped and started in good order, whichever
\* clients asked in between and were gone before their answer came.  Crashes take
\* the value back by one at the most, however many there are.
DecrementsOnlyByCrash ==
  nohist /\ Replying =>
    reply.value >= highest[reply.row[1]] - (IF "crash" \in events THEN 1 ELSE 0)

\* "History": "Return a new higher value for previously unseen query tuple,
\* otherwise return historical value".  Unseen is a tuple that no request and no
\* import has named, whether or not the client was there to hear the answer, and
\* higher is above all that was found or imported for the key.
NewOrHistorical ==
  ~nohist /\ "crash" \notin events /\ Replying =>
    IF seen[reply.row] # None THEN reply.value = seen[reply.row]
    ELSE \A s \in Sum : seen[<<reply.row[1], s>>] < reply.value

\* Two checksums are never told the same value, in either mode, but for what an
\* import or a crash can do: packages with different contents differ in their PR.
DistinctSums ==
  events = {} => \A r1, r2 \in Row :
    r1[1] = r2[1] /\ given[r1] = given[r2] /\ given[r1] # None => r1 = r2

\* Between two requests the file holds all that was handed out: a crash costs
\* the answer being given and no earlier one.
RestIsCommitted == handler \in {"wait", "ended"} => table = committed
=============================================================================
