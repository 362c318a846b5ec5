----------------------------- MODULE CookerParser -----------------------------
(* cooker.py: CookerParser in the server process, its Feeder and its Parser    *)
(* processes, with the queues between them.  A multiprocessing.Queue keeps     *)
(* what was put in the memory of the process that put it; a thread of that     *)
(* process moves it into a pipe, and the process does not end before the       *)
(* buffer is empty unless it called cancel_join_thread.                        *)
(*                                                                             *)
(* The recipes taken from the cache are left out: load_cached only counts      *)
(* them.  result_queue has no size limit, so results.put never raises Full.    *)
EXTENDS Naturals, FiniteSets, SequencesExt

CONSTANTS NumberFiles,        \* recipes
          Broken,             \* the recipes that may fail to parse
          NumberProcesses,    \* BB_NUMBER_PARSE_THREADS
          PipeSize            \* results the pipe of result_queue holds

ASSUME ParserAssumption == {NumberFiles, NumberProcesses, PipeSize} \subseteq Nat \ {0}

Files == 1..NumberFiles
ParserProcesses == 1..NumberProcesses

VARIABLES
    toparse,        \* the recipes this parser was made to parse
    feeder,         \* "popping", "putting", "ended"
    hand,           \* the job it is about to put: a set of at most one
    willparse,      \* Feeder.jobs
    feeder_quit,    \* something is in feeder_quit, and the feeder there to find it
    jobs,           \* the jobs queue
    parser,         \* per process: "idle", "parsing", "ended"
    job,            \* per process: the recipe being parsed
    buffer,         \* per process: results put and not yet in the pipe
    parser_quit,    \* tokens in parser_quit
    pipe,           \* result_queue's pipe: a set of [file, ok]
    parsed,         \* CookerParser.parsed, the results counted
    counted,        \* history: how often each recipe's result was counted
    error,          \* CookerParser.error > 0
    exhausted,      \* the generator has ended
    haveshutdown,   \* CookerParser.haveshutdown
    forced          \* shutdown's argument force

parserVars == <<toparse, feeder, hand, willparse, feeder_quit, jobs, parser, job, buffer,
                parser_quit, pipe, parsed, counted, error, exhausted, haveshutdown, forced>>
feederVars == <<feeder, hand, willparse, feeder_quit>>
childVars == <<parser, job, buffer, parser_quit>>
ownVars == <<toparse, parsed, counted, error, exhausted, haveshutdown, forced>>

Started == toparse # {}
ParsersEnded == \A p \in ParserProcesses : parser[p] = "ended"
ProcessesEnded == feeder = "ended" /\ ParsersEnded

ParserInit ==
    /\ toparse = {} /\ feeder = "ended" /\ hand = {} /\ willparse = <<>> /\ feeder_quit = FALSE
    /\ jobs = {} /\ pipe = {} /\ parser_quit = 0
    /\ parser = [p \in ParserProcesses |-> "ended"]
    /\ job = [p \in ParserProcesses |-> {}]
    /\ buffer = [p \in ParserProcesses |-> {}]
    /\ parsed = 0 /\ counted = [f \in Files |-> 0]
    /\ error = FALSE /\ exhausted = FALSE /\ haveshutdown = FALSE /\ forced = FALSE

num_processes_for(todo) == IF todo < NumberProcesses THEN todo ELSE NumberProcesses

\* CookerParser.__init__: the cache decides how many recipes are to be parsed,
\* and there are no more processes than those.  What a forced shutdown left of
\* the processes of an earlier parser has queues of its own, which nobody reads
\* any more: it is out of the model.
NewParser ==
    \E todo \in 0..NumberFiles :
        /\ toparse' = 1..todo
        /\ willparse' = [i \in 1..todo |-> i]
        /\ feeder' = IF todo = 0 THEN "ended" ELSE "popping"
        /\ parser' = [p \in ParserProcesses |->
                         IF p <= num_processes_for(todo) THEN "idle" ELSE "ended"]
        /\ hand' = {} /\ feeder_quit' = FALSE /\ jobs' = {} /\ pipe' = {} /\ parser_quit' = 0
        /\ job' = [p \in ParserProcesses |-> {}]
        /\ buffer' = [p \in ParserProcesses |-> {}]
        /\ parsed' = 0 /\ counted' = [f \in Files |-> 0]
        /\ error' = FALSE /\ exhausted' = FALSE /\ haveshutdown' = FALSE
        /\ forced' = FALSE

num_processes == num_processes_for(Cardinality(toparse))

-------------------------------------------------------------------------------
(* Feeder.run *)

FeederQuits ==
    /\ feeder = "popping"
    /\ feeder_quit
    /\ feeder' = "ended"
    /\ feeder_quit' = FALSE
    /\ UNCHANGED <<hand, willparse, jobs, childVars, pipe, ownVars>>

\* get_nowait may find the queue empty although the server has already put.
FeederPops ==
    /\ feeder = "popping"
    /\ \/ /\ willparse = <<>>
          /\ feeder' = "ended"
          /\ UNCHANGED <<hand, willparse>>
       \/ /\ willparse # <<>>
          /\ hand' = {Last(willparse)}
          /\ willparse' = Front(willparse)
          /\ feeder' = "putting"
    /\ feeder_quit' = (feeder_quit /\ willparse # <<>>)
    /\ UNCHANGED <<jobs, childVars, pipe, ownVars>>

FeederPuts ==
    /\ feeder = "putting"
    /\ Cardinality(jobs) < num_processes
    /\ jobs' = jobs \cup hand
    /\ hand' = {}
    /\ feeder' = "popping"
    /\ UNCHANGED <<willparse, feeder_quit, childVars, pipe, ownVars>>

\* A faulty variant, to try the properties with: the job is lost.
FeederFull_drops_job ==
    /\ feeder = "putting"
    /\ Cardinality(jobs) >= num_processes
    /\ hand' = {}
    /\ feeder' = "popping"
    /\ UNCHANGED <<willparse, feeder_quit, jobs, childVars, pipe, ownVars>>

\* Another: put has no timeout.
FeederFull_blocks ==
    /\ feeder = "putting"
    /\ Cardinality(jobs) >= num_processes
    /\ UNCHANGED parserVars

\* Full after half a second: the job goes back into the list.
FeederFull ==
    /\ feeder = "putting"
    /\ Cardinality(jobs) >= num_processes
    /\ willparse' = SetToSeq(hand) \o willparse
    /\ hand' = {}
    /\ feeder' = "popping"
    /\ UNCHANGED <<feeder_quit, jobs, childVars, pipe, ownVars>>

Feed == FeederQuits \/ FeederPops \/ FeederPuts \/ FeederFull

-------------------------------------------------------------------------------
(* Parser.realrun *)

\* results.cancel_join_thread: the process does not wait for its buffer.
ParserQuits(p) ==
    /\ parser[p] = "idle"
    /\ parser_quit > 0
    /\ parser_quit' = parser_quit - 1
    /\ parser' = [parser EXCEPT ![p] = "ended"]
    /\ buffer' = [buffer EXCEPT ![p] = {}]
    /\ UNCHANGED <<job, jobs, feederVars, pipe, ownVars>>

ParserTakes(p) ==
    /\ parser[p] = "idle"
    /\ \E f \in jobs :
          /\ jobs' = jobs \ {f}
          /\ job' = [job EXCEPT ![p] = {f}]
    /\ parser' = [parser EXCEPT ![p] = "parsing"]
    /\ UNCHANGED <<buffer, parser_quit, feederVars, pipe, ownVars>>

\* Parser.parse: whatever the recipe raises comes back as the result.
Parse(p) ==
    /\ parser[p] = "parsing"
    /\ \E ok \in BOOLEAN :
          /\ ok \/ job[p] \subseteq Broken
          /\ buffer' = [buffer EXCEPT ![p] = @ \cup {[file |-> f, ok |-> ok] : f \in job[p]}]
    /\ job' = [job EXCEPT ![p] = {}]
    /\ parser' = [parser EXCEPT ![p] = "idle"]
    /\ UNCHANGED <<jobs, parser_quit, feederVars, pipe, ownVars>>

\* The queue's thread writes one result.
Flush(p) ==
    /\ Cardinality(pipe) < PipeSize
    /\ \E r \in buffer[p] :
          /\ pipe' = pipe \cup {r}
          /\ buffer' = [buffer EXCEPT ![p] = @ \ {r}]
    /\ UNCHANGED <<parser, job, parser_quit, jobs, feederVars, ownVars>>

ParserStep(p) == ParserQuits(p) \/ ParserTakes(p) \/ Parse(p)

-------------------------------------------------------------------------------
(* What the server process does with them *)

\* parse_next, when a result has come: counted, or raised in the generator.
NextResult ==
    /\ \E r \in pipe :
          /\ pipe' = pipe \ {r}
          /\ IF r.ok THEN parsed' = parsed + 1 /\ counted' = [counted EXCEPT ![r.file] = @ + 1]
             ELSE UNCHANGED <<parsed, counted>>
          /\ error' = (error \/ ~r.ok)
          /\ exhausted' = ~r.ok
    /\ UNCHANGED <<toparse, haveshutdown, forced, feederVars, childVars, jobs>>

\* The generator ends when as many were parsed as there were to parse.
Exhausted == exhausted \/ parsed >= Cardinality(toparse)

\* shutdown returns at once when nothing was started, or the second time.
ShutsDown == Started /\ ~haveshutdown

\* shutdown up to the joins.  With force each process is sent a SIGTERM after a
\* tenth of a second; the handler it has from the cooker (sigterm_exception) only
\* sets the state in its copy of the cooker, and it works on until it finds its
\* token.
ShutdownBegins(force) ==
    /\ haveshutdown' = TRUE /\ forced' = force
    /\ feeder_quit' = (feeder # "ended")
    /\ parser_quit' = num_processes
    /\ UNCHANGED <<toparse, feeder, hand, willparse, jobs, parser, job, buffer, pipe, parsed,
                   counted, error, exhausted>>

\* The joins: of the feeder, and unless forced of the parsers.
JoinsReturn == feeder = "ended" /\ (forced \/ ParsersEnded)

\* Shut down before everything was parsed, and not for an error; and nothing is
\* left that could still come.
ParseInterrupted ==
    /\ haveshutdown /\ ~error /\ parsed < Cardinality(toparse)
    /\ ParsersEnded /\ pipe = {}
===============================================================================
