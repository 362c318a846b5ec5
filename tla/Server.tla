-------------------------------- MODULE Server --------------------------------
(* The server process: ProcessServer.main (server/process.py), Command         *)
(* (command.py), the cooker's states and updateCache (cooker.py), over the     *)
(* parsing processes of CookerParser.                                          *)
(*                                                                             *)
(* One turn of the main loop is three phases: the command pipe, the quit pipe, *)
(* the idle functions.  The user interface may write to either pipe at any     *)
(* moment, so that a poll may find something or not at any turn.  A build is   *)
(* an idle function that ends in one of the ways RunQueue shows; here it is    *)
(* one step that may come at any turn.                                         *)
EXTENDS CookerParser

CONSTANTS MaxCommands,        \* bound on the commands that come and are not refused
          MaxChanges          \* bound on the changes the file watches report

VARIABLES
    phase,                  \* "command", "quit", "idle", "generator", "join", "exit", "ended"
    then,                   \* what follows the joins of CookerParser.shutdown
    state,                  \* BBCooker.state
    current,                \* Command.currentAsyncCommand: "none", "needcache", "nocache"
    idlefuns,               \* _idlefuns: "runCommands", "build"
    parsecache_valid,       \* BBCooker.parsecache_valid
    quit,                   \* ProcessServer.quit
    commands,               \* commands so far, but for the refused ones
    changes,                \* changes reported so far
    stale                   \* "command": reported before the current command came
                            \* and not parsed since; "later": since; else "none"

serverVars == <<phase, then, state, current, idlefuns, parsecache_valid, quit, commands,
                changes, stale>>
vars == <<parserVars, serverVars>>

AsyncCommands == {"needcache", "nocache"}
SyncCommands == {"stateShutdown", "stateForceShutdown"}

Init ==
    /\ ParserInit
    /\ phase = "command" /\ then = "none"
    /\ state \in {"initial", "error"}               \* pre_serve
    /\ current = "none" /\ idlefuns = {} /\ parsecache_valid = FALSE /\ quit = FALSE
    /\ commands = 0 /\ changes = 0 /\ stale = "none"

-------------------------------------------------------------------------------
(* cooker.shutdown and CookerParser.shutdown *)

\* CookerParser.shutdown, then `next'; when it returns at once, `next' follows.
ParserShutdown(force, next) ==
    IF ShutsDown
    THEN /\ ShutdownBegins(force)
         /\ phase' = "join"
         /\ then' = next
    ELSE /\ UNCHANGED parserVars
         /\ phase' = next
         /\ then' = "none"

Joined ==
    /\ phase = "join"
    /\ JoinsReturn
    /\ phase' = then
    /\ then' = "none"
    /\ UNCHANGED <<parserVars, state, current, idlefuns, parsecache_valid, quit, commands,
                   changes, stale>>

shutdown(force, next) ==
    /\ state' = IF force THEN "forceshutdown" ELSE "shutdown"
    /\ ParserShutdown(force, next)

-------------------------------------------------------------------------------
(* ProcessServer.main and Command.runCommand *)

\* Whether quitout.poll() finds something afterwards.
AfterCommand == {"quit", "idle"}

\* Nothing in the pipe, or an asynchronous command that is refused: "Busy".
NoCommand ==
    /\ phase = "command"
    /\ phase' \in AfterCommand
    /\ UNCHANGED <<parserVars, then, state, current, idlefuns, parsecache_valid, quit, commands,
                   changes, stale>>

RunSync ==
    /\ phase = "command"
    /\ commands < MaxCommands /\ commands' = commands + 1
    /\ \E command \in SyncCommands, next \in AfterCommand :
          shutdown(command = "stateForceShutdown", next)
    /\ UNCHANGED <<current, idlefuns, parsecache_valid, quit, changes, stale>>

\* The command waits for the idle function runCommands.
RunAsync ==
    /\ phase = "command"
    /\ current = "none"
    /\ commands < MaxCommands /\ commands' = commands + 1
    /\ current' \in AsyncCommands
    /\ idlefuns' = idlefuns \cup {"runCommands"}
    /\ stale' = IF stale = "later" THEN "command" ELSE stale
    /\ phase' \in AfterCommand
    /\ UNCHANGED <<parserVars, then, state, parsecache_valid, quit, changes>>

RecvQuit ==
    /\ phase = "quit"
    /\ quit' = TRUE
    /\ shutdown(TRUE, "idle")
    /\ UNCHANGED <<current, idlefuns, parsecache_valid, commands, changes, stale>>

NothingIdle ==
    /\ phase = "idle"
    /\ idlefuns = {}
    /\ phase' = IF quit THEN "exit" ELSE "command"
    /\ UNCHANGED <<parserVars, then, state, current, idlefuns, parsecache_valid, quit, commands,
                   changes, stale>>

\* After the loop: cooker.shutdown(True), and the process ends.
Exit ==
    /\ phase = "exit"
    /\ shutdown(TRUE, "ended")
    /\ UNCHANGED <<current, idlefuns, parsecache_valid, quit, commands, changes, stale>>

-------------------------------------------------------------------------------
(* Command.runAsyncCommand, as the idle function runCommands *)

\* A faulty variant, to try the properties with.
finishAsyncCommand_keeps_state ==
    /\ current' = "none"
    /\ state' = state

\* finishAsyncCommand: CommandCompleted, CommandExit or CommandFailed is fired.
finishAsyncCommand ==
    /\ current' = "none"
    /\ state' = "initial"

runAsync == phase = "idle" /\ "runCommands" \in idlefuns

Stopping == state \in {"error", "shutdown", "forceshutdown"}

\* updateCache shuts the parser down and raises.
AsyncStopped ==
    /\ runAsync
    /\ Stopping
    /\ ParserShutdown(TRUE, "raise")
    /\ UNCHANGED <<state, current, idlefuns, parsecache_valid, quit, commands, changes, stale>>

\* BBHandledException out of updateCache.
AsyncRaises ==
    /\ phase = "raise"
    /\ finishAsyncCommand
    /\ idlefuns' = idlefuns \ {"runCommands"}
    /\ phase' = IF quit THEN "exit" ELSE "command"
    /\ UNCHANGED <<parserVars, then, parsecache_valid, quit, commands, changes, stale>>

NeedsParse == current = "needcache" /\ state # "running"

\* updateCache in a state other than parsing, up to the first parse_next.
StartParsing ==
    /\ runAsync /\ ~Stopping /\ NeedsParse
    /\ state # "parsing"
    /\ IF parsecache_valid
       THEN UNCHANGED <<parserVars, parsecache_valid, stale>>
       ELSE NewParser /\ parsecache_valid' = TRUE /\ stale' = "none"
    /\ state' = "parsing"
    /\ phase' = "generator"
    /\ UNCHANGED <<then, current, idlefuns, quit, commands, changes>>

ContinueParsing ==
    /\ runAsync /\ ~Stopping /\ NeedsParse
    /\ state = "parsing"
    /\ phase' = "generator"
    /\ UNCHANGED <<parserVars, then, state, current, idlefuns, parsecache_valid, quit, commands,
                   changes, stale>>

\* parse_next gets a result; it waits in the generator as long as none comes.
\* An exception shuts the parser down, and updateCache raises.
ParseNext ==
    /\ phase = "generator"
    /\ ~Exhausted
    /\ NextResult
    /\ phase' = IF error' THEN "parse_failed" ELSE IF quit THEN "exit" ELSE "command"
    /\ UNCHANGED <<then, state, current, idlefuns, parsecache_valid, quit, commands, changes,
                   stale>>

ParseFailed ==
    /\ phase = "parse_failed"
    /\ ParserShutdown(FALSE, "raise")
    /\ UNCHANGED <<state, current, idlefuns, parsecache_valid, quit, commands, changes, stale>>

\* A faulty variant, to try the properties with: the processes are
\* left to themselves.
ParseDone_no_shutdown ==
    /\ phase = "generator"
    /\ Exhausted
    /\ phase' = IF error THEN "raise" ELSE "parsed"
    /\ UNCHANGED <<parserVars, then, state, current, idlefuns, parsecache_valid, quit, commands,
                   changes, stale>>

\* StopIteration
ParseDone ==
    /\ phase = "generator"
    /\ Exhausted
    /\ ParserShutdown(FALSE, IF error THEN "raise" ELSE "parsed")
    /\ UNCHANGED <<state, current, idlefuns, parsecache_valid, quit, commands, changes, stale>>

Running ==
    /\ phase = "parsed"
    /\ state' = "running"
    /\ phase' = IF quit THEN "exit" ELSE "command"
    /\ UNCHANGED <<parserVars, then, current, idlefuns, parsecache_valid, quit, commands,
                   changes, stale>>

\* The command's method: it finishes or raises here, or starts a build.
RunMethod ==
    /\ runAsync /\ ~Stopping /\ ~NeedsParse
    /\ \/ /\ finishAsyncCommand
          /\ idlefuns' = idlefuns \ {"runCommands"}
       \/ /\ idlefuns' = (idlefuns \ {"runCommands"}) \cup {"build"}
          /\ UNCHANGED <<current, state>>
    /\ phase' = IF quit THEN "exit" ELSE "command"
    /\ UNCHANGED <<parserVars, then, parsecache_valid, quit, commands, changes, stale>>

-------------------------------------------------------------------------------
(* buildTargetsIdle and buildFileIdle, and the file watches *)

runBuild == phase = "idle" /\ "build" \in idlefuns

BuildGoesOn ==
    /\ runBuild
    /\ phase' = IF quit THEN "exit" ELSE "command"
    /\ UNCHANGED <<parserVars, then, state, current, idlefuns, parsecache_valid, quit, commands,
                   changes, stale>>

BuildFinishes ==
    /\ runBuild
    /\ finishAsyncCommand
    /\ idlefuns' = idlefuns \ {"build"}
    /\ phase' = IF quit THEN "exit" ELSE "command"
    /\ UNCHANGED <<parserVars, then, parsecache_valid, quit, commands, changes, stale>>

\* idle_commands drops an idle function that raised, and the server quits.
BuildRaises ==
    /\ runBuild
    /\ idlefuns' = idlefuns \ {"build"}
    /\ quit' = TRUE
    /\ phase' = "exit"
    /\ UNCHANGED <<parserVars, then, state, current, parsecache_valid, commands, changes,
                   stale>>

\* process_inotify_updates runs among the idle functions.
FilesChanged ==
    /\ phase = "idle"
    /\ changes < MaxChanges
    /\ changes' = changes + 1
    /\ parsecache_valid' = FALSE
    /\ stale' = IF stale = "command" THEN stale ELSE "later"
    /\ UNCHANGED <<parserVars, phase, then, state, current, idlefuns, quit, commands>>

-------------------------------------------------------------------------------

ParserSteps == \E p \in ParserProcesses : ParserStep(p) \/ Flush(p)
TokenRead == FeederQuits \/ \E p \in ParserProcesses : ParserQuits(p)

Children == (Feed \/ ParserSteps) /\ UNCHANGED serverVars

Main ==
    \/ NoCommand \/ RunSync \/ RunAsync \/ RecvQuit \/ NothingIdle \/ Exit \/ Joined
    \/ AsyncStopped \/ AsyncRaises \/ StartParsing \/ ContinueParsing \/ ParseNext
    \/ ParseFailed \/ ParseDone \/ Running \/ RunMethod
    \/ BuildGoesOn \/ BuildFinishes \/ BuildRaises

Next == Main \/ FilesChanged \/ Children

Spec == Init /\ [][Next]_vars

\* The processes run; a build ends, as RunQueue shows of builds.  get_nowait may
\* miss what has just been put into feeder_quit or parser_quit, but not turn after
\* turn for ever: hence the strong fairness of TokenRead.  (Fairness of the processes
\* together is weaker than of each one, and it is enough.)
FairSpec ==
    /\ Spec
    /\ WF_vars(Main)
    /\ SF_vars(BuildFinishes \/ BuildRaises)
    /\ WF_vars(Feed /\ UNCHANGED serverVars)
    /\ WF_vars(ParserSteps /\ UNCHANGED serverVars)
    /\ SF_vars(TokenRead /\ UNCHANGED serverVars)

-------------------------------------------------------------------------------
(* Properties *)

(* A command that needs the recipes runs only when every recipe that had to be *)
(* parsed was parsed once, although the feeder puts jobs back and takes them   *)
(* again, and results may come after a shutdown; and when no process of the    *)
(* parse is left, unless a forced shutdown did not wait for them.              *)
ParseComplete ==
    state = "running" =>
        /\ \A f \in Files : counted[f] = IF f \in toparse THEN 1 ELSE 0
        /\ ~error
        /\ feeder = "ended"
        /\ forced \/ ParsersEnded

(* What does not hold: the same of a parse that was forced to shut down.  A     *)
(* result that comes late finishes it for the next command.                    *)
ProcessesGone == state = "running" => ProcessesEnded

(* And with what it parses it takes account of every change that was reported  *)
(* before the command came.                                                    *)
FreshParse == state = "running" => stale # "command"

(* Every accepted command ends, whatever shutdowns arrive during the parse or  *)
(* the build, or else the server does.  The exception: an earlier shutdown     *)
(* stopped the parse halfway, and this command waits for the rest of it.       *)
CommandEnds ==
    (current # "none") ~>
        (current = "none" \/ phase = "ended" \/ (phase = "generator" /\ ParseInterrupted))

(* What does not hold: the same without the exception. *)
CommandAlwaysEnds == (current # "none") ~> (current = "none" \/ phase = "ended")
===============================================================================
