--------------------------- MODULE UserInterfaces ---------------------------
(***************************************************************************)
(* The user interfaces of a memory-resident server: XMLRPCServer and its   *)
(* commands, bb.event's delivery to the handlers of UIs, the UIs' event    *)
(* queues with a thread of their own, and what a UI asks from its start to *)
(* its end.  One UI at a time may be a client, others observe.             *)
(*                                                                         *)
(* Either side may wait for the other: a UI for the answer to a request,   *)
(* the server, inside fire(), until a UI has taken an event.               *)
(***************************************************************************)
EXTENDS Integers, Sequences, FiniteSets

CONSTANTS
  Clients, Observers,   \* UIs, each is started and ends once
  Unwanted,             \* ui -> kinds of events that its event mask leaves out
  Kinds,                \* kinds of events besides the end of a command
  Tries,                \* registrations a UI tries while the cooker is busy
  MaxEvents, MaxMishaps,   \* bounds
  NoUI

UIs == Clients \cup Observers

ASSUME UIAssumption ==
  /\ Clients \cap Observers = {} /\ NoUI \notin UIs
  /\ Unwanted \in [UIs -> SUBSET Kinds] /\ "end" \notin Kinds
  /\ Tries \in Nat \ {0}
  /\ {MaxEvents, MaxMishaps} \subseteq Nat

VARIABLES
  \* the server
  token,         \* whose token the server has (has_client iff not NoUI)
  handlers,      \* _ui_handlers; a UI's handle is the UI
  eventHandle,   \* the handle registered last
  mask,          \* mask[h]: the UI whose mask _ui_logfilters[h] has, NoUI if all pass
  command,       \* the client whose asynchronous command is current
  shutdown,      \* cooker.state is shutdown or forceshutdown, or was for this command
  firing,        \* in fire(): the event, the handlers it is still to be sent to, the errors
  abandoned,     \* requests in its socket whose UIs have given up or died
  \* each UI
  pc,            \* the request it makes and waits for; "loop", "gone"
  gotHandle,     \* what getEventHandle has answered
  tries,
  quitting,      \* main.shutdown > 1 after an interrupt or an exception
  got,           \* events its callback thread has taken, in order
  late,          \* an event in the socket of a suspended UI
  stopped,       \* UIs suspended now
  \* history and bounds
  due,           \* due[u]: events fired for its handler, those its mask left out excepted
  suspended,     \* UIs suspended at some time
  fired,
  mishaps        \* interrupts, suspensions, deaths and requests that timed out

server  == <<token, handlers, eventHandle, mask, command, shutdown, firing>>
uis     == <<pc, gotHandle, tries, quitting>>
queues  == <<got, late, due>>
history == <<stopped, suspended, fired, mishaps>>
vars    == <<server, abandoned, uis, queues, history>>

Requests == {"addClient", "registerEventHandler", "setFeatures", "getEventHandle",
             "setEventMask", "buildTargets", "stateShutdown", "stateForceShutdown",
             "unregisterEventHandler", "removeClient"}
Events  == [kind : Kinds \cup {"end"}, of : Clients]
NoEvent == [kind |-> "none", of |-> NoUI]

(* Types of the server, of the requests abandoned, and of the UIs.         *)
TypeOK ==
  /\ token \in Clients \cup {NoUI} /\ command \in Clients \cup {NoUI}
  /\ handlers \subseteq UIs /\ eventHandle \in UIs \cup {NoUI}
  /\ mask \in [UIs -> UIs \cup {NoUI}]
  /\ shutdown \in BOOLEAN
  /\ firing.event \in Events \cup {NoEvent} /\ firing.left \cup firing.errors \subseteq handlers
  /\ abandoned \subseteq {[ui |-> u, op |-> op, handle |-> h, awaited |-> FALSE] :
                    u \in UIs, op \in Requests, h \in UIs \cup {NoUI}}
  /\ pc \in [UIs -> Requests \cup {"loop", "gone"}]
  /\ gotHandle \in [UIs -> UIs \cup {NoUI}]
  /\ tries \in [UIs -> 0..Tries] /\ quitting \in [UIs -> BOOLEAN]
  /\ {got, due, late} \subseteq [UIs -> Seq(Events)]
  /\ stopped \subseteq suspended /\ suspended \subseteq UIs

(***************************************************************************)
(* fire_ui_handlers.                                                       *)
(***************************************************************************)
Passes(h, event) == \A u \in UIs : mask[h] = u => event.kind \notin Unwanted[u]

(* Masks do not change before it is over.                                  *)
Fire(event) ==
  LET to == {h \in handlers : Passes(h, event)} IN
  /\ firing' = [event |-> event, left |-> to, errors |-> {}]
  /\ due' = [u \in UIs |-> IF u \in to /\ pc[u] # "gone" THEN Append(due[u], event) ELSE due[u]]

Firing == firing.event # NoEvent
SentTo(h, errors) ==
  /\ firing' = [firing EXCEPT !.left = @ \ {h}, !.errors = @ \cup errors]
  /\ UNCHANGED <<token, handlers, eventHandle, mask, command, shutdown, abandoned, uis,
                 due, history>>

(* Its callback thread runs once registerEventHandler has answered, until  *)
(* some time after system_quit.                                            *)
Serving_in_main_thread(h) == h \notin stopped /\ pc[h] = "loop"
Serving(h) ==
  /\ h \notin stopped
  /\ pc[h] \notin {"addClient", "registerEventHandler", "gone"}

Deliver(h) ==
  /\ h \in firing.left /\ Serving(h)
  /\ got' = [got EXCEPT ![h] = Append(@, firing.event)]
  /\ SentTo(h, {})
  /\ UNCHANGED late

(* Nobody listens any more.                                                *)
SendRefused_ends_fire(h) ==
  /\ h \in firing.left /\ pc[h] \in {"gone", "removeClient"}
  /\ firing' = [firing EXCEPT !.left = {}, !.errors = @ \cup {h}]
  /\ UNCHANGED <<token, handlers, eventHandle, mask, command, shutdown, abandoned, uis,
                 queues, history>>
SendRefused(h) ==
  /\ h \in firing.left /\ pc[h] \in {"gone", "removeClient"}
  /\ SentTo(h, {h})
  /\ UNCHANGED <<got, late>>

(* After a minute.  The event stays in the UI's socket.                    *)
SendTimesOut(h) ==
  /\ h \in firing.left /\ h \in stopped /\ pc[h] # "gone"
  /\ late' = [late EXCEPT ![h] = Append(@, firing.event)]
  /\ SentTo(h, {h})
  /\ UNCHANGED got

(* The end of fire, and of finishAsyncCommand if it has fired.             *)
Fired ==
  /\ Firing /\ firing.left = {}
  /\ handlers' = handlers \ firing.errors
  /\ firing' = [event |-> NoEvent, left |-> {}, errors |-> {}]
  /\ IF firing.event.kind = "end" THEN command' = NoUI /\ shutdown' = FALSE
     ELSE UNCHANGED <<command, shutdown>>
  /\ UNCHANGED <<token, eventHandle, mask, abandoned, uis, queues, history>>

(***************************************************************************)
(* The idle functions: the current command goes on.                        *)
(***************************************************************************)
(* cooker.state is parsing or running: the idle functions have had a turn  *)
(* since the command was accepted, whatever is handled next.               *)
Busy == command # NoUI /\ ~shutdown

Progress(kind) ==
  /\ ~Firing /\ command # NoUI /\ fired < MaxEvents
  /\ fired' = fired + 1
  /\ Fire([kind |-> kind, of |-> command])
  /\ UNCHANGED <<token, handlers, eventHandle, mask, command, shutdown, abandoned, uis, got,
                 late, stopped, suspended, mishaps>>

FinishAsyncCommand ==
  /\ ~Firing /\ command # NoUI
  /\ Fire([kind |-> "end", of |-> command])
  /\ UNCHANGED <<token, handlers, eventHandle, mask, command, shutdown, abandoned, uis, got,
                 late, history>>

(***************************************************************************)
(* Requests: BitBakeXMLRPCRequestHandler.do_POST, BitBakeServerCommands.   *)
(***************************************************************************)
(* The token sent equals the server's, or is that of an observer.          *)
Authorised(r) ==
  \/ r.ui \in Observers
  \/ token = IF r.op = "addClient" THEN NoUI ELSE r.ui

(* What a UI goes on with after a request that went well, and after one    *)
(* that did not: a 503, an error, or no answer.                            *)
Continue(u, op) ==
  [addClient |-> "registerEventHandler", registerEventHandler |-> "setFeatures",
   setFeatures |-> "getEventHandle", getEventHandle |-> "setEventMask",
   setEventMask |-> IF u \in Clients THEN "buildTargets" ELSE "loop",
   buildTargets |-> "loop", stateShutdown |-> "loop", stateForceShutdown |-> "loop",
   unregisterEventHandler |-> "removeClient", removeClient |-> "gone"][op]
GiveUp(op) ==
  CASE op \in {"addClient", "registerEventHandler", "setFeatures", "removeClient"} -> "gone"
    [] op = "unregisterEventHandler" -> "removeClient"
    [] OTHER                         -> "unregisterEventHandler"

(* The queues of a UI end with it.                                         *)
Forget ==
  LET kept(q) == [u \in UIs |-> IF pc'[u] = "gone" THEN <<>> ELSE q[u]] IN
  got' = kept(got) /\ late' = kept(late) /\ due' = kept(due)

(* A request in the server's socket: one that a UI waits for, or one that  *)
(* was abandoned, whose answer nobody takes.                               *)
Request(u, awaited) == [ui |-> u, op |-> pc[u], handle |-> gotHandle[u], awaited |-> awaited]
Asking(u) == pc[u] \notin {"loop", "gone"}

Answer(r, next) == pc' = IF r.awaited THEN [pc EXCEPT ![r.ui] = next] ELSE pc
Ok(r) == Answer(r, Continue(r.ui, r.op))

AddClient(r) ==
  /\ r.op = "addClient"
  /\ token' = r.ui /\ Ok(r)
  /\ UNCHANGED <<handlers, eventHandle, mask, command, shutdown, gotHandle, tries>>

(* A UI that is told the cooker is busy tries again, some times.           *)
RegisterEventHandler(r) ==
  /\ r.op = "registerEventHandler"
  /\ IF Busy
     THEN /\ tries' = IF r.awaited THEN [tries EXCEPT ![r.ui] = @ + 1] ELSE tries
          /\ Answer(r, IF tries'[r.ui] < Tries THEN r.op ELSE "gone")
          /\ UNCHANGED <<handlers, eventHandle, mask>>
     ELSE /\ handlers' = handlers \cup {r.ui}
          /\ eventHandle' = r.ui
          /\ mask' = [mask EXCEPT ![r.ui] = NoUI]
          /\ Ok(r) /\ UNCHANGED tries
  /\ UNCHANGED <<token, command, shutdown, gotHandle>>

(* Its failure is answered by removeClient before the UI ends.  Features   *)
(* that are new reset the cooker, and a shutdown is forgotten; a command   *)
(* that was about to end because of it does not become busy again.         *)
SetFeatures(r) ==
  /\ r.op = "setFeatures"
  /\ Answer(r, IF Busy THEN "removeClient" ELSE Continue(r.ui, r.op))
  /\ shutdown' \in {shutdown, shutdown /\ command # NoUI}
  /\ UNCHANGED <<token, handlers, eventHandle, mask, command, gotHandle, tries>>

GetEventHandle(r) ==
  /\ r.op = "getEventHandle"
  /\ Ok(r)
  /\ gotHandle' = IF r.awaited THEN [gotHandle EXCEPT ![r.ui] = eventHandle] ELSE gotHandle
  /\ UNCHANGED <<token, handlers, eventHandle, mask, command, shutdown, tries>>

SetEventMask(r) ==
  /\ r.op = "setEventMask"
  /\ mask' = IF r.handle \in handlers THEN [mask EXCEPT ![r.handle] = r.ui] ELSE mask
  /\ Ok(r)
  /\ gotHandle' = [gotHandle EXCEPT ![r.ui] = NoUI]
  /\ UNCHANGED <<token, handlers, eventHandle, command, shutdown, tries>>

BuildTargets(r) ==
  /\ r.op = "buildTargets"
  /\ IF command # NoUI THEN Answer(r, GiveUp(r.op)) /\ UNCHANGED command
     ELSE command' = r.ui /\ Ok(r)
  /\ UNCHANGED <<token, handlers, eventHandle, mask, shutdown, gotHandle, tries>>

Shutdown(r) ==
  /\ r.op \in {"stateShutdown", "stateForceShutdown"}
  /\ shutdown' = TRUE /\ Ok(r)
  /\ UNCHANGED <<token, handlers, eventHandle, mask, command, gotHandle, tries>>

UnregisterEventHandler_last(r) ==
  /\ r.op = "unregisterEventHandler"
  /\ handlers' = handlers \ {eventHandle} /\ Ok(r)
  /\ UNCHANGED <<token, eventHandle, mask, command, shutdown, gotHandle, tries>>
UnregisterEventHandler(r) ==
  /\ r.op = "unregisterEventHandler"
  /\ handlers' = handlers \ {r.ui} /\ Ok(r)
  /\ UNCHANGED <<token, eventHandle, mask, command, shutdown, gotHandle, tries>>

RemoveClient(r) ==
  /\ r.op = "removeClient"
  /\ token' = NoUI /\ Ok(r)
  /\ UNCHANGED <<handlers, eventHandle, mask, command, shutdown, gotHandle, tries>>

Refuse(r) ==
  /\ ~Authorised(r)
  /\ Answer(r, GiveUp(r.op))
  /\ UNCHANGED <<token, handlers, eventHandle, mask, command, shutdown, gotHandle, tries>>

(* One request in each turn of _serve_forever, if there is one.            *)
Handle(r) ==
  /\ ~Firing
  /\ \/ Refuse(r)
     \/ /\ Authorised(r)
        /\ \/ AddClient(r) \/ RegisterEventHandler(r) \/ SetFeatures(r)
           \/ GetEventHandle(r) \/ SetEventMask(r) \/ BuildTargets(r)
           \/ Shutdown(r) \/ UnregisterEventHandler(r) \/ RemoveClient(r)
  /\ Forget
  /\ UNCHANGED <<firing, quitting, history>>

HandleRequest(u) == Asking(u) /\ Handle(Request(u, TRUE)) /\ UNCHANGED abandoned
HandleAbandoned ==
  \E r \in abandoned : Handle(r) /\ abandoned' = abandoned \ {r}

(***************************************************************************)
(* A user interface: connect, setupEventQueue, main, terminate.            *)
(***************************************************************************)
Awake(u) == pc[u] # "gone" /\ u \notin stopped

(* The server does not answer for a minute; the request stays with it.     *)
RequestTimesOut(u) ==
  /\ Awake(u) /\ Asking(u) /\ mishaps < MaxMishaps
  /\ mishaps' = mishaps + 1
  /\ abandoned' = abandoned \cup {Request(u, FALSE)}
  /\ pc' = [pc EXCEPT ![u] = GiveUp(@)]
  /\ Forget
  /\ UNCHANGED <<server, gotHandle, tries, quitting, stopped, suspended, fired>>

InLoop(u) == Awake(u) /\ pc[u] = "loop"

(* It goes on to the end of a command, and of the queue.                   *)
EndTaken(u) == \E i \in 1..Len(got[u]) : got[u][i].kind = "end"

LeaveLoop(u) ==
  /\ InLoop(u) /\ (quitting[u] \/ EndTaken(u))
  /\ pc' = [pc EXCEPT ![u] = "unregisterEventHandler"]
  /\ quitting' = [quitting EXCEPT ![u] = FALSE]
  /\ UNCHANGED <<server, abandoned, gotHandle, tries, queues, history>>

(* Control-C, or an exception in the loop.  An observer leaves; a client   *)
(* asks for a shutdown and stays, or for a forced one and leaves.          *)
Interrupt(u) ==
  /\ InLoop(u) /\ ~quitting[u] /\ mishaps < MaxMishaps
  /\ mishaps' = mishaps + 1
  /\ \E next \in IF u \in Observers THEN {"loop"} ELSE {"stateShutdown", "stateForceShutdown"} :
       /\ pc' = [pc EXCEPT ![u] = next]
       /\ quitting' = [quitting EXCEPT ![u] = next # "stateShutdown"]
  /\ UNCHANGED <<server, abandoned, gotHandle, tries, queues, stopped, suspended,
                 fired>>

Suspend(u) ==
  /\ Awake(u) /\ mishaps < MaxMishaps
  /\ mishaps' = mishaps + 1
  /\ stopped' = stopped \cup {u} /\ suspended' = suspended \cup {u}
  /\ UNCHANGED <<server, abandoned, uis, queues, fired>>

Resume(u) ==
  /\ u \in stopped
  /\ stopped' = stopped \ {u}
  /\ got' = [got EXCEPT ![u] = @ \o late[u]]
  /\ late' = [late EXCEPT ![u] = <<>>]
  /\ UNCHANGED <<server, abandoned, uis, due, suspended, fired, mishaps>>

Die(u) ==
  /\ pc[u] # "gone" /\ mishaps < MaxMishaps
  /\ mishaps' = mishaps + 1
  /\ \/ UNCHANGED abandoned
     \/ Asking(u) /\ abandoned' = abandoned \cup {Request(u, FALSE)}
  /\ pc' = [pc EXCEPT ![u] = "gone"]
  /\ stopped' = stopped \ {u}
  /\ Forget
  /\ UNCHANGED <<server, gotHandle, tries, quitting, suspended, fired>>

(***************************************************************************)
(* The specification.                                                      *)
(***************************************************************************)
Init ==
  /\ token = NoUI /\ handlers = {} /\ eventHandle = NoUI
  /\ mask = [u \in UIs |-> NoUI]
  /\ command = NoUI /\ shutdown = FALSE
  /\ firing = [event |-> NoEvent, left |-> {}, errors |-> {}]
  /\ abandoned = {}
  /\ pc = [u \in UIs |-> IF u \in Clients THEN "addClient" ELSE "registerEventHandler"]
  /\ gotHandle = [u \in UIs |-> NoUI]
  /\ tries = [u \in UIs |-> 0] /\ quitting = [u \in UIs |-> FALSE]
  /\ got = [u \in UIs |-> <<>>] /\ late = [u \in UIs |-> <<>>]
  /\ due = [u \in UIs |-> <<>>]
  /\ stopped = {} /\ suspended = {}
  /\ fired = 0 /\ mishaps = 0

FireStep == Fired \/ \E h \in UIs : Deliver(h) \/ SendRefused(h) \/ SendTimesOut(h)

Next ==
  \/ FireStep \/ FinishAsyncCommand \/ HandleAbandoned
  \/ \E kind \in Kinds : Progress(kind)
  \/ \E u \in UIs :
       \/ HandleRequest(u) \/ LeaveLoop(u) \/ RequestTimesOut(u)
       \/ Interrupt(u) \/ Suspend(u) \/ Resume(u) \/ Die(u)

Spec ==
  /\ Init /\ [][Next]_vars
  /\ WF_vars(FireStep) /\ WF_vars(FinishAsyncCommand) /\ WF_vars(HandleAbandoned)
  /\ \A u \in UIs : WF_vars(HandleRequest(u)) /\ WF_vars(LeaveLoop(u))

(***************************************************************************)
(* Properties.                                                             *)
(***************************************************************************)
(* What a UI has got (queue_event) is the beginning of what was fired for  *)
(* it (fire_ui_handlers), in order and without gaps, and is all of it as   *)
(* long as its handler stands: no UI that is gone, slow or leaving takes   *)
(* an event from another one.                                              *)
EventsComplete ==
  \A u \in UIs :
    /\ got[u] = SubSeq(due[u], 1, Len(got[u]))
    /\ u \in handlers \ (firing.left \cup firing.errors) => got[u] = due[u]

(* A client whose command was accepted (Command.runCommand) comes to the   *)
(* end of its loop, unless it was suspended: nothing another UI does takes *)
(* the end of the command away from it.                                    *)
ClientLearnsEnd ==
  \A c \in Clients : command = c ~> pc[c] = "gone" \/ c \in suspended

(* "To avoid client/server deadlocks" (uievent.py): the server and a UI do *)
(* not wait for each other for ever; each request is answered or given up. *)
RequestsAnswered == \A u \in UIs : Asking(u) ~> ~Asking(u)

(* What do_POST's comment says: nobody is let in "while another client is  *)
(* connected".  Does not hold, see the findings.                           *)
Connected(c) == pc[c] \notin {"addClient", "unregisterEventHandler", "removeClient", "gone"}
OneClient == Cardinality({c \in Clients : Connected(c)}) <= 1

(* The mask of a UI in its loop (setEventMask) is its own.  Does not hold, *)
(* see the findings.                                                       *)
MaskIsOwn == \A u \in UIs : pc[u] = "loop" /\ u \in handlers => mask[u] = u

(* A client in its loop has no other command's end to take for its own's.  *)
(* Does not hold, see the findings.                                        *)
EndIsOwn ==
  \A c \in Clients : pc[c] = "loop" =>
    \A i \in 1..Len(got[c]) : got[c][i].kind = "end" => got[c][i].of = c

(* The token of a client that is gone is given back.  Does not hold, see   *)
(* the findings.                                                           *)
TokenReturned == \A c \in Clients : pc[c] = "gone" ~> token # c
=============================================================================
