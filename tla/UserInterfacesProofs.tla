------------------------ MODULE UserInterfacesProofs ------------------------
(***************************************************************************)
(* The events of a memory-resident server, for any number of clients and   *)
(* observers: what each UI has got of what was fired for it, whoever       *)
(* leaves, dies or is suspended, and however late an abandoned request is  *)
(* handled.                                                                *)
(***************************************************************************)
EXTENDS UserInterfaces, SequenceTheorems, TLAPS

(***************************************************************************)
(* Types.                                                                  *)
(***************************************************************************)
RequestType ==
  [ui : UIs, op : Requests, handle : UIs \cup {NoUI}, awaited : BOOLEAN]

(* TypeOK, with the fields of firing and without the bounds.               *)
Typed ==
  /\ token \in Clients \cup {NoUI} /\ command \in Clients \cup {NoUI}
  /\ handlers \subseteq UIs /\ eventHandle \in UIs \cup {NoUI}
  /\ mask \in [UIs -> UIs \cup {NoUI}]
  /\ shutdown \in BOOLEAN
  /\ firing \in [event : Events \cup {NoEvent}, left : SUBSET UIs, errors : SUBSET UIs]
  /\ firing.left \cup firing.errors \subseteq handlers
  /\ abandoned \subseteq {r \in RequestType : ~r.awaited}
  /\ pc \in [UIs -> Requests \cup {"loop", "gone"}]
  /\ gotHandle \in [UIs -> UIs \cup {NoUI}]
  /\ tries \in [UIs -> 0..Tries] /\ quitting \in [UIs -> BOOLEAN]
  /\ got \in [UIs -> Seq(Events)] /\ late \in [UIs -> Seq(Events)]
  /\ due \in [UIs -> Seq(Events)]
  /\ stopped \subseteq suspended /\ suspended \subseteq UIs

(***************************************************************************)
(* What a UI has got, and what it has yet to get.                          *)
(***************************************************************************)
(* A UI that has not registered, or that is gone, has no events; a handler *)
(* is registered once and never for a UI that is still to register.        *)
Unregistered(u) == pc[u] \in {"addClient", "registerEventHandler"}
NoEvents(u) == got[u] = <<>> /\ late[u] = <<>> /\ due[u] = <<>>

(* All of it, all but the event that is being fired, or all but what a     *)
(* suspended UI has in its socket, or else all but the one event that was  *)
(* fired when it had left.                                                 *)
Complete(u) == got[u] = due[u] /\ late[u] = <<>>
Expecting(u) == due[u] = Append(got[u], firing.event) /\ late[u] = <<>>
CutOff(u) ==
  \/ due[u] = got[u] \o late[u]
  \/ late[u] = <<>> /\ \E event \in Events : due[u] = Append(got[u], event)

Queued(u) ==
  /\ Unregistered(u) \/ pc[u] = "gone" => NoEvents(u)
  /\ Unregistered(u) => u \notin handlers
  /\ u \in handlers \ (firing.left \cup firing.errors) => Complete(u)
  /\ pc[u] # "gone" /\ u \in firing.left => Expecting(u)
  /\ CutOff(u)

(* The server sends an event to each handler once, and none between two    *)
(* events; a UI whose request to register was given up is gone.            *)
Quiet ==
  /\ firing.left \cap firing.errors = {}
  /\ ~Firing => firing.left = {} /\ firing.errors = {}
  /\ \A r \in abandoned : r.op = "registerEventHandler" => pc[r.ui] = "gone"

(* Who asks for what, and how often.                                       *)
Roles ==
  /\ \A u \in UIs : pc[u] \in {"addClient", "buildTargets"} => u \in Clients
  /\ \A r \in abandoned : r.op \in {"addClient", "buildTargets"} => r.ui \in Clients
  /\ \A u \in UIs : Unregistered(u) => tries[u] < Tries

IInv == Typed /\ Quiet /\ Roles /\ \A u \in UIs : Queued(u)

(***************************************************************************)
(* What a UI goes on with.                                                 *)
(***************************************************************************)
LEMMA GiveUpEffect ==
  ASSUME NEW op \in Requests
  PROVE  /\ GiveUp(op) \in {"gone", "removeClient", "unregisterEventHandler"}
         /\ op = "registerEventHandler" => GiveUp(op) = "gone"
BY DEF Requests, GiveUp

LEMMA ContinueEffect ==
  ASSUME NEW u \in UIs, NEW op \in Requests
  PROVE  /\ Continue(u, op) \in (Requests \cup {"loop", "gone"}) \ {"addClient"}
         /\ Continue(u, op) = "registerEventHandler" => op = "addClient"
         /\ op = "registerEventHandler" => Continue(u, op) = "setFeatures"
         /\ Continue(u, op) = "buildTargets" => u \in Clients
BY DEF Requests, Continue

(* Requests are what UIs that ask send.                                    *)
LEMMA RequestTyped ==
  ASSUME Typed, NEW u \in UIs, Asking(u), NEW awaited \in BOOLEAN
  PROVE  /\ Request(u, awaited) \in RequestType
         /\ Request(u, awaited).ui = u /\ Request(u, awaited).op = pc[u]
         /\ Request(u, awaited).awaited = awaited
BY DEF Typed, Asking, Request, RequestType

(* What is left of the queues when a UI may have ended.                    *)
LEMMA ForgetEffect ==
  ASSUME Typed, pc' \in [UIs -> Requests \cup {"loop", "gone"}], Forget
  PROVE  /\ got' \in [UIs -> Seq(Events)] /\ late' \in [UIs -> Seq(Events)]
         /\ due' \in [UIs -> Seq(Events)]
         /\ \A u \in UIs : pc'[u] = "gone" => NoEvents(u)'
         /\ \A u \in UIs : pc'[u] # "gone" =>
              got'[u] = got[u] /\ late'[u] = late[u] /\ due'[u] = due[u]
<1>1. <<>> \in Seq(Events)
  OBVIOUS
<1>2. QED
  BY <1>1 DEF Typed, Forget, NoEvents

(***************************************************************************)
(* Handling a request.                                                     *)
(***************************************************************************)
(* Whose answer it is, and whether a UI has become a handler by it.        *)
Answered(r, next) ==
  /\ next \in (Requests \cup {"loop", "gone"}) \ {"addClient"}
  /\ pc' = IF r.awaited THEN [pc EXCEPT ![r.ui] = next] ELSE pc
  /\ handlers' \subseteq handlers \cup {r.ui}
  /\ r.ui \in handlers' \ handlers => r.op = "registerEventHandler" /\ next # "registerEventHandler"
  /\ next = "registerEventHandler" =>
       \/ r.op = "addClient" /\ tries' = tries
       \/ r.op = "registerEventHandler" /\ (r.awaited => tries'[r.ui] < Tries)
  /\ next = "buildTargets" => r.ui \in Clients
  /\ ~r.awaited => tries' = tries
  /\ \A u \in UIs : u # r.ui => tries'[u] = tries[u]

(* The server handles what was sent as a UI sends it.                      *)
Sent(r) ==
  /\ r \in RequestType
  /\ r.awaited => r.op = pc[r.ui]
  /\ r.op \in {"addClient", "buildTargets"} => r.ui \in Clients

LEMMA HandleAnswers ==
  ASSUME Typed, Roles, NEW r, Sent(r), Handle(r)
  PROVE  \E next : Answered(r, next)
<1>1. r.ui \in UIs /\ r.op \in Requests /\ r.awaited \in BOOLEAN
  BY DEF Sent, RequestType
<1>2. /\ Continue(r.ui, r.op) \in (Requests \cup {"loop", "gone"}) \ {"addClient"}
      /\ Continue(r.ui, r.op) = "registerEventHandler" => r.op = "addClient"
      /\ r.op = "registerEventHandler" => Continue(r.ui, r.op) = "setFeatures"
      /\ Continue(r.ui, r.op) = "buildTargets" => r.ui \in Clients
  BY <1>1, ContinueEffect
<1>3. GiveUp(r.op) \in {"gone", "removeClient", "unregisterEventHandler"}
  BY <1>1, GiveUpEffect
<1>4. CASE Refuse(r)
  <2>1. Answered(r, GiveUp(r.op))
    BY <1>3, <1>4 DEF Refuse, Answer, Answered, Requests
  <2>2. QED
    BY <2>1
<1>5. CASE RegisterEventHandler(r)
  <2>1. CASE Busy
    <3> DEFINE next == IF tries'[r.ui] < Tries THEN r.op ELSE "gone"
    <3>1. /\ pc' = IF r.awaited THEN [pc EXCEPT ![r.ui] = next] ELSE pc
          /\ handlers' = handlers /\ r.op = "registerEventHandler"
          /\ tries' = IF r.awaited THEN [tries EXCEPT ![r.ui] = @ + 1] ELSE tries
      BY <1>5, <2>1 DEF RegisterEventHandler, Answer
    <3>2. \A u \in UIs : u # r.ui => tries'[u] = tries[u]
      BY <1>1, <3>1 DEF Typed
    <3>3. next \in {"registerEventHandler", "gone"}
          /\ (next = "registerEventHandler" => tries'[r.ui] < Tries)
      BY <3>1
    <3> HIDE DEF next
    <3>4. Answered(r, next)
      BY <3>1, <3>2, <3>3 DEF Answered, Requests
    <3>5. QED
      BY <3>4
  <2>2. CASE ~Busy
    <3>1. Answered(r, Continue(r.ui, r.op))
      BY <1>2, <1>5, <2>2 DEF RegisterEventHandler, Ok, Answer, Answered
    <3>2. QED
      BY <3>1
  <2>3. QED
    BY <2>1, <2>2
<1>6. CASE AddClient(r) \/ GetEventHandle(r) \/ SetEventMask(r) \/ Shutdown(r)
           \/ UnregisterEventHandler(r) \/ RemoveClient(r)
  <2>1. Answered(r, Continue(r.ui, r.op))
    BY <1>2, <1>6
    DEF AddClient, GetEventHandle, SetEventMask, Shutdown, UnregisterEventHandler,
        RemoveClient, Ok, Answer, Answered
  <2>2. QED
    BY <2>1
<1>7. CASE SetFeatures(r)
  <2> DEFINE next == IF Busy THEN "removeClient" ELSE Continue(r.ui, r.op)
  <2>1. Answered(r, next)
    BY <1>2, <1>7 DEF SetFeatures, Answer, Answered, Requests
  <2>2. QED
    BY <2>1
<1>8. CASE BuildTargets(r)
  <2>1. CASE command # NoUI
    <3>1. Answered(r, GiveUp(r.op))
      BY <1>3, <1>8, <2>1 DEF BuildTargets, Answer, Answered, Requests
    <3>2. QED
      BY <3>1
  <2>2. CASE command = NoUI
    <3>1. Answered(r, Continue(r.ui, r.op))
      BY <1>2, <1>8, <2>2 DEF BuildTargets, Ok, Answer, Answered
    <3>2. QED
      BY <3>1
  <2>3. QED
    BY <2>1, <2>2
<1>9. QED
  BY <1>4, <1>5, <1>6, <1>7, <1>8 DEF Handle

(* What the server keeps of it.                                            *)
LEMMA HandleTyped ==
  ASSUME Typed, Roles, NEW r, Sent(r), Handle(r)
  PROVE  /\ token' \in Clients \cup {NoUI} /\ command' \in Clients \cup {NoUI}
         /\ eventHandle' \in UIs \cup {NoUI}
         /\ mask' \in [UIs -> UIs \cup {NoUI}]
         /\ shutdown' \in BOOLEAN
         /\ gotHandle' \in [UIs -> UIs \cup {NoUI}]
         /\ tries' \in [UIs -> 0..Tries]
<1>1. r.ui \in UIs /\ r.op \in Requests /\ r.awaited \in BOOLEAN
  BY DEF Sent, RequestType
<1>2. token' \in Clients \cup {NoUI} /\ command' \in Clients \cup {NoUI}
  BY DEF Typed, Sent, Handle, Refuse, AddClient, RegisterEventHandler, SetFeatures,
         GetEventHandle, SetEventMask, BuildTargets, Shutdown, UnregisterEventHandler,
         RemoveClient
<1>3. eventHandle' \in UIs \cup {NoUI} /\ mask' \in [UIs -> UIs \cup {NoUI}]
      /\ shutdown' \in BOOLEAN /\ gotHandle' \in [UIs -> UIs \cup {NoUI}]
  BY <1>1 DEF Typed, Handle, Refuse, AddClient, RegisterEventHandler, SetFeatures,
         GetEventHandle, SetEventMask, BuildTargets, Shutdown, UnregisterEventHandler,
         RemoveClient
<1>4. tries' \in [UIs -> 0..Tries]
  <2>1. CASE tries' = tries
    BY <2>1 DEF Typed
  <2>2. CASE RegisterEventHandler(r) /\ r.awaited /\ Busy
    <3>1. r.op = pc[r.ui] /\ r.op = "registerEventHandler"
          /\ tries' = [tries EXCEPT ![r.ui] = @ + 1]
      BY <2>2 DEF RegisterEventHandler, Sent
    <3>2. tries[r.ui] < Tries /\ tries[r.ui] \in 0..Tries /\ Tries \in Nat
      BY <1>1, <3>1, UIAssumption DEF Roles, Unregistered, Typed
    <3>3. tries[r.ui] + 1 \in 0..Tries
      BY <3>2
    <3>4. QED
      BY <1>1, <3>1, <3>3 DEF Typed
  <2>3. QED
    BY <2>1, <2>2
    DEF Handle, Refuse, AddClient, RegisterEventHandler, SetFeatures,
        GetEventHandle, SetEventMask, BuildTargets, Shutdown, UnregisterEventHandler,
        RemoveClient
<1>5. QED
  BY <1>2, <1>3, <1>4

(* A request that is handled takes no event from anybody.                  *)
LEMMA HandleKeeps ==
  ASSUME IInv, NEW r, Sent(r), Handle(r),
         abandoned' \subseteq abandoned,
         ~r.awaited => (r.op = "registerEventHandler" => pc[r.ui] = "gone")
  PROVE  IInv'
<1>1. Typed /\ Quiet /\ Roles /\ \A u \in UIs : Queued(u)
  BY DEF IInv
<1>2. PICK next : Answered(r, next)
  BY <1>1, HandleAnswers
<1>3. r.ui \in UIs /\ r.op \in Requests /\ r.awaited \in BOOLEAN
  BY DEF Sent, RequestType
<1>4. /\ pc' \in [UIs -> Requests \cup {"loop", "gone"}]
      /\ \A u \in UIs : pc'[u] = IF r.awaited /\ u = r.ui THEN next ELSE pc[u]
  BY <1>1, <1>2, <1>3 DEF Typed, Answered
<1>5. /\ UNCHANGED <<firing, quitting, stopped, suspended, fired, mishaps>>
      /\ ~Firing /\ firing.left = {} /\ firing.errors = {}
  BY <1>1 DEF Handle, history, Quiet
<1>6. /\ got' \in [UIs -> Seq(Events)] /\ late' \in [UIs -> Seq(Events)]
      /\ due' \in [UIs -> Seq(Events)]
      /\ \A u \in UIs : pc'[u] = "gone" => NoEvents(u)'
      /\ \A u \in UIs : pc'[u] # "gone" =>
           got'[u] = got[u] /\ late'[u] = late[u] /\ due'[u] = due[u]
  BY <1>1, <1>4, ForgetEffect DEF Handle
<1>7. Typed'
  <2>1. handlers' \subseteq UIs
    BY <1>1, <1>2, <1>3 DEF Answered, Typed
  <2>2. QED
    BY <1>1, <1>4, <1>5, <1>6, <2>1, HandleTyped DEF Typed
<1>8. Quiet'
  <2>1. \A u \in UIs : pc[u] = "gone" /\ (u = r.ui => ~r.awaited) => pc'[u] = "gone"
    BY <1>4
  <2>2. r.awaited => pc[r.ui] # "gone"
    BY <1>3 DEF Sent, Requests
  <2>3. \A x \in abandoned : x.ui \in UIs
    BY <1>1 DEF Typed, RequestType
  <2>4. QED
    BY <1>1, <1>5, <2>1, <2>2, <2>3 DEF Quiet, Firing
<1>9. Roles'
  <2>1. \A u \in UIs : pc'[u] \in {"addClient", "buildTargets"} => u \in Clients
    BY <1>1, <1>2, <1>4 DEF Roles, Answered
  <2>2. \A u \in UIs : Unregistered(u)' => tries'[u] < Tries
    BY <1>1, <1>2, <1>3, <1>4 DEF Roles, Answered, Unregistered, Sent
  <2>3. QED
    BY <1>1, <2>1, <2>2 DEF Roles
<1>10. ASSUME NEW u \in UIs PROVE Queued(u)'
  <2>1. Queued(u)
    BY <1>1
  <2>2. CASE pc'[u] = "gone"
    <3>1. got'[u] = <<>> /\ late'[u] = <<>> /\ due'[u] = <<>>
      BY <1>6, <2>2 DEF NoEvents
    <3>2. <<>> = <<>> \o <<>>
      BY EmptySeq, ConcatEmptySeq
    <3>3. QED
      BY <2>2, <3>1, <3>2 DEF Queued, Unregistered, NoEvents, Complete, CutOff
  <2>3. CASE pc'[u] # "gone"
    <3>1. got'[u] = got[u] /\ late'[u] = late[u] /\ due'[u] = due[u]
      BY <1>6, <2>3
    <3>2. CutOff(u)'
      BY <2>1, <3>1 DEF Queued, CutOff
    <3>3. Unregistered(u)' => Unregistered(u) /\ u \notin handlers'
      BY <1>2, <1>3, <1>4, <2>1 DEF Unregistered, Answered, Sent, Queued
    <3>4. u \in handlers' => u \in handlers \/ Unregistered(u)
      BY <1>2, <1>3, <1>4, <2>3 DEF Answered, Sent, Unregistered
    <3>5. u \in handlers' => Complete(u)'
      BY <1>5, <2>1, <3>1, <3>4 DEF Queued, NoEvents, Complete
    <3>6. Unregistered(u)' => NoEvents(u)'
      BY <2>1, <3>1, <3>3 DEF Queued, NoEvents
    <3>7. QED
      BY <1>5, <2>3, <3>2, <3>3, <3>5, <3>6 DEF Queued
  <2>4. QED
    BY <2>2, <2>3
<1>11. QED
  BY <1>7, <1>8, <1>9, <1>10 DEF IInv

LEMMA RequestsKeep ==
  ASSUME IInv, HandleAbandoned \/ \E u \in UIs : HandleRequest(u)
  PROVE  IInv'
<1>1. Typed /\ Quiet /\ Roles
  BY DEF IInv
<1>2. ASSUME NEW u \in UIs, HandleRequest(u) PROVE IInv'
  <2>1. /\ Request(u, TRUE) \in RequestType /\ Request(u, TRUE).ui = u
        /\ Request(u, TRUE).op = pc[u] /\ Request(u, TRUE).awaited = TRUE
    BY <1>1, <1>2, RequestTyped DEF HandleRequest
  <2>2. Sent(Request(u, TRUE))
    BY <1>1, <2>1 DEF Sent, Roles
  <2>3. QED
    BY <1>2, <2>1, <2>2, HandleKeeps DEF HandleRequest
<1>3. ASSUME NEW r \in abandoned, Handle(r), abandoned' = abandoned \ {r} PROVE IInv'
  <2>1. r \in RequestType /\ ~r.awaited
    BY <1>1 DEF Typed
  <2>2. Sent(r)
    BY <1>1, <2>1 DEF Sent, Roles
  <2>3. QED
    BY <1>1, <1>3, <2>1, <2>2, HandleKeeps DEF Quiet
<1>4. QED
  BY <1>2, <1>3 DEF HandleAbandoned

(***************************************************************************)
(* Firing an event.                                                        *)
(***************************************************************************)
(* Two ways to write down that an event is added.                          *)
LEMMA AddedEvent ==
  ASSUME NEW q \in Seq(Events), NEW event \in Events
  PROVE  /\ Append(q, event) \in Seq(Events)
         /\ Append(<<>>, event) \in Seq(Events)
         /\ Append(q, event) = q \o Append(<<>>, event)
         /\ q = q \o <<>>
<1>1. <<>> \in Seq(Events)
  OBVIOUS
<1>2. Append(<<>>, event) = <<event>>
  OBVIOUS
<1>3. QED
  BY <1>1, <1>2, AppendProperties, AppendIsConcat, ConcatEmptySeq

LEMMA FireKeeps ==
  ASSUME IInv, ~Firing, NEW event \in Events, Fire(event),
         UNCHANGED <<token, handlers, eventHandle, mask, command, shutdown, abandoned, uis,
                     got, late, stopped, suspended>>
  PROVE  IInv'
<1> DEFINE to == {h \in handlers : Passes(h, event)}
<1>1. Typed /\ Quiet /\ Roles /\ \A u \in UIs : Queued(u)
  BY DEF IInv
<1>2. /\ firing' = [event |-> event, left |-> to, errors |-> {}]
      /\ \A u \in UIs : due'[u] = IF u \in to /\ pc[u] # "gone" THEN Append(due[u], event) ELSE due[u]
      /\ firing.left = {} /\ firing.errors = {}
      /\ to \subseteq handlers
  BY <1>1 DEF Fire, Quiet
<1>3. due' \in [UIs -> Seq(Events)]
  <2>1. \A u \in UIs : Append(due[u], event) \in Seq(Events)
    BY <1>1, AddedEvent DEF Typed
  <2>2. QED
    BY <1>1, <2>1 DEF Fire, Typed
<1>4. event # NoEvent
  BY UIAssumption DEF Events, NoEvent, UIs
<1> HIDE DEF to
<1>5. firing'.event = event /\ firing'.left = to /\ firing'.errors = {}
  BY <1>2
<1>6. Typed'
  <2>1. firing' \in [event : Events \cup {NoEvent}, left : SUBSET UIs, errors : SUBSET UIs]
    BY <1>1, <1>2 DEF Typed
  <2>2. QED
    BY <1>1, <1>2, <1>3, <1>5, <2>1 DEF Typed, uis
<1>7. Quiet' /\ Roles'
  BY <1>1, <1>4, <1>5 DEF Quiet, Roles, Firing, Unregistered, uis
<1>8. ASSUME NEW u \in UIs PROVE Queued(u)'
  <2>1. Queued(u) /\ got[u] \in Seq(Events)
    BY <1>1 DEF Typed
  <2>2. UNCHANGED <<pc, handlers, got, late>>
    BY DEF uis
  <2>3. CASE u \in to /\ pc[u] # "gone"
    <3>1. Complete(u) /\ ~Unregistered(u)
      BY <1>2, <2>1, <2>3 DEF Queued
    <3>2. due'[u] = Append(got'[u], event) /\ late'[u] = <<>>
      BY <1>2, <2>2, <2>3, <3>1 DEF Complete
    <3>3. QED
      BY <1>5, <2>2, <2>3, <3>1, <3>2 DEF Queued, Unregistered, Expecting, CutOff
  <2>4. CASE ~(u \in to /\ pc[u] # "gone")
    <3>1. due'[u] = due[u]
      BY <1>2, <2>4
    <3>2. CutOff(u)'
      BY <2>1, <2>2, <3>1 DEF Queued, CutOff
    <3>3. QED
      BY <1>2, <1>5, <2>1, <2>2, <2>4, <3>1, <3>2 DEF Queued, Unregistered, NoEvents, Complete
  <2>5. QED
    BY <2>3, <2>4
<1>9. QED
  BY <1>6, <1>7, <1>8 DEF IInv

LEMMA FiringKeeps ==
  ASSUME IInv, FinishAsyncCommand \/ \E kind \in Kinds : Progress(kind)
  PROVE  IInv'
<1>1. command # NoUI => command \in Clients
  BY DEF IInv, Typed
<1>2. CASE FinishAsyncCommand
  <2>1. [kind |-> "end", of |-> command] \in Events
    BY <1>1, <1>2 DEF FinishAsyncCommand, Events
  <2>2. QED
    BY <1>2, <2>1, FireKeeps DEF FinishAsyncCommand, history
<1>3. ASSUME NEW kind \in Kinds, Progress(kind) PROVE IInv'
  <2>1. [kind |-> kind, of |-> command] \in Events
    BY <1>1, <1>3 DEF Progress, Events
  <2>2. QED
    BY <1>3, <2>1, FireKeeps DEF Progress
<1>4. QED
  BY <1>2, <1>3

(* The event goes to one handler's UI, or to its socket, or nowhere.       *)
SentOff(h, errors) ==
  /\ errors \in {{}, {h}}
  /\ firing' = [firing EXCEPT !.left = @ \ {h}, !.errors = @ \cup errors]
  /\ \/ /\ errors = {} /\ pc[h] # "gone"
        /\ got' = [got EXCEPT ![h] = Append(@, firing.event)] /\ late' = late
     \/ /\ errors = {h} /\ got' = got
        /\ \/ late' = late
           \/ pc[h] # "gone" /\ late' = [late EXCEPT ![h] = Append(@, firing.event)]

LEMMA SendingKeeps ==
  ASSUME IInv, NEW h \in UIs, Deliver(h) \/ SendRefused(h) \/ SendTimesOut(h)
  PROVE  IInv'
<1>1. Typed /\ Quiet /\ Roles /\ \A u \in UIs : Queued(u)
  BY DEF IInv
<1>2. /\ h \in firing.left /\ h \notin firing.errors /\ Firing
      /\ UNCHANGED <<token, handlers, eventHandle, mask, command, shutdown, abandoned, uis,
                     due, stopped, suspended>>
  BY <1>1 DEF Deliver, SendRefused, SendTimesOut, SentTo, history, Quiet
<1>3. PICK errors : SentOff(h, errors)
  <2>1. CASE Deliver(h)
    <3>1. SentOff(h, {})
      BY <2>1 DEF SentOff, Deliver, SentTo, Serving
    <3>2. QED
      BY <3>1
  <2>2. CASE SendRefused(h)
    <3>1. SentOff(h, {h})
      BY <2>2 DEF SentOff, SendRefused, SentTo
    <3>2. QED
      BY <3>1
  <2>3. CASE SendTimesOut(h)
    <3>1. SentOff(h, {h})
      BY <2>3 DEF SentOff, SendTimesOut, SentTo
    <3>2. QED
      BY <3>1
  <2>4. QED
    BY <2>1, <2>2, <2>3
<1>4. /\ firing'.event = firing.event
      /\ firing'.left = firing.left \ {h}
      /\ firing'.errors = firing.errors \cup errors
      /\ errors \in {{}, {h}}
      /\ firing' \in [event : Events \cup {NoEvent}, left : SUBSET UIs, errors : SUBSET UIs]
  BY <1>1, <1>3 DEF Typed, SentOff
<1>5. firing.event \in Events
  BY <1>1, <1>2 DEF Firing, Typed
<1>6. /\ got[h] \in Seq(Events) /\ Append(got[h], firing.event) \in Seq(Events)
      /\ late[h] \in Seq(Events) /\ Append(late[h], firing.event) \in Seq(Events)
      /\ Append(got[h], firing.event) = got[h] \o Append(<<>>, firing.event)
      /\ Append(got[h], firing.event) = Append(got[h], firing.event) \o <<>>
  <2>1. got[h] \in Seq(Events) /\ late[h] \in Seq(Events)
    BY <1>1 DEF Typed
  <2>2. Append(got[h], firing.event) \in Seq(Events)
        /\ Append(late[h], firing.event) \in Seq(Events)
    BY <1>5, <2>1, AddedEvent
  <2>3. QED
    BY <1>5, <2>1, <2>2, AddedEvent
<1>7. pc[h] = "gone" => NoEvents(h)
  BY <1>1 DEF Queued
<1>8. pc[h] # "gone" => Expecting(h)
  BY <1>1, <1>2 DEF Queued
<1>9. h \in handlers /\ ~Unregistered(h)
  BY <1>1, <1>2 DEF Typed, Queued
<1>10. /\ got' \in [UIs -> Seq(Events)] /\ late' \in [UIs -> Seq(Events)]
       /\ \A u \in UIs : u # h => got'[u] = got[u] /\ late'[u] = late[u]
       /\ \/ /\ errors = {} /\ pc[h] # "gone"
             /\ got'[h] = Append(got[h], firing.event) /\ late'[h] = late[h]
          \/ /\ errors = {h} /\ got'[h] = got[h]
             /\ \/ late'[h] = late[h]
                \/ pc[h] # "gone" /\ late'[h] = Append(late[h], firing.event)
  <2> DEFINE more(q) == [q EXCEPT ![h] = Append(@, firing.event)]
  <2>1. /\ more(got) \in [UIs -> Seq(Events)] /\ more(got)[h] = Append(got[h], firing.event)
        /\ \A u \in UIs : u # h => more(got)[u] = got[u]
    BY <1>1, <1>6 DEF Typed
  <2>2. /\ more(late) \in [UIs -> Seq(Events)] /\ more(late)[h] = Append(late[h], firing.event)
        /\ \A u \in UIs : u # h => more(late)[u] = late[u]
    BY <1>1, <1>6 DEF Typed
  <2>3. /\ got \in [UIs -> Seq(Events)] /\ late \in [UIs -> Seq(Events)]
    BY <1>1 DEF Typed
  <2>4. \/ errors = {} /\ pc[h] # "gone" /\ got' = more(got) /\ late' = late
        \/ /\ errors = {h} /\ got' = got
           /\ late' = late \/ (pc[h] # "gone" /\ late' = more(late))
    BY <1>3 DEF SentOff
  <2> HIDE DEF more
  <2>5. QED
    BY <2>1, <2>2, <2>3, <2>4
<1>11. Typed'
  BY <1>1, <1>2, <1>4, <1>9, <1>10 DEF Typed, uis
<1>12. Quiet' /\ Roles'
  BY <1>1, <1>2, <1>4 DEF Quiet, Roles, Firing, Unregistered, uis
<1>13. ASSUME NEW u \in UIs, u # h PROVE Queued(u)'
  <2>1. /\ UNCHANGED <<pc, handlers, due>> /\ got'[u] = got[u] /\ late'[u] = late[u]
        /\ firing'.event = firing.event
        /\ u \in firing'.left <=> u \in firing.left
        /\ u \in firing'.errors <=> u \in firing.errors
    BY <1>2, <1>4, <1>10, <1>13 DEF uis
  <2>2. Queued(u)
    BY <1>1
  <2>3. CutOff(u)'
    BY <2>1, <2>2 DEF Queued, CutOff
  <2>4. QED
    BY <2>1, <2>2, <2>3 DEF Queued, Unregistered, NoEvents, Complete, Expecting
<1>14. Queued(h)'
  <2>1. UNCHANGED <<pc, handlers, due>>
    BY <1>2 DEF uis
  <2>2. h \notin firing'.left /\ (errors # {} => h \in firing'.errors)
    BY <1>4
  <2>3. CASE errors = {}
    <3>1. due'[h] = got'[h] /\ late'[h] = <<>> /\ pc[h] # "gone"
      BY <1>8, <1>10, <2>1, <2>3 DEF Expecting
    <3>2. due'[h] = got'[h] \o late'[h]
      BY <1>6, <1>8, <1>10, <2>1, <2>3, <3>1 DEF Expecting
    <3>3. QED
      BY <1>9, <2>1, <2>2, <3>1, <3>2 DEF Queued, Unregistered, Complete, CutOff
  <2>4. CASE errors = {h} /\ late'[h] = late[h]
    <3>1. got'[h] = got[h] /\ h \in firing'.errors
      BY <1>10, <2>2, <2>4
    <3>2. CutOff(h)'
      BY <1>1, <2>1, <2>4, <3>1 DEF CutOff, Queued
    <3>3. QED
      BY <1>7, <1>9, <2>1, <2>2, <2>4, <3>1, <3>2 DEF Queued, Unregistered, NoEvents
  <2>5. CASE errors = {h} /\ pc[h] # "gone" /\ late'[h] = Append(late[h], firing.event)
    <3>1. got'[h] = got[h] /\ h \in firing'.errors
      BY <1>10, <2>2, <2>5
    <3>2. due'[h] = got'[h] \o late'[h]
      BY <1>6, <1>8, <2>1, <2>5, <3>1 DEF Expecting
    <3>3. QED
      BY <1>9, <2>1, <2>2, <2>5, <3>1, <3>2 DEF Queued, Unregistered, CutOff
  <2>6. QED
    BY <1>4, <1>10, <2>3, <2>4, <2>5
<1>15. QED
  BY <1>11, <1>12, <1>13, <1>14 DEF IInv

LEMMA FiredKeeps ==
  ASSUME IInv, Fired
  PROVE  IInv'
<1>1. Typed /\ Quiet /\ Roles /\ \A u \in UIs : Queued(u)
  BY DEF IInv
<1>2. /\ firing.left = {} /\ handlers' = handlers \ firing.errors
      /\ firing' = [event |-> NoEvent, left |-> {}, errors |-> {}]
      /\ UNCHANGED <<token, eventHandle, mask, abandoned, uis, queues, stopped, suspended>>
      /\ command' \in {command, NoUI} /\ shutdown' \in {shutdown, FALSE}
  BY DEF Fired, history
<1>3. firing'.event = NoEvent /\ firing'.left = {} /\ firing'.errors = {}
      /\ firing' \in [event : Events \cup {NoEvent}, left : SUBSET UIs, errors : SUBSET UIs]
  BY <1>2
<1>4. Typed'
  BY <1>1, <1>2, <1>3 DEF Typed, uis, queues
<1>5. Quiet' /\ Roles'
  BY <1>1, <1>2, <1>3 DEF Quiet, Roles, Unregistered, uis
<1>6. ASSUME NEW u \in UIs PROVE Queued(u)'
  BY <1>1, <1>2, <1>3
  DEF Queued, Unregistered, NoEvents, Complete, Expecting, CutOff, uis, queues
<1>7. QED
  BY <1>4, <1>5, <1>6 DEF IInv

(***************************************************************************)
(* The steps of a UI.                                                      *)
(***************************************************************************)
(* It leaves its loop, is interrupted or suspended.                        *)
LEMMA LoopKeeps ==
  ASSUME IInv, NEW u \in UIs, LeaveLoop(u) \/ Interrupt(u) \/ Suspend(u)
  PROVE  IInv'
<1>1. Typed /\ Quiet /\ Roles /\ \A x \in UIs : Queued(x)
  BY DEF IInv
<1>2. UNCHANGED <<server, abandoned, gotHandle, tries, queues>>
  BY DEF LeaveLoop, Interrupt, Suspend, uis, history
<1>3. /\ stopped' \subseteq suspended' /\ suspended' \subseteq UIs
      /\ quitting' \in [UIs -> BOOLEAN]
      /\ pc' \in [UIs -> Requests \cup {"loop", "gone"}]
  <2>1. CASE LeaveLoop(u)
    BY <1>1, <2>1 DEF LeaveLoop, Typed, history, Requests
  <2>2. CASE Interrupt(u)
    BY <1>1, <2>2 DEF Interrupt, Typed, Requests
  <2>3. CASE Suspend(u)
    BY <1>1, <2>3 DEF Suspend, Typed, uis
  <2>4. QED
    BY <2>1, <2>2, <2>3
<1>4. \A x \in UIs :
        \/ pc'[x] = pc[x]
        \/ pc[x] = "loop"
           /\ pc'[x] \in {"loop", "unregisterEventHandler", "stateShutdown", "stateForceShutdown"}
  BY <1>1 DEF LeaveLoop, Interrupt, InLoop, Suspend, Typed, uis
<1>5. Typed'
  BY <1>1, <1>2, <1>3 DEF Typed, server, queues
<1>6. Quiet' /\ Roles'
  <2>1. \A r \in abandoned : r.ui \in UIs
    BY <1>1 DEF Typed, RequestType
  <2>2. QED
    BY <1>1, <1>2, <1>4, <2>1 DEF Quiet, Roles, Unregistered, Firing, server
<1>7. ASSUME NEW x \in UIs PROVE Queued(x)'
  BY <1>1, <1>2, <1>4
  DEF Queued, Unregistered, NoEvents, Complete, Expecting, CutOff, server, queues
<1>8. QED
  BY <1>5, <1>6, <1>7 DEF IInv

(* It takes what has come while it was suspended.                          *)
LEMMA ResumeKeeps ==
  ASSUME IInv, NEW u \in UIs, Resume(u)
  PROVE  IInv'
<1>1. Typed /\ Quiet /\ Roles /\ \A x \in UIs : Queued(x)
  BY DEF IInv
<1>2. /\ UNCHANGED <<server, abandoned, uis, due, suspended>>
      /\ stopped' = stopped \ {u}
      /\ got' = [got EXCEPT ![u] = @ \o late[u]]
      /\ late' = [late EXCEPT ![u] = <<>>]
  BY DEF Resume
<1>3. got[u] \in Seq(Events) /\ late[u] \in Seq(Events) /\ <<>> \in Seq(Events)
  BY <1>1 DEF Typed
<1>4. got[u] \o late[u] \in Seq(Events) /\ got[u] \o <<>> = got[u]
      /\ (got[u] \o late[u]) \o <<>> = got[u] \o late[u]
  <2>1. got[u] \o late[u] \in Seq(Events)
    BY <1>3, ConcatProperties
  <2>2. QED
    BY <1>3, <2>1, ConcatEmptySeq
<1>5. /\ got' \in [UIs -> Seq(Events)] /\ late' \in [UIs -> Seq(Events)]
      /\ \A x \in UIs : x # u => got'[x] = got[x] /\ late'[x] = late[x]
      /\ got'[u] = got[u] \o late[u] /\ late'[u] = <<>>
  BY <1>1, <1>2, <1>3, <1>4 DEF Typed
<1>6. Typed'
  BY <1>1, <1>2, <1>5 DEF Typed, server, uis
<1>7. Quiet' /\ Roles'
  BY <1>1, <1>2 DEF Quiet, Roles, Unregistered, Firing, server, uis
<1>8. ASSUME NEW x \in UIs, x # u PROVE Queued(x)'
  BY <1>1, <1>2, <1>5, <1>8
  DEF Queued, Unregistered, NoEvents, Complete, Expecting, CutOff, server, uis
<1>9. Queued(u)'
  <2>1. UNCHANGED <<pc, handlers, firing, due>>
    BY <1>2 DEF server, uis
  <2>2. late[u] = <<>> => got'[u] = got[u]
    BY <1>4, <1>5
  <2>3. CutOff(u)'
    <3>1. CASE due[u] = got[u] \o late[u]
      <4>1. due'[u] = got'[u] \o late'[u]
        BY <1>4, <1>5, <2>1, <3>1
      <4>2. QED
        BY <4>1 DEF CutOff
    <3>2. CASE late[u] = <<>> /\ \E event \in Events : due[u] = Append(got[u], event)
      BY <1>5, <2>1, <2>2, <3>2 DEF CutOff
    <3>3. QED
      BY <1>1, <3>1, <3>2 DEF Queued, CutOff
  <2>4. QED
    BY <1>1, <1>5, <2>1, <2>2, <2>3 DEF Queued, Unregistered, NoEvents, Complete, Expecting
<1>10. QED
  BY <1>6, <1>7, <1>8, <1>9 DEF IInv

(* It gives up a request, or dies.                                         *)
LEMMA GivingUpKeeps ==
  ASSUME IInv, NEW u \in UIs, RequestTimesOut(u) \/ Die(u)
  PROVE  IInv'
<1>1. Typed /\ Quiet /\ Roles /\ \A x \in UIs : Queued(x)
  BY DEF IInv
<1>2. /\ UNCHANGED <<server, gotHandle, tries, quitting, suspended>> /\ Forget
      /\ stopped' \subseteq stopped
  BY DEF RequestTimesOut, Die
<1>3. \/ abandoned' = abandoned
      \/ Asking(u) /\ abandoned' = abandoned \cup {Request(u, FALSE)}
  BY DEF RequestTimesOut, Die
<1>4. \E next : /\ pc' = [pc EXCEPT ![u] = next]
                /\ next \in {"gone", "removeClient", "unregisterEventHandler"}
                /\ Asking(u) /\ pc[u] = "registerEventHandler" => next = "gone"
  <2>1. CASE RequestTimesOut(u)
    <3>1. pc[u] \in Requests /\ pc' = [pc EXCEPT ![u] = GiveUp(pc[u])]
      BY <1>1, <2>1 DEF RequestTimesOut, Asking, Typed
    <3>2. QED
      BY <3>1, GiveUpEffect
  <2>2. CASE Die(u)
    BY <2>2 DEF Die
  <2>3. QED
    BY <2>1, <2>2
<1>5. /\ pc' \in [UIs -> Requests \cup {"loop", "gone"}]
      /\ \A x \in UIs : x # u => pc'[x] = pc[x]
      /\ pc'[u] \in {"gone", "removeClient", "unregisterEventHandler"}
      /\ pc[u] = "registerEventHandler" => pc'[u] = "gone"
      /\ pc[u] = "gone" => pc'[u] = "gone"
  <2>1. pc[u] = "registerEventHandler" => Asking(u)
    BY DEF Asking
  <2>2. pc[u] # "gone"
    BY DEF RequestTimesOut, Die, Asking
  <2>3. QED
    BY <1>1, <1>4, <2>1, <2>2 DEF Typed, Requests
<1>6. /\ got' \in [UIs -> Seq(Events)] /\ late' \in [UIs -> Seq(Events)]
      /\ due' \in [UIs -> Seq(Events)]
      /\ \A x \in UIs : pc'[x] = "gone" => NoEvents(x)'
      /\ \A x \in UIs : pc'[x] # "gone" =>
           got'[x] = got[x] /\ late'[x] = late[x] /\ due'[x] = due[x]
  BY <1>1, <1>2, <1>5, ForgetEffect
<1>7. \A r \in abandoned' \ abandoned :
        r \in RequestType /\ ~r.awaited /\ r.ui = u /\ r.op = pc[u]
  <2>1. Asking(u) => /\ Request(u, FALSE) \in RequestType /\ Request(u, FALSE).ui = u
                     /\ Request(u, FALSE).op = pc[u] /\ ~Request(u, FALSE).awaited
    BY <1>1, RequestTyped
  <2>2. QED
    BY <1>3, <2>1
<1>8. Typed'
  BY <1>1, <1>2, <1>5, <1>6, <1>7 DEF Typed, server
<1>9. Quiet' /\ Roles'
  <2>1. \A r \in abandoned : r.ui \in UIs
    BY <1>1 DEF Typed, RequestType
  <2>2. firing' = firing
    BY <1>2 DEF server
  <2>3. Quiet'
    BY <1>1, <1>5, <1>7, <2>1, <2>2 DEF Quiet, Firing
  <2>4. Roles'
    BY <1>1, <1>2, <1>5, <1>7 DEF Roles, Unregistered
  <2>5. QED
    BY <2>3, <2>4
<1>10. ASSUME NEW x \in UIs PROVE Queued(x)'
  <2>1. Queued(x) /\ UNCHANGED <<handlers, firing>>
    BY <1>1, <1>2 DEF server
  <2>2. Unregistered(x)' => Unregistered(x) /\ pc'[x] # "gone"
    BY <1>5 DEF Unregistered
  <2>3. CASE pc'[x] = "gone"
    <3>1. got'[x] = <<>> /\ late'[x] = <<>> /\ due'[x] = <<>>
      BY <1>6, <2>3 DEF NoEvents
    <3>2. <<>> = <<>> \o <<>>
      BY EmptySeq, ConcatEmptySeq
    <3>3. QED
      BY <2>3, <3>1, <3>2 DEF Queued, Unregistered, NoEvents, Complete, CutOff
  <2>4. CASE pc'[x] # "gone"
    <3>1. got'[x] = got[x] /\ late'[x] = late[x] /\ due'[x] = due[x] /\ pc[x] # "gone"
      BY <1>5, <1>6, <2>4
    <3>2. QED
      BY <2>1, <2>2, <2>4, <3>1 DEF Queued, NoEvents, Complete, Expecting, CutOff
  <2>5. QED
    BY <2>3, <2>4
<1>11. QED
  BY <1>8, <1>9, <1>10 DEF IInv

(***************************************************************************)
(* The specification.                                                      *)
(***************************************************************************)
LEMMA InitIInv ==
  ASSUME Init
  PROVE  IInv
<1>1. <<>> \in Seq(Events) /\ <<>> = <<>> \o <<>>
  BY EmptySeq, ConcatEmptySeq
<1>2. 0 \in 0..Tries /\ 0 < Tries
  BY UIAssumption
<1>3. Typed
  BY <1>1, <1>2 DEF Init, Typed, Requests, UIs
<1>4. Quiet /\ Roles
  BY <1>2 DEF Init, Quiet, Roles, Firing, UIs
<1>5. \A u \in UIs : Queued(u)
  BY <1>1 DEF Init, Queued, Unregistered, NoEvents, Complete, CutOff
<1>6. QED
  BY <1>3, <1>4, <1>5 DEF IInv

LEMMA NextIInv ==
  ASSUME IInv, [Next]_vars
  PROVE  IInv'
<1>1. CASE FireStep
  BY <1>1, FiredKeeps, SendingKeeps DEF FireStep
<1>2. CASE FinishAsyncCommand \/ \E kind \in Kinds : Progress(kind)
  BY <1>2, FiringKeeps
<1>3. CASE HandleAbandoned \/ \E u \in UIs : HandleRequest(u)
  BY <1>3, RequestsKeep
<1>4. ASSUME NEW u \in UIs,
             LeaveLoop(u) \/ RequestTimesOut(u) \/ Interrupt(u) \/ Suspend(u)
               \/ Resume(u) \/ Die(u)
      PROVE  IInv'
  BY <1>4, LoopKeeps, ResumeKeeps, GivingUpKeeps
<1>5. CASE UNCHANGED vars
  BY <1>5
  DEF IInv, Typed, Quiet, Roles, Firing, Queued, Unregistered, NoEvents, Complete,
      Expecting, CutOff, vars, server, uis, queues, history
<1>6. QED
  BY <1>1, <1>2, <1>3, <1>4, <1>5 DEF Next

(* For any UIs, masks, numbers of events and of mishaps.                   *)
THEOREM Invariance == Spec => []IInv
<1>1. Init => IInv
  BY InitIInv
<1>2. IInv /\ [Next]_vars => IInv'
  BY NextIInv
<1>3. QED
  BY <1>1, <1>2, PTL DEF Spec

(* The variables of the server and of its UIs have their types.            *)
THEOREM TypeCorrect == Spec => []TypeOK
<1>1. IInv => TypeOK
  <2> SUFFICES ASSUME IInv PROVE TypeOK
    OBVIOUS
  <2>1. Typed
    BY DEF IInv
  <2>2. abandoned \subseteq {[ui |-> u, op |-> op, handle |-> h, awaited |-> FALSE] :
                               u \in UIs, op \in Requests, h \in UIs \cup {NoUI}}
    BY <2>1 DEF Typed, RequestType
  <2>3. QED
    BY <2>1, <2>2 DEF Typed, TypeOK
<1>2. QED
  BY <1>1, Invariance, PTL

(* Nothing has got lost, and nothing has come that was not fired.          *)
LEMMA Beginning ==
  ASSUME NEW q \in Seq(Events), NEW more \in Seq(Events)
  PROVE  SubSeq(q \o more, 1, Len(q)) = q
<1>1. CASE q = <<>>
  BY <1>1, SubSeqEmpty, EmptySeq
<1>2. CASE q # <<>>
  <2>1. Len(q) \in Nat /\ Len(q) # 0
    BY <1>2, EmptySeq
  <2>2. SubSeq(q \o more, 1, Len(q)) = SubSeq(q, 1, Len(q))
    BY <2>1, SubSeqOfConcat1
  <2>3. QED
    BY <2>2, SubSeqFull
<1>3. QED
  BY <1>1, <1>2

LEMMA QueuedComplete ==
  ASSUME Typed, NEW u \in UIs, Queued(u)
  PROVE  got[u] = SubSeq(due[u], 1, Len(got[u]))
<1>1. got[u] \in Seq(Events) /\ late[u] \in Seq(Events) /\ due[u] \in Seq(Events)
  BY DEF Typed
<1>2. CASE due[u] = got[u] \o late[u]
  BY <1>1, <1>2, Beginning
<1>3. ASSUME NEW event \in Events, due[u] = Append(got[u], event)
      PROVE  got[u] = SubSeq(due[u], 1, Len(got[u]))
  <2>1. due[u] = got[u] \o Append(<<>>, event) /\ Append(<<>>, event) \in Seq(Events)
    BY <1>1, <1>3, AddedEvent
  <2>2. QED
    BY <1>1, <2>1, Beginning
<1>4. QED
  BY <1>2, <1>3 DEF Queued, CutOff

(* A UI has got the beginning of what fire_ui_handlers has fired for it,   *)
(* and all of it as long as its handler stands.                            *)
THEOREM EventsCompleteHolds == Spec => []EventsComplete
<1>1. IInv => EventsComplete
  BY QueuedComplete DEF IInv, EventsComplete, Queued, Complete
<1>2. QED
  BY <1>1, Invariance, PTL
=============================================================================
