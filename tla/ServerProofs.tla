---------------------------- MODULE ServerProofs ----------------------------
(***************************************************************************)
(* The server's loop over its parsing processes, for any number of recipes *)
(* and of processes: what is known of the parse when a command runs; and   *)
(* the lock that keeps other servers out of its build directory.           *)
(***************************************************************************)
EXTENDS Server, LockFile, SequenceTheorems, FiniteSetTheorems, TLAPS

(***************************************************************************)
(* Types.                                                                  *)
(***************************************************************************)
Results == [file : Files, ok : BOOLEAN]

ParserTyped ==
  /\ toparse \subseteq Files
  /\ feeder \in {"popping", "putting", "ended"}
  /\ IF feeder = "putting" THEN \E f \in toparse : hand = {f} ELSE hand = {}
  /\ willparse \in Seq(toparse)
  /\ feeder_quit \in BOOLEAN
  /\ jobs \subseteq toparse
  /\ parser \in [ParserProcesses -> {"idle", "parsing", "ended"}]
  /\ job \in [ParserProcesses -> SUBSET toparse]
  /\ buffer \in [ParserProcesses -> SUBSET Results]
  /\ parser_quit \in Nat
  /\ pipe \subseteq Results
  /\ \A r \in pipe : r.file \in toparse
  /\ \A p \in ParserProcesses : \A r \in buffer[p] : r.file \in toparse
  /\ parsed \in Nat /\ counted \in [Files -> Nat]
  /\ error \in BOOLEAN /\ exhausted \in BOOLEAN
  /\ haveshutdown \in BOOLEAN /\ forced \in BOOLEAN

(* What follows the joins of a shutdown.                                   *)
AfterJoin == {"quit", "idle", "raise", "parsed", "ended"}

ServerTyped ==
  /\ phase \in AfterJoin \cup {"command", "generator", "parse_failed", "join", "exit"}
  /\ then \in AfterJoin \cup {"none"}
  /\ state \in {"initial", "parsing", "running", "shutdown", "forceshutdown", "error"}
  /\ current \in AsyncCommands \cup {"none"}
  /\ idlefuns \subseteq {"runCommands", "build"}
  /\ parsecache_valid \in BOOLEAN /\ quit \in BOOLEAN
  /\ commands \in Nat /\ changes \in Nat
  /\ stale \in {"none", "command", "later"}

(***************************************************************************)
(* A recipe is in one place, from the feeder's list to the server's count. *)
(***************************************************************************)
Places == {"willparse", "hand", "jobs", "job", "buffer", "pipe", "counted"}

(* It is nowhere else than there, with p if it is the job or in the buffer *)
(* of a process, and with this outcome.                                    *)
OnlyAt(f, place, p, ok) ==
  /\ \A i \in DOMAIN willparse : willparse[i] = f => place = "willparse"
  /\ f \in hand => place = "hand"
  /\ f \in jobs => place = "jobs"
  /\ \A q \in ParserProcesses : f \in job[q] => place = "job" /\ q = p
  /\ \A q \in ParserProcesses : \A r \in buffer[q] :
       r.file = f => place = "buffer" /\ q = p /\ r.ok = ok
  /\ \A r \in pipe : r.file = f => place = "pipe" /\ r.ok = ok
  /\ counted[f] # 0 => place = "counted" /\ counted[f] = 1 /\ f \in toparse

Placed(f) ==
  \E place \in Places, p \in ParserProcesses, ok \in BOOLEAN : OnlyAt(f, place, p, ok)

OnePlace ==
  /\ \A f \in Files : Placed(f)
  /\ \A i, j \in DOMAIN willparse : willparse[i] = willparse[j] => i = j

Counted == {f \in Files : counted[f] = 1}

(* The server has counted as many as have been counted.                    *)
Tallied == parsed = Cardinality(Counted)

(***************************************************************************)
(* The processes of a parse are gone after its shutdown, the parsers unless *)
(* it was a forced one, and the end of a parse is that of all of it.       *)
(***************************************************************************)
Ended ==
  /\ toparse = {} \/ (haveshutdown /\ phase # "join") => JoinsReturn
  /\ phase = "join" => haveshutdown /\ state # "running"
  /\ phase = "join" <=> then # "none"

Done ==
  /\ exhausted => error
  /\ state = "running" \/ phase = "parsed" \/ then = "parsed" =>
       /\ parsed >= Cardinality(toparse) /\ ~error
       /\ phase # "join" => JoinsReturn

(***************************************************************************)
(* A command is current while the cooker parses and runs, and was there    *)
(* before what has changed since.                                          *)
(***************************************************************************)
Current ==
  /\ phase \in {"generator", "parse_failed", "parsed"} \/ then = "parsed" => state = "parsing"
  /\ state \in {"parsing", "running"} => current # "none"

Fresh ==
  /\ state \in {"parsing", "running"} => stale # "command"
  /\ stale # "none" => ~parsecache_valid

Parsing == ParserTyped /\ OnePlace /\ Tallied

IInv ==
  /\ Parsing /\ ServerTyped
  /\ Ended /\ Done
  /\ Current /\ Fresh

(***************************************************************************)
(* Sequences.                                                              *)
(***************************************************************************)
LEMMA LastTaken ==
  ASSUME NEW S, NEW s \in Seq(S), s # <<>>
  PROVE  /\ Len(s) \in DOMAIN s /\ Last(s) = s[Len(s)] /\ Last(s) \in S
         /\ Front(s) \in Seq(S)
         /\ \A i \in DOMAIN Front(s) : i \in DOMAIN s /\ i # Len(s) /\ Front(s)[i] = s[i]
<1>1. Len(s) \in Nat /\ Len(s) # 0 /\ DOMAIN s = 1..Len(s)
  BY EmptySeq, LenProperties
<1>2. \A i \in 1..Len(s) : s[i] \in S
  BY ElementOfSeq
<1>3. Front(s) = SubSeq(s, 1, Len(s) - 1)
  BY DEF Front
<1>4. /\ Front(s) \in Seq(S)
      /\ Len(Front(s)) = Len(s) - 1
      /\ \A i \in 1..Len(s) - 1 : Front(s)[i] = s[i]
  <2>1. \A i \in 1..Len(s) - 1 : s[i] \in S
    BY <1>1, <1>2
  <2>2. QED
    BY <1>1, <1>3, <2>1, SubSeqProperties
<1>5. DOMAIN Front(s) = 1..Len(s) - 1
  BY <1>4, LenProperties
<1>6. QED
  BY <1>1, <1>2, <1>4, <1>5 DEF Last

LEMMA SingletonToSeq ==
  ASSUME NEW S, NEW f \in S
  PROVE  SetToSeq({f}) \in Seq(S) /\ Len(SetToSeq({f})) = 1 /\ SetToSeq({f})[1] = f
<1>1. Cardinality({f}) = 1
  BY FS_Singleton
<1>2. [i \in 1..1 |-> f] \in [1..1 -> {f}] /\ IsInjective([i \in 1..1 |-> f])
  BY DEF IsInjective
<1>3. SetToSeq({f}) \in [1..1 -> {f}]
  BY <1>1, <1>2 DEF SetToSeq
<1>4. SetToSeq({f}) \in Seq(S)
  <2>1. SetToSeq({f}) \in [1..1 -> S]
    BY <1>3
  <2>2. \A n \in Nat : \A q \in [1..n -> S] : q \in Seq(S)
    BY SeqDef
  <2>3. QED
    BY <2>1, <2>2
<1>5. 1..1 = 1..Len(SetToSeq({f})) /\ Len(SetToSeq({f})) \in Nat
  BY <1>3, <1>4, LenProperties
<1>6. QED
  BY <1>3, <1>4, <1>5

LEMMA PutFirst ==
  ASSUME NEW S, NEW s \in Seq(S), NEW f \in S
  PROVE  /\ SetToSeq({f}) \o s \in Seq(S)
         /\ \A i \in DOMAIN (SetToSeq({f}) \o s) :
              \/ i = 1 /\ (SetToSeq({f}) \o s)[i] = f
              \/ /\ i \in Nat /\ i # 1 /\ i - 1 \in DOMAIN s
                 /\ (SetToSeq({f}) \o s)[i] = s[i - 1]
<1> DEFINE q == SetToSeq({f})
<1>1. q \in Seq(S) /\ Len(q) = 1 /\ q[1] = f
  BY SingletonToSeq
<1>2. Len(s) \in Nat /\ DOMAIN s = 1..Len(s)
  BY LenProperties
<1> HIDE DEF q
<1>3. /\ q \o s \in Seq(S)
      /\ Len(q \o s) = 1 + Len(s)
      /\ \A i \in 1..1 + Len(s) : (q \o s)[i] = IF i <= 1 THEN q[i] ELSE s[i - 1]
  BY <1>1, ConcatProperties
<1>4. DOMAIN (q \o s) = 1..1 + Len(s)
  BY <1>3, LenProperties
<1>5. \A i \in DOMAIN (q \o s) :
        \/ i = 1 /\ (q \o s)[i] = f
        \/ i \in Nat /\ i # 1 /\ i - 1 \in DOMAIN s /\ (q \o s)[i] = s[i - 1]
  BY <1>1, <1>2, <1>3, <1>4
<1>6. QED
  BY <1>3, <1>5 DEF q

(***************************************************************************)
(* Recipes that a step does not move, or only takes away.                  *)
(***************************************************************************)
NotMoved(f) ==
  /\ \A i \in DOMAIN willparse' :
       willparse'[i] = f => \E j \in DOMAIN willparse : willparse[j] = f
  /\ f \in hand' => f \in hand
  /\ f \in jobs' => f \in jobs
  /\ \A q \in ParserProcesses : f \in job'[q] => f \in job[q]
  /\ \A q \in ParserProcesses : \A r \in buffer'[q] : r.file = f => r \in buffer[q]
  /\ \A r \in pipe' : r.file = f => r \in pipe
  /\ counted'[f] = counted[f] /\ toparse' = toparse

LEMMA NotMovedPlaced ==
  ASSUME NEW f \in Files, Placed(f), NotMoved(f)
  PROVE  Placed(f)'
<1>1. PICK place \in Places, p \in ParserProcesses, ok \in BOOLEAN : OnlyAt(f, place, p, ok)
  BY DEF Placed
<1>2. OnlyAt(f, place, p, ok)'
  BY <1>1 DEF OnlyAt, NotMoved
<1>3. QED
  BY <1>2 DEF Placed

LEMMA NothingCounted ==
  ASSUME Tallied, UNCHANGED <<parsed, counted>>
  PROVE  Tallied'
BY DEF Tallied, Counted

(***************************************************************************)
(* The feeder.                                                             *)
(***************************************************************************)
LEMMA FeederKeeps ==
  ASSUME Parsing, Feed
  PROVE  Parsing'
<1>1. ParserTyped /\ OnePlace /\ Tallied
  BY DEF Parsing
<1>2. UNCHANGED <<childVars, pipe, ownVars>>
  BY DEF Feed, FeederQuits, FeederPops, FeederPuts, FeederFull
<1>3. Tallied'
  BY <1>1, <1>2, NothingCounted DEF ownVars
<1>4. CASE FeederQuits \/ (FeederPops /\ willparse = <<>>)
  <2>1. UNCHANGED <<hand, willparse, jobs>> /\ feeder' = "ended" /\ feeder = "popping"
        /\ feeder_quit' \in {feeder_quit, FALSE}
    BY <1>4 DEF FeederQuits, FeederPops
  <2>2. ParserTyped'
    BY <1>1, <1>2, <2>1 DEF ParserTyped, childVars, ownVars
  <2>3. \A f \in Files : NotMoved(f)
    BY <1>2, <2>1 DEF NotMoved, childVars, ownVars
  <2>4. OnePlace'
    BY <1>1, <2>1, <2>3, NotMovedPlaced DEF OnePlace
  <2>5. QED
    BY <1>3, <2>2, <2>4 DEF Parsing
<1>5. CASE FeederPops /\ willparse # <<>>
  <2>1. PICK taken \in toparse, n \in DOMAIN willparse :
          /\ taken = Last(willparse) /\ taken = willparse[n]
          /\ Front(willparse) \in Seq(toparse)
          /\ \A i \in DOMAIN Front(willparse) :
               i \in DOMAIN willparse /\ i # n /\ Front(willparse)[i] = willparse[i]
    <3>1. willparse \in Seq(toparse) /\ willparse # <<>>
      BY <1>1, <1>5 DEF ParserTyped
    <3>2. /\ Len(willparse) \in DOMAIN willparse /\ Last(willparse) = willparse[Len(willparse)]
          /\ Last(willparse) \in toparse
          /\ Front(willparse) \in Seq(toparse)
          /\ \A i \in DOMAIN Front(willparse) :
               /\ i \in DOMAIN willparse /\ i # Len(willparse)
               /\ Front(willparse)[i] = willparse[i]
      BY <3>1, LastTaken
    <3>3. QED
      BY <3>2
  <2>2. /\ hand = {} /\ hand' = {taken} /\ willparse' = Front(willparse)
        /\ feeder' = "putting" /\ UNCHANGED <<feeder_quit, jobs>>
    BY <1>1, <1>5, <2>1 DEF FeederPops, ParserTyped
  <2>3. /\ willparse' \in Seq(toparse)
        /\ \A i \in DOMAIN willparse' :
             i \in DOMAIN willparse /\ i # n /\ willparse'[i] = willparse[i]
    BY <2>1, <2>2
  <2>4. ParserTyped'
    BY <1>1, <1>2, <2>2, <2>3 DEF ParserTyped, childVars, ownVars
  <2>5. \A i \in DOMAIN willparse' : willparse'[i] # taken
    BY <1>1, <2>1, <2>3 DEF OnePlace
  <2>6. ASSUME NEW f \in Files, f # taken PROVE NotMoved(f)
    BY <1>2, <2>2, <2>3, <2>6 DEF NotMoved, childVars, ownVars
  <2>7. taken \in Files /\ Placed(taken)
    BY <1>1, <2>3 DEF ParserTyped, OnePlace
  <2>8. PICK place \in Places, p \in ParserProcesses, ok \in BOOLEAN :
          OnlyAt(taken, place, p, ok)
    BY <2>7 DEF Placed
  <2>9. place = "willparse"
    BY <2>1, <2>8 DEF OnlyAt
  <2>10. OnlyAt(taken, "hand", p, ok)'
    BY <1>2, <2>2, <2>5, <2>8, <2>9 DEF OnlyAt, childVars, ownVars
  <2>11. Placed(taken)'
    BY <2>10 DEF Placed, Places
  <2>12. OnePlace'
    BY <1>1, <2>3, <2>6, <2>11, NotMovedPlaced DEF OnePlace
  <2>13. QED
    BY <1>3, <2>4, <2>12 DEF Parsing
<1>6. CASE FeederPuts
  <2>1. PICK f \in toparse : hand = {f}
    BY <1>1, <1>6 DEF FeederPuts, ParserTyped
  <2>2. /\ jobs' = jobs \cup {f} /\ hand' = {} /\ feeder' = "popping"
        /\ UNCHANGED <<willparse, feeder_quit>>
    BY <1>6, <2>1 DEF FeederPuts
  <2>3. ParserTyped'
    BY <1>1, <1>2, <2>2 DEF ParserTyped, childVars, ownVars
  <2>4. ASSUME NEW g \in Files, g # f PROVE NotMoved(g)
    BY <1>2, <2>2, <2>4 DEF NotMoved, childVars, ownVars
  <2>5. f \in Files /\ Placed(f)
    BY <1>1 DEF ParserTyped, OnePlace
  <2>6. PICK place \in Places, p \in ParserProcesses, ok \in BOOLEAN : OnlyAt(f, place, p, ok)
    BY <2>5 DEF Placed
  <2>7. OnlyAt(f, "jobs", p, ok)'
    BY <1>2, <2>1, <2>2, <2>6 DEF OnlyAt, childVars, ownVars
  <2>8. Placed(f)'
    BY <2>7 DEF Placed, Places
  <2>9. OnePlace'
    BY <1>1, <2>2, <2>4, <2>8, NotMovedPlaced DEF OnePlace
  <2>10. QED
    BY <1>3, <2>3, <2>9 DEF Parsing
<1>7. CASE FeederFull
  <2>1. PICK f \in toparse : hand = {f}
    BY <1>1, <1>7 DEF FeederFull, ParserTyped
  <2>2. /\ willparse' = SetToSeq({f}) \o willparse /\ hand' = {} /\ feeder' = "popping"
        /\ UNCHANGED <<jobs, feeder_quit>>
    BY <1>7, <2>1 DEF FeederFull
  <2>3. /\ willparse' \in Seq(toparse)
        /\ \A i \in DOMAIN willparse' :
             \/ i = 1 /\ willparse'[i] = f
             \/ i \in Nat /\ i # 1 /\ i - 1 \in DOMAIN willparse /\ willparse'[i] = willparse[i - 1]
    <3>1. willparse \in Seq(toparse)
      BY <1>1 DEF ParserTyped
    <3> DEFINE q == SetToSeq({f}) \o willparse
    <3>2. /\ q \in Seq(toparse)
          /\ \A i \in DOMAIN q :
               \/ i = 1 /\ q[i] = f
               \/ i \in Nat /\ i # 1 /\ i - 1 \in DOMAIN willparse /\ q[i] = willparse[i - 1]
      BY <3>1, PutFirst
    <3>3. willparse' = q
      BY <2>2
    <3> HIDE DEF q
    <3>4. QED
      BY <3>2, <3>3
  <2>4. ParserTyped'
    BY <1>1, <1>2, <2>2, <2>3 DEF ParserTyped, childVars, ownVars
  <2>5. ASSUME NEW g \in Files, g # f PROVE NotMoved(g)
    BY <1>2, <2>2, <2>3, <2>5 DEF NotMoved, childVars, ownVars
  <2>6. f \in Files /\ Placed(f)
    BY <1>1 DEF ParserTyped, OnePlace
  <2>7. PICK place \in Places, p \in ParserProcesses, ok \in BOOLEAN : OnlyAt(f, place, p, ok)
    BY <2>6 DEF Placed
  <2>8. OnlyAt(f, "willparse", p, ok)'
    BY <1>2, <2>1, <2>2, <2>7 DEF OnlyAt, childVars, ownVars
  <2>9. Placed(f)'
    BY <2>8 DEF Placed, Places
  <2>10. \A i \in DOMAIN willparse : willparse[i] # f
    BY <2>1, <2>7 DEF OnlyAt
  <2>11. \A i, j \in DOMAIN willparse' : willparse'[i] = willparse'[j] => i = j
    BY <1>1, <2>3, <2>10 DEF OnePlace
  <2>12. OnePlace'
    BY <1>1, <2>5, <2>9, <2>11, NotMovedPlaced DEF OnePlace
  <2>13. QED
    BY <1>3, <2>4, <2>12 DEF Parsing
<1>8. QED
  BY <1>4, <1>5, <1>6, <1>7 DEF Feed

(***************************************************************************)
(* The parsing processes.                                                  *)
(***************************************************************************)
LEMMA ParserQuitsKeeps ==
  ASSUME Parsing, NEW p \in ParserProcesses, ParserQuits(p)
  PROVE  Parsing'
<1>1. ParserTyped /\ OnePlace /\ Tallied
  BY DEF Parsing
<1>2. /\ parser_quit > 0 /\ parser_quit' = parser_quit - 1
      /\ parser' = [parser EXCEPT ![p] = "ended"]
      /\ buffer' = [buffer EXCEPT ![p] = {}]
      /\ UNCHANGED <<job, jobs, feederVars, pipe, ownVars>>
  BY DEF ParserQuits
<1>3. /\ buffer' \in [ParserProcesses -> SUBSET Results]
      /\ \A q \in ParserProcesses : buffer'[q] \subseteq buffer[q]
      /\ parser_quit' \in Nat
      /\ parser' \in [ParserProcesses -> {"idle", "parsing", "ended"}]
  BY <1>1, <1>2 DEF ParserTyped
<1>4. ParserTyped'
  BY <1>1, <1>2, <1>3 DEF ParserTyped, feederVars, ownVars
<1>5. \A f \in Files : NotMoved(f)
  BY <1>2, <1>3 DEF NotMoved, feederVars, ownVars
<1>6. OnePlace'
  BY <1>1, <1>2, <1>5, NotMovedPlaced DEF OnePlace, feederVars
<1>7. QED
  BY <1>1, <1>2, <1>4, <1>6, NothingCounted DEF Parsing, ownVars

LEMMA ParserTakesKeeps ==
  ASSUME Parsing, NEW p \in ParserProcesses, ParserTakes(p)
  PROVE  Parsing'
<1>1. ParserTyped /\ OnePlace /\ Tallied
  BY DEF Parsing
<1>2. PICK f \in jobs :
        /\ jobs' = jobs \ {f}
        /\ job' = [job EXCEPT ![p] = {f}]
  BY DEF ParserTakes
<1>3. /\ parser' = [parser EXCEPT ![p] = "parsing"]
      /\ UNCHANGED <<buffer, parser_quit, feederVars, pipe, ownVars>>
  BY DEF ParserTakes
<1>4. f \in toparse /\ f \in Files
  BY <1>1 DEF ParserTyped
<1>5. /\ job' \in [ParserProcesses -> SUBSET toparse]
      /\ job'[p] = {f}
      /\ \A q \in ParserProcesses : q # p => job'[q] = job[q]
      /\ parser' \in [ParserProcesses -> {"idle", "parsing", "ended"}]
  BY <1>1, <1>2, <1>3, <1>4 DEF ParserTyped
<1>6. ParserTyped'
  BY <1>1, <1>2, <1>3, <1>5 DEF ParserTyped, feederVars, ownVars
<1>7. ASSUME NEW g \in Files, g # f PROVE NotMoved(g)
  BY <1>2, <1>3, <1>5, <1>7 DEF NotMoved, feederVars, ownVars
<1>8. PICK place \in Places, q \in ParserProcesses, ok \in BOOLEAN : OnlyAt(f, place, q, ok)
  BY <1>1, <1>4 DEF OnePlace, Placed
<1>9. place = "jobs"
  BY <1>8 DEF OnlyAt
<1>10. OnlyAt(f, "job", p, ok)'
  BY <1>2, <1>3, <1>5, <1>8, <1>9 DEF OnlyAt, feederVars, ownVars
<1>11. Placed(f)'
  BY <1>10 DEF Placed, Places
<1>12. OnePlace'
  BY <1>1, <1>3, <1>7, <1>11, NotMovedPlaced DEF OnePlace, feederVars
<1>13. QED
  BY <1>1, <1>3, <1>6, <1>12, NothingCounted DEF Parsing, ownVars

LEMMA ParseKeeps ==
  ASSUME Parsing, NEW p \in ParserProcesses, Parse(p)
  PROVE  Parsing'
<1>1. ParserTyped /\ OnePlace /\ Tallied
  BY DEF Parsing
<1>2. PICK ok \in BOOLEAN :
        buffer' = [buffer EXCEPT ![p] = @ \cup {[file |-> f, ok |-> ok] : f \in job[p]}]
  BY DEF Parse
<1>3. /\ job' = [job EXCEPT ![p] = {}]
      /\ parser' = [parser EXCEPT ![p] = "idle"]
      /\ UNCHANGED <<jobs, parser_quit, feederVars, pipe, ownVars>>
  BY DEF Parse
<1>4. \A f \in job[p] : f \in toparse /\ [file |-> f, ok |-> ok] \in Results
  BY <1>1 DEF ParserTyped, Results
<1>5. /\ buffer' \in [ParserProcesses -> SUBSET Results]
      /\ \A q \in ParserProcesses : q # p => buffer'[q] = buffer[q]
      /\ \A r \in buffer'[p] : r \in buffer[p] \/ (r.file \in job[p] /\ r.ok = ok)
  BY <1>1, <1>2, <1>4 DEF ParserTyped
<1>6. /\ job' \in [ParserProcesses -> SUBSET toparse]
      /\ job'[p] = {}
      /\ \A q \in ParserProcesses : q # p => job'[q] = job[q]
      /\ parser' \in [ParserProcesses -> {"idle", "parsing", "ended"}]
  BY <1>1, <1>3 DEF ParserTyped
<1>7. ParserTyped'
  <2>1. \A q \in ParserProcesses : \A r \in buffer'[q] : r.file \in toparse
    BY <1>1, <1>4, <1>5 DEF ParserTyped
  <2>2. QED
    BY <1>1, <1>3, <1>5, <1>6, <2>1 DEF ParserTyped, feederVars, ownVars
<1>8. ASSUME NEW f \in Files, f \notin job[p] PROVE Placed(f)'
  <2>1. NotMoved(f)
    BY <1>3, <1>5, <1>6, <1>8 DEF NotMoved, feederVars, ownVars
  <2>2. QED
    BY <1>1, <2>1, NotMovedPlaced DEF OnePlace
<1>9. ASSUME NEW f \in Files, f \in job[p] PROVE Placed(f)'
  <2>1. PICK place \in Places, q \in ParserProcesses, good \in BOOLEAN :
          OnlyAt(f, place, q, good)
    BY <1>1 DEF OnePlace, Placed
  <2>2. place = "job" /\ q = p
    BY <1>9, <2>1 DEF OnlyAt
  <2>3. OnlyAt(f, "buffer", p, ok)'
    BY <1>3, <1>5, <1>6, <2>1, <2>2 DEF OnlyAt, feederVars, ownVars
  <2>4. QED
    BY <2>3 DEF Placed, Places
<1>10. OnePlace'
  BY <1>1, <1>3, <1>8, <1>9 DEF OnePlace, feederVars
<1>11. QED
  BY <1>1, <1>3, <1>7, <1>10, NothingCounted DEF Parsing, ownVars

LEMMA FlushKeeps ==
  ASSUME Parsing, NEW p \in ParserProcesses, Flush(p)
  PROVE  Parsing'
<1>1. ParserTyped /\ OnePlace /\ Tallied
  BY DEF Parsing
<1>2. PICK r \in buffer[p] :
        /\ pipe' = pipe \cup {r}
        /\ buffer' = [buffer EXCEPT ![p] = @ \ {r}]
  BY DEF Flush
<1>3. UNCHANGED <<parser, job, parser_quit, jobs, feederVars, ownVars>>
  BY DEF Flush
<1>4. r \in Results /\ r.file \in toparse /\ r.file \in Files /\ r.ok \in BOOLEAN
  BY <1>1 DEF ParserTyped, Results
<1>5. /\ buffer' \in [ParserProcesses -> SUBSET Results]
      /\ \A q \in ParserProcesses : buffer'[q] \subseteq buffer[q]
      /\ r \notin buffer'[p]
  BY <1>1, <1>2 DEF ParserTyped
<1>6. ParserTyped'
  BY <1>1, <1>2, <1>3, <1>4, <1>5 DEF ParserTyped, feederVars, ownVars
<1>7. ASSUME NEW g \in Files, g # r.file PROVE Placed(g)'
  <2>1. NotMoved(g)
    BY <1>2, <1>3, <1>5, <1>7 DEF NotMoved, feederVars, ownVars
  <2>2. QED
    BY <1>1, <2>1, NotMovedPlaced DEF OnePlace
<1>8. Placed(r.file)'
  <2>1. PICK place \in Places, q \in ParserProcesses, ok \in BOOLEAN :
          OnlyAt(r.file, place, q, ok)
    BY <1>1, <1>4 DEF OnePlace, Placed
  <2>2. place = "buffer" /\ q = p /\ r.ok = ok
    BY <2>1 DEF OnlyAt
  <2>3. \A q2 \in ParserProcesses : \A x \in buffer'[q2] : x.file # r.file
    <3>1. ASSUME NEW q2 \in ParserProcesses, NEW x \in buffer'[q2], x.file = r.file PROVE FALSE
      <4>1. x \in buffer[q2] /\ q2 = p /\ x.ok = ok /\ x \in Results
        BY <1>1, <1>5, <2>1, <2>2, <3>1 DEF OnlyAt, ParserTyped
      <4>2. x = r
        BY <1>4, <2>2, <3>1, <4>1 DEF Results
      <4>3. QED
        BY <1>5, <4>1, <4>2
    <3>2. QED
      BY <3>1
  <2>4. OnlyAt(r.file, "pipe", p, ok)'
    BY <1>2, <1>3, <2>1, <2>2, <2>3 DEF OnlyAt, feederVars, ownVars
  <2>5. QED
    BY <2>4 DEF Placed, Places
<1>9. OnePlace'
  BY <1>1, <1>3, <1>7, <1>8 DEF OnePlace, feederVars
<1>10. QED
  BY <1>1, <1>3, <1>6, <1>9, NothingCounted DEF Parsing, ownVars

(***************************************************************************)
(* What the server does with them.                                         *)
(***************************************************************************)
LEMMA FilesFinite ==
  /\ NumberFiles \in Nat /\ IsFiniteSet(Files) /\ 1 \in ParserProcesses
  /\ \A S \in SUBSET Files : IsFiniteSet(S) /\ Cardinality(S) \in Nat
<1>1. NumberFiles \in Nat /\ NumberProcesses \in Nat \ {0}
  BY ParserAssumption
<1>2. IsFiniteSet(Files)
  BY <1>1, FS_Interval DEF Files
<1>3. QED
  BY <1>1, <1>2, FS_Subset, FS_CardinalityType DEF ParserProcesses

LEMMA NewParserKeeps ==
  ASSUME NewParser
  PROVE  Parsing'
<1>1. PICK todo \in 0..NumberFiles :
        /\ toparse' = 1..todo
        /\ willparse' = [i \in 1..todo |-> i]
        /\ feeder' = IF todo = 0 THEN "ended" ELSE "popping"
        /\ parser' = [p \in ParserProcesses |->
                         IF p <= num_processes_for(todo) THEN "idle" ELSE "ended"]
  BY DEF NewParser
<1>2. /\ hand' = {} /\ feeder_quit' = FALSE /\ jobs' = {} /\ pipe' = {} /\ parser_quit' = 0
      /\ job' = [p \in ParserProcesses |-> {}]
      /\ buffer' = [p \in ParserProcesses |-> {}]
      /\ parsed' = 0 /\ counted' = [f \in Files |-> 0]
      /\ error' = FALSE /\ exhausted' = FALSE /\ haveshutdown' = FALSE /\ forced' = FALSE
  BY DEF NewParser
<1>3. todo \in Nat /\ toparse' \subseteq Files
  BY <1>1, FilesFinite DEF Files
<1>4. willparse' \in Seq(toparse')
  <2>1. willparse' \in [1..todo -> toparse']
    BY <1>1
  <2>2. \A S : \A q \in [1..todo -> S] : q \in Seq(S)
    BY <1>3, SeqDef
  <2>3. QED
    BY <2>1, <2>2
<1>5. ParserTyped'
  <2>1. parser' \in [ParserProcesses -> {"idle", "parsing", "ended"}]
    BY <1>1
  <2>2. feeder' \in {"popping", "ended"}
    BY <1>1
  <2>3. QED
    BY <1>2, <1>3, <1>4, <2>1, <2>2 DEF ParserTyped
<1>6. OnePlace'
  <2>1. ASSUME NEW f \in Files PROVE Placed(f)'
    <3>1. OnlyAt(f, "willparse", 1, TRUE)'
      BY <1>2 DEF OnlyAt
    <3>2. QED
      BY <3>1, FilesFinite DEF Placed, Places
  <2>2. \A i, j \in DOMAIN willparse' : willparse'[i] = willparse'[j] => i = j
    BY <1>1
  <2>3. QED
    BY <2>1, <2>2 DEF OnePlace
<1>7. Tallied'
  <2>1. Counted' = {}
    BY <1>2 DEF Counted
  <2>2. QED
    BY <1>2, <2>1, FS_EmptySet DEF Tallied
<1>8. QED
  BY <1>5, <1>6, <1>7 DEF Parsing

LEMMA NextResultKeeps ==
  ASSUME Parsing, NextResult
  PROVE  Parsing'
<1>1. ParserTyped /\ OnePlace /\ Tallied
  BY DEF Parsing
<1>2. PICK r \in pipe :
        /\ pipe' = pipe \ {r}
        /\ IF r.ok THEN parsed' = parsed + 1 /\ counted' = [counted EXCEPT ![r.file] = @ + 1]
           ELSE UNCHANGED <<parsed, counted>>
        /\ error' = (error \/ ~r.ok)
        /\ exhausted' = ~r.ok
  BY DEF NextResult
<1>3. UNCHANGED <<toparse, haveshutdown, forced, feederVars, childVars, jobs>>
  BY DEF NextResult
<1>4. r \in Results /\ r.file \in toparse /\ r.file \in Files /\ r.ok \in BOOLEAN
  BY <1>1 DEF ParserTyped, Results
<1>5. CASE ~r.ok
  <2>1. ParserTyped'
    BY <1>1, <1>2, <1>3, <1>5 DEF ParserTyped, feederVars, childVars
  <2>2. \A f \in Files : NotMoved(f)
    BY <1>2, <1>3, <1>5 DEF NotMoved, feederVars, childVars
  <2>3. OnePlace'
    BY <1>1, <1>3, <2>2, NotMovedPlaced DEF OnePlace, feederVars
  <2>4. QED
    BY <1>1, <1>2, <1>5, <2>1, <2>3, NothingCounted DEF Parsing
<1>6. CASE r.ok
  <2>1. PICK place \in Places, q \in ParserProcesses, ok \in BOOLEAN :
          OnlyAt(r.file, place, q, ok)
    BY <1>1, <1>4 DEF OnePlace, Placed
  <2>2. place = "pipe" /\ r.ok = ok
    BY <2>1 DEF OnlyAt
  <2>3. counted[r.file] = 0
    BY <2>1, <2>2 DEF OnlyAt
  <2>4. /\ counted' \in [Files -> Nat] /\ counted'[r.file] = 1
        /\ \A f \in Files : f # r.file => counted'[f] = counted[f]
        /\ parsed' = parsed + 1
    BY <1>1, <1>2, <1>4, <1>6, <2>3 DEF ParserTyped
  <2>5. ParserTyped'
    BY <1>1, <1>2, <1>3, <1>6, <2>4 DEF ParserTyped, feederVars, childVars
  <2>6. ASSUME NEW f \in Files, f # r.file PROVE Placed(f)'
    <3>1. NotMoved(f)
      BY <1>2, <1>3, <2>4, <2>6 DEF NotMoved, feederVars, childVars
    <3>2. QED
      BY <1>1, <2>6, <3>1, NotMovedPlaced DEF OnePlace
  <2>7. \A x \in pipe' : x.file # r.file
    <3>1. ASSUME NEW x \in pipe', x.file = r.file PROVE FALSE
      <4>1. x \in pipe /\ x \in Results /\ x.ok = ok /\ x # r
        BY <1>1, <1>2, <2>1, <3>1 DEF OnlyAt, ParserTyped
      <4>2. QED
        BY <1>4, <2>2, <3>1, <4>1 DEF Results
    <3>2. QED
      BY <3>1
  <2>8. OnlyAt(r.file, "counted", q, ok)'
    BY <1>3, <1>4, <2>1, <2>2, <2>4, <2>7 DEF OnlyAt, feederVars, childVars
  <2>9. Placed(r.file)'
    BY <2>8 DEF Placed, Places
  <2>10. OnePlace'
    BY <1>1, <1>3, <2>6, <2>9 DEF OnePlace, feederVars
  <2>11. Counted' = Counted \cup {r.file} /\ r.file \notin Counted
    BY <1>4, <2>3, <2>4 DEF Counted
  <2>12. IsFiniteSet(Counted) /\ Cardinality(Counted) \in Nat
    BY FilesFinite DEF Counted
  <2>13. Tallied'
    BY <1>1, <2>4, <2>11, <2>12, FS_AddElement DEF Tallied
  <2>14. QED
    BY <2>5, <2>10, <2>13 DEF Parsing
<1>7. QED
  BY <1>5, <1>6

(* A shutdown moves no recipe.                                             *)
LEMMA ShutdownBeginsKeeps ==
  ASSUME Parsing, NEW force \in BOOLEAN, ShutdownBegins(force)
  PROVE  Parsing' /\ haveshutdown' /\ UNCHANGED <<toparse, feeder, parsed, counted, error, exhausted>>
<1>1. ParserTyped /\ OnePlace /\ Tallied
  BY DEF Parsing
<1>2. /\ haveshutdown' = TRUE /\ forced' = force /\ feeder_quit' = (feeder # "ended")
      /\ UNCHANGED <<toparse, feeder, hand, willparse, jobs, pipe, parsed, counted, error,
                     exhausted>>
  BY DEF ShutdownBegins
<1>3. UNCHANGED <<parser, job, buffer>> /\ parser_quit' \in Nat
  <2>1. Cardinality(toparse) \in Nat
    BY <1>1, FilesFinite DEF ParserTyped
  <2>2. num_processes \in Nat
    BY <2>1, ParserAssumption DEF num_processes, num_processes_for
  <2>3. QED
    BY <2>2 DEF ShutdownBegins
<1>4. ParserTyped'
  BY <1>1, <1>2, <1>3 DEF ParserTyped
<1>5. \A f \in Files : NotMoved(f)
  BY <1>2, <1>3 DEF NotMoved
<1>6. OnePlace'
  BY <1>1, <1>2, <1>5, NotMovedPlaced DEF OnePlace
<1>7. QED
  BY <1>1, <1>2, <1>4, <1>6, NothingCounted DEF Parsing

(***************************************************************************)
(* The steps of the server and of its user interface.                      *)
(***************************************************************************)
Serving == ServerTyped /\ Ended /\ Done /\ Current /\ Fresh

LEMMA NothingParsed ==
  ASSUME UNCHANGED parserVars
  PROVE  /\ Parsing => Parsing'
         /\ UNCHANGED <<toparse, parsed, counted, error, exhausted, haveshutdown>>
         /\ JoinsReturn' <=> JoinsReturn
<1>1. UNCHANGED <<toparse, feeder, hand, willparse, feeder_quit, jobs, parser, job, buffer,
                  parser_quit, pipe, parsed, counted, error, exhausted, haveshutdown, forced>>
  BY DEF parserVars
<1>2. Parsing => Parsing'
  BY <1>1 DEF Parsing, ParserTyped, OnePlace, Placed, OnlyAt, Tallied, Counted
<1>3. QED
  BY <1>1, <1>2 DEF JoinsReturn, ParsersEnded

(* The processes of a parse run while the server does what it does; those  *)
(* that have ended do nothing more.                                        *)
LEMMA ChildrenKeep ==
  ASSUME IInv, Children
  PROVE  IInv'
<1>1. Parsing /\ ServerTyped /\ Ended /\ Done /\ Current /\ Fresh
  BY DEF IInv
<1>2. UNCHANGED serverVars
  BY DEF Children
<1>3. Feed \/ \E p \in ParserProcesses : ParserStep(p) \/ Flush(p)
  BY DEF Children, ParserSteps
<1>4. Parsing'
  BY <1>1, <1>3, FeederKeeps, ParserQuitsKeeps, ParserTakesKeeps, ParseKeeps, FlushKeeps
  DEF ParserStep
<1>5. UNCHANGED <<toparse, parsed, counted, error, exhausted, haveshutdown>>
  BY <1>3
  DEF Feed, FeederQuits, FeederPops, FeederPuts, FeederFull, ParserStep, ParserQuits,
      ParserTakes, Parse, Flush, ownVars
<1>6. JoinsReturn => JoinsReturn'
  BY <1>3
  DEF Feed, FeederQuits, FeederPops, FeederPuts, FeederFull, ParserStep, ParserQuits,
      ParserTakes, Parse, Flush, JoinsReturn, ParsersEnded, feederVars, childVars, ownVars
<1>7. QED
  BY <1>1, <1>2, <1>4, <1>5, <1>6
  DEF IInv, serverVars, ServerTyped, Ended, Done, Current, Fresh

(* Steps that leave the parser alone.                                      *)
LEMMA LoopKeeps ==
  ASSUME IInv, UNCHANGED parserVars,
         \/ NoCommand \/ RunAsync \/ NothingIdle \/ Joined
         \/ AsyncRaises \/ ContinueParsing \/ Running \/ RunMethod
         \/ BuildGoesOn \/ BuildFinishes \/ BuildRaises \/ FilesChanged
  PROVE  IInv'
<1>1. Parsing /\ ServerTyped /\ Ended /\ Done /\ Current /\ Fresh
  BY DEF IInv
<1>2. /\ Parsing'
      /\ UNCHANGED <<toparse, parsed, counted, error, exhausted, haveshutdown>>
      /\ JoinsReturn' <=> JoinsReturn
  BY <1>1, NothingParsed
<1>3. NoCommand => Serving'
  BY <1>1, <1>2
  DEF Serving, NoCommand, AfterCommand, ServerTyped, AfterJoin, Ended, Done, Current, Fresh
<1>4. ASSUME RunAsync PROVE Serving'
  <2>1. ServerTyped'
    <3>1. /\ stale' \in {stale, "command"} /\ current' \in AsyncCommands
          /\ idlefuns' = idlefuns \cup {"runCommands"}
          /\ phase' \in {"quit", "idle"} /\ commands' = commands + 1
          /\ UNCHANGED <<then, state, parsecache_valid, quit, changes>>
      BY <1>4 DEF RunAsync, AfterCommand
    <3>2. QED
      BY <1>1, <3>1 DEF ServerTyped, AfterJoin
  <2>2. Ended' /\ Done'
    BY <1>1, <1>2, <1>4 DEF RunAsync, AfterCommand, Ended, Done
  <2>3. Current'
    BY <1>1, <1>4 DEF RunAsync, AfterCommand, AsyncCommands, Current
  <2>4. Fresh'
    BY <1>1, <1>4 DEF RunAsync, Fresh, Current
  <2>5. QED
    BY <2>1, <2>2, <2>3, <2>4 DEF Serving
<1>5. NothingIdle => Serving'
  BY <1>1, <1>2
  DEF Serving, NothingIdle, ServerTyped, AfterJoin, Ended, Done, Current, Fresh
<1>6. Joined => Serving'
  BY <1>1, <1>2
  DEF Serving, Joined, AfterJoin, ServerTyped, AfterJoin, Ended, Done, Current, Fresh
<1>7. AsyncRaises => Serving'
  BY <1>1, <1>2
  DEF Serving, AsyncRaises, finishAsyncCommand, ServerTyped, AfterJoin, Ended, Done, Current, Fresh
<1>8. ContinueParsing => Serving'
  BY <1>1, <1>2
  DEF Serving, ContinueParsing, runAsync, NeedsParse, ServerTyped, AfterJoin, Ended, Done, Current, Fresh
<1>9. Running => Serving'
  BY <1>1, <1>2
  DEF Serving, Running, ServerTyped, AfterJoin, Ended, Done, Current, Fresh
<1>10. ASSUME RunMethod PROVE Serving'
  <2>1. ServerTyped'
    BY <1>1, <1>10 DEF RunMethod, runAsync, NeedsParse, finishAsyncCommand, ServerTyped
  <2>2. Ended' /\ Done'
    BY <1>1, <1>2, <1>10 DEF RunMethod, runAsync, NeedsParse, finishAsyncCommand, Ended, Done
  <2>3. Current'
    BY <1>1, <1>10 DEF RunMethod, runAsync, NeedsParse, finishAsyncCommand, Current, Ended
  <2>4. Fresh'
    BY <1>1, <1>10 DEF RunMethod, runAsync, NeedsParse, finishAsyncCommand, Fresh, Current
  <2>5. QED
    BY <2>1, <2>2, <2>3, <2>4 DEF Serving
<1>11. BuildGoesOn => Serving'
  BY <1>1, <1>2
  DEF Serving, BuildGoesOn, runBuild, ServerTyped, AfterJoin, Ended, Done, Current, Fresh
<1>12. BuildFinishes => Serving'
  BY <1>1, <1>2
  DEF Serving, BuildFinishes, runBuild, finishAsyncCommand, ServerTyped, AfterJoin, Ended, Done, Current, Fresh
<1>13. BuildRaises => Serving'
  BY <1>1, <1>2
  DEF Serving, BuildRaises, runBuild, ServerTyped, AfterJoin, Ended, Done, Current, Fresh
<1>14. ASSUME FilesChanged PROVE Serving'
  <2>1. ServerTyped'
    <3>1. stale' \in {stale, "later"} /\ changes' = changes + 1 /\ parsecache_valid' = FALSE
      BY <1>14 DEF FilesChanged
    <3>2. stale' \in {"none", "command", "later"} /\ changes' \in Nat
      BY <1>1, <3>1 DEF ServerTyped
    <3>3. QED
      BY <1>1, <1>14, <3>1, <3>2 DEF FilesChanged, ServerTyped
  <2>2. Ended' /\ Done'
    BY <1>1, <1>2, <1>14 DEF FilesChanged, Ended, Done
  <2>3. Current'
    BY <1>1, <1>14 DEF FilesChanged, Current
  <2>4. Fresh'
    BY <1>1, <1>14 DEF FilesChanged, Fresh, Current
  <2>5. QED
    BY <2>1, <2>2, <2>3, <2>4 DEF Serving
<1>15. Serving'
  BY <1>3, <1>4, <1>5, <1>6, <1>7, <1>8, <1>9, <1>10, <1>11, <1>12, <1>13, <1>14
<1>16. QED
  BY <1>2, <1>15 DEF IInv, Serving

(* A shutdown of the parser begins its joins, or has nothing to do because *)
(* there are no processes any more.                                        *)
LEMMA ParserShutdownKeeps ==
  ASSUME IInv, phase # "join",
         NEW force \in BOOLEAN, NEW next \in AfterJoin, ParserShutdown(force, next),
         state' \in {state, "shutdown", "forceshutdown"}, state' # "running",
         next = "parsed" => state' = "parsing" /\ parsed >= Cardinality(toparse) /\ ~error,
         quit' \in BOOLEAN, commands' \in Nat,
         UNCHANGED <<current, idlefuns, parsecache_valid, changes, stale>>
  PROVE  IInv'
<1>1. Parsing /\ ServerTyped /\ Ended /\ Done /\ Current /\ Fresh
  BY DEF IInv
<1>2. /\ Parsing'
      /\ UNCHANGED <<toparse, parsed, error, exhausted>>
      /\ \/ phase' = "join" /\ then' = next /\ haveshutdown' /\ toparse # {}
         \/ phase' = next /\ then' = "none" /\ JoinsReturn'
  <2>1. CASE ShutsDown
    <3>1. ShutdownBegins(force) /\ phase' = "join" /\ then' = next
      BY <2>1 DEF ParserShutdown
    <3>2. toparse # {}
      BY <2>1 DEF ShutsDown, Started
    <3>3. QED
      BY <1>1, <3>1, <3>2, ShutdownBeginsKeeps
  <2>2. CASE ~ShutsDown
    <3>1. UNCHANGED parserVars /\ phase' = next /\ then' = "none"
      BY <2>2 DEF ParserShutdown
    <3>2. JoinsReturn
      BY <1>1, <2>2 DEF ShutsDown, Started, Ended
    <3>3. QED
      BY <1>1, <3>1, <3>2, NothingParsed
  <2>3. QED
    BY <2>1, <2>2
<1>3. ServerTyped'
  BY <1>1, <1>2 DEF ServerTyped, AfterJoin
<1>4. Ended'
  BY <1>2 DEF Ended, AfterJoin
<1>5. Done'
  <2>1. phase' = "parsed" \/ then' = "parsed" => next = "parsed"
    BY <1>2 DEF AfterJoin
  <2>2. QED
    BY <1>1, <1>2, <2>1 DEF Done
<1>6. Current' /\ Fresh'
  <2>1. phase' \in {"generator", "parse_failed", "parsed"} \/ then' = "parsed" => next = "parsed"
    BY <1>2 DEF AfterJoin
  <2>2. state' \in {"parsing", "running"} => state' = state
    OBVIOUS
  <2>3. QED
    BY <1>1, <2>1, <2>2 DEF Current, Fresh
<1>7. QED
  BY <1>2, <1>3, <1>4, <1>5, <1>6 DEF IInv

LEMMA ShutdownsKeep ==
  ASSUME IInv, RunSync \/ RecvQuit \/ Exit \/ AsyncStopped \/ ParseFailed \/ ParseDone
  PROVE  IInv'
<1>1. Parsing /\ ServerTyped /\ Ended /\ Done /\ Current /\ Fresh
  BY DEF IInv
<1>2. CASE RunSync
  <2>1. /\ phase = "command" /\ commands' = commands + 1
        /\ UNCHANGED <<current, idlefuns, parsecache_valid, quit, changes, stale>>
    BY <1>2 DEF RunSync
  <2>2. PICK force \in BOOLEAN, next \in AfterCommand :
          /\ state' = IF force THEN "forceshutdown" ELSE "shutdown"
          /\ ParserShutdown(force, next)
    BY <1>2 DEF RunSync, shutdown
  <2>3. quit' \in BOOLEAN /\ commands' \in Nat
    BY <1>1, <2>1 DEF ServerTyped
  <2>4. state' \in {"shutdown", "forceshutdown"}
    BY <2>2
  <2>5. next \in AfterJoin /\ next # "parsed"
    BY DEF AfterCommand, AfterJoin
  <2>6. QED
    BY <2>1, <2>2, <2>3, <2>4, <2>5, ParserShutdownKeeps
<1>3. CASE RecvQuit
  <2>1. /\ phase = "quit" /\ quit' = TRUE
        /\ state' = "forceshutdown" /\ ParserShutdown(TRUE, "idle")
        /\ UNCHANGED <<current, idlefuns, parsecache_valid, commands, changes, stale>>
    BY <1>3 DEF RecvQuit, shutdown
  <2>2. "idle" \in AfterJoin /\ commands' \in Nat
    BY <1>1, <2>1 DEF AfterJoin, ServerTyped
  <2>3. QED
    BY <2>1, <2>2, ParserShutdownKeeps
<1>4. CASE Exit
  <2>1. /\ phase = "exit"
        /\ state' = "forceshutdown" /\ ParserShutdown(TRUE, "ended")
        /\ UNCHANGED <<current, idlefuns, parsecache_valid, quit, commands, changes, stale>>
    BY <1>4 DEF Exit, shutdown
  <2>2. "ended" \in AfterJoin /\ quit' \in BOOLEAN /\ commands' \in Nat
    BY <1>1, <2>1 DEF AfterJoin, ServerTyped
  <2>3. QED
    BY <2>1, <2>2, ParserShutdownKeeps
<1>5. CASE AsyncStopped \/ ParseFailed
  <2>1. \E force \in BOOLEAN : ParserShutdown(force, "raise")
    BY <1>5 DEF AsyncStopped, ParseFailed
  <2>2. /\ phase # "join" /\ state # "running"
        /\ UNCHANGED <<state, current, idlefuns, parsecache_valid, quit, commands, changes, stale>>
    BY <1>1, <1>5 DEF AsyncStopped, runAsync, Stopping, ParseFailed, Current
  <2>3. "raise" \in AfterJoin /\ quit' \in BOOLEAN /\ commands' \in Nat
    BY <1>1, <2>2 DEF AfterJoin, ServerTyped
  <2>4. QED
    BY <2>1, <2>2, <2>3, ParserShutdownKeeps
<1>6. CASE ParseDone
  <2> DEFINE next == IF error THEN "raise" ELSE "parsed"
  <2>1. /\ phase = "generator" /\ Exhausted /\ ParserShutdown(FALSE, next)
        /\ UNCHANGED <<state, current, idlefuns, parsecache_valid, quit, commands, changes, stale>>
    BY <1>6 DEF ParseDone
  <2>2. state = "parsing" /\ next \in AfterJoin /\ quit' \in BOOLEAN /\ commands' \in Nat
    BY <1>1, <2>1 DEF AfterJoin, ServerTyped, Current
  <2>3. next = "parsed" => parsed >= Cardinality(toparse) /\ ~error
    BY <1>1, <2>1 DEF Exhausted, Done
  <2> HIDE DEF next
  <2>4. QED
    BY <2>1, <2>2, <2>3, ParserShutdownKeeps
<1>7. QED
  BY <1>2, <1>3, <1>4, <1>5, <1>6

LEMMA StartParsingKeeps ==
  ASSUME IInv, StartParsing
  PROVE  IInv'
<1>1. Parsing /\ ServerTyped /\ Ended /\ Done /\ Current /\ Fresh
  BY DEF IInv
<1>2. /\ phase = "idle" /\ current # "none" /\ then = "none"
      /\ state' = "parsing" /\ phase' = "generator"
      /\ UNCHANGED <<then, current, idlefuns, quit, commands,
                     changes>>
  BY <1>1 DEF StartParsing, runAsync, NeedsParse, Ended
<1>3. CASE parsecache_valid
  <2>1. UNCHANGED <<parserVars, parsecache_valid, stale>>
    BY <1>3 DEF StartParsing
  <2>2. /\ Parsing'
        /\ UNCHANGED <<toparse, parsed, counted, error, exhausted, haveshutdown>>
        /\ JoinsReturn' <=> JoinsReturn
    BY <1>1, <2>1, NothingParsed
  <2>3. stale = "none"
    BY <1>1, <1>3 DEF Fresh
  <2>4. ServerTyped'
    BY <1>1, <1>2, <2>1 DEF ServerTyped
  <2>5. Ended' /\ Done'
    BY <1>1, <1>2, <2>2 DEF Ended, Done
  <2>6. Current' /\ Fresh'
    BY <1>2, <2>1, <2>3 DEF Current, Fresh
  <2>7. QED
    BY <2>2, <2>4, <2>5, <2>6 DEF IInv
<1>4. CASE ~parsecache_valid
  <2>1. NewParser /\ parsecache_valid' = TRUE /\ stale' = "none"
    BY <1>4 DEF StartParsing
  <2>2. Parsing'
    BY <2>1, NewParserKeeps
  <2>3. ~haveshutdown' /\ ~exhausted' /\ (toparse' = {} => JoinsReturn')
    <3>1. haveshutdown' = FALSE /\ exhausted' = FALSE
      BY <2>1 DEF NewParser
    <3>2. PICK todo \in 0..NumberFiles :
            /\ toparse' = 1..todo
            /\ feeder' = IF todo = 0 THEN "ended" ELSE "popping"
            /\ parser' = [p \in ParserProcesses |->
                             IF p <= num_processes_for(todo) THEN "idle" ELSE "ended"]
      BY <2>1 DEF NewParser
    <3>3. ASSUME toparse' = {} PROVE JoinsReturn'
      <4>1. todo = 0
        BY <3>2, <3>3, FilesFinite
      <4>2. num_processes_for(todo) = 0
        BY <4>1, ParserAssumption DEF num_processes_for
      <4>3. \A p \in ParserProcesses : ~(p <= num_processes_for(todo))
        BY <4>2 DEF ParserProcesses
      <4>4. QED
        BY <3>2, <4>1, <4>3 DEF JoinsReturn, ParsersEnded
    <3>4. QED
      BY <3>1, <3>3
  <2>4. ServerTyped'
    BY <1>1, <1>2, <2>1 DEF ServerTyped
  <2>5. Ended' /\ Done'
    BY <1>2, <2>3 DEF Ended, Done
  <2>6. Current' /\ Fresh'
    BY <1>2, <2>1 DEF Current, Fresh
  <2>7. QED
    BY <2>2, <2>4, <2>5, <2>6 DEF IInv
<1>5. QED
  BY <1>3, <1>4

LEMMA ParseNextKeeps ==
  ASSUME IInv, ParseNext
  PROVE  IInv'
<1>1. Parsing /\ ServerTyped /\ Ended /\ Done /\ Current /\ Fresh
  BY DEF IInv
<1>2. /\ phase = "generator" /\ NextResult
      /\ phase' = IF error' THEN "parse_failed" ELSE IF quit THEN "exit" ELSE "command"
      /\ UNCHANGED <<then, state, current, idlefuns, parsecache_valid, quit, commands, changes, stale>>
  BY DEF ParseNext
<1>3. state = "parsing" /\ then = "none"
  BY <1>1, <1>2 DEF Current, Ended
<1>4. Parsing'
  BY <1>1, <1>2, NextResultKeeps
<1>5. /\ UNCHANGED <<toparse, haveshutdown>> /\ (exhausted' => error')
      /\ JoinsReturn' <=> JoinsReturn
  BY <1>2 DEF NextResult, feederVars, childVars, JoinsReturn, ParsersEnded
<1>6. phase' \in {"parse_failed", "exit", "command"}
  BY <1>2
<1>7. ServerTyped'
  BY <1>1, <1>2, <1>6 DEF ServerTyped
<1>8. Ended' /\ Done'
  BY <1>1, <1>2, <1>3, <1>5, <1>6 DEF Ended, Done
<1>9. Current' /\ Fresh'
  BY <1>1, <1>2, <1>3 DEF Current, Fresh
<1>10. QED
  BY <1>4, <1>7, <1>8, <1>9 DEF IInv

(***************************************************************************)
(* The specification.                                                      *)
(***************************************************************************)
LEMMA InitIInv ==
  ASSUME Init
  PROVE  IInv
<1>1. ParserInit
  BY DEF Init
<1>2. ParserTyped
  <2>1. <<>> \in Seq(toparse)
    OBVIOUS
  <2>2. QED
    BY <1>1, <2>1 DEF ParserInit, ParserTyped
<1>3. OnePlace
  <2>1. ASSUME NEW f \in Files PROVE Placed(f)
    <3>1. OnlyAt(f, "willparse", 1, TRUE)
      BY <1>1 DEF ParserInit, OnlyAt
    <3>2. QED
      BY <3>1, FilesFinite DEF Placed, Places
  <2>2. DOMAIN willparse = {}
    BY <1>1 DEF ParserInit
  <2>3. QED
    BY <2>1, <2>2 DEF OnePlace
<1>4. Tallied
  <2>1. Counted = {}
    BY <1>1 DEF ParserInit, Counted
  <2>2. QED
    BY <1>1, <2>1, FS_EmptySet DEF ParserInit, Tallied
<1>5. JoinsReturn
  BY <1>1 DEF ParserInit, JoinsReturn, ParsersEnded
<1>6. ServerTyped
  BY DEF Init, ServerTyped
<1>7. Ended /\ Done /\ Current /\ Fresh
  BY <1>1, <1>5 DEF Init, ParserInit, Ended, Done, Current, Fresh
<1>8. QED
  BY <1>2, <1>3, <1>4, <1>6, <1>7 DEF IInv, Parsing

LEMMA NextIInv ==
  ASSUME IInv, [Next]_vars
  PROVE  IInv'
<1>1. CASE Children
  BY <1>1, ChildrenKeep
<1>2. CASE RunSync \/ RecvQuit \/ Exit \/ AsyncStopped \/ ParseFailed \/ ParseDone
  BY <1>2, ShutdownsKeep
<1>3. CASE StartParsing
  BY <1>3, StartParsingKeeps
<1>4. CASE ParseNext
  BY <1>4, ParseNextKeeps
<1>5. CASE \/ FilesChanged \/ NoCommand \/ RunAsync \/ NothingIdle \/ Joined
           \/ AsyncRaises \/ ContinueParsing \/ Running \/ RunMethod
           \/ BuildGoesOn \/ BuildFinishes \/ BuildRaises
  <2>1. UNCHANGED parserVars
    BY <1>5
    DEF FilesChanged, NoCommand, RunAsync, NothingIdle, Joined, AsyncRaises, ContinueParsing,
        Running, RunMethod, BuildGoesOn, BuildFinishes, BuildRaises
  <2>2. QED
    BY <1>5, <2>1, LoopKeeps
<1>6. CASE UNCHANGED vars
  <2>1. UNCHANGED parserVars /\ UNCHANGED serverVars
    BY <1>6 DEF vars
  <2>2. QED
    BY <2>1, NothingParsed
    DEF IInv, serverVars, ServerTyped, Ended, Done, Current, Fresh
<1>7. QED
  BY <1>1, <1>2, <1>3, <1>4, <1>5, <1>6 DEF Next, Main

(* For any number of recipes, processes, commands and changes, and any     *)
(* size of the pipe.                                                       *)
THEOREM Invariance == Spec => []IInv
<1>1. Init => IInv
  BY InitIInv
<1>2. IInv /\ [Next]_vars => IInv'
  BY NextIInv
<1>3. QED
  BY <1>1, <1>2, PTL DEF Spec

(* No recipe is lost or parsed twice between the feeder, the processes and *)
(* the server (CookerParser) before a command runs, although the server    *)
(* only compares two numbers and results may come after a shutdown; the    *)
(* feeder has ended, and the parsers unless a forced shutdown ended the    *)
(* parse.                                                                  *)
THEOREM ParseCompleteHolds == Spec => []ParseComplete
<1>1. IInv => ParseComplete
  <2> SUFFICES ASSUME IInv, state = "running"
               PROVE  /\ \A f \in Files : counted[f] = IF f \in toparse THEN 1 ELSE 0
                      /\ ~error
                      /\ feeder = "ended"
                      /\ forced \/ ParsersEnded
    BY DEF ParseComplete
  <2>1. Parsing /\ Ended /\ Done
    BY DEF IInv
  <2>2. parsed >= Cardinality(toparse) /\ JoinsReturn /\ ~error
    BY <2>1 DEF Ended, Done
  <2>3. \A f \in Files : counted[f] # 0 => counted[f] = 1 /\ f \in toparse
    BY <2>1 DEF Parsing, OnePlace, Placed, OnlyAt
  <2>4. Counted \subseteq toparse /\ toparse \subseteq Files
    BY <2>1, <2>3 DEF Parsing, ParserTyped, Counted
  <2>5. Cardinality(Counted) >= Cardinality(toparse)
    BY <2>1, <2>2 DEF Parsing, Tallied
  <2>6. Counted = toparse
    <3>1. IsFiniteSet(toparse) /\ Cardinality(toparse) \in Nat /\ Cardinality(Counted) \in Nat
      BY <2>4, FilesFinite
    <3>2. Cardinality(Counted) <= Cardinality(toparse)
      BY <2>4, <3>1, FS_Subset
    <3>3. QED
      BY <2>4, <2>5, <3>1, <3>2, FS_Subset
  <2>7. \A f \in Files : counted[f] = IF f \in toparse THEN 1 ELSE 0
    BY <2>3, <2>4, <2>6 DEF Counted
  <2>8. QED
    BY <2>2, <2>7 DEF JoinsReturn
<1>2. QED
  BY <1>1, Invariance, PTL

(* What a command runs on takes account of every change that was reported  *)
(* before the command was accepted (updateCache, parsecache_valid).        *)
THEOREM FreshParseHolds == Spec => []FreshParse
<1>1. IInv => FreshParse
  BY DEF IInv, Fresh, FreshParse
<1>2. QED
  BY <1>1, Invariance, PTL

-------------------------------------------------------------------------------
(***************************************************************************)
(* The lock of bb.utils.lockfile: bitbake.lock, which a server holds while *)
(* it runs so that no other one runs in the same build directory, and the  *)
(* lock files of downloads, of tasks and of the caches.  For any number of *)
(* processes, whatever arguments each calls lockfile with.                 *)
(***************************************************************************)

(* A lock excludes the others on the same file: what flock grants.             *)
LocksCompatible ==
    \A p, q \in Procs :
        p # q /\ lf[p] = lf[q] /\ flock[p] = "ex" => flock[q] = "none"

(* Who was given the lock, or is about to remove the file, has the file the    *)
(* name leads to: that is why the removal hits nobody else's lock.             *)
HolderHasLockFile ==
    ~overtaken => \A p \in Procs : pc[p] \in {"held", "unlink"} => name = lf[p]

LockInv == LockTypeOK /\ LocksCompatible /\ HolderHasLockFile

LEMMA InitLockInv == LockInit => LockInv
  BY NoneAssumption DEF LockInit, LockInv, LockTypeOK, LocksCompatible, HolderHasLockFile, Labels

LEMMA CallersType == ASSUME request \in Callers, NEW p \in Procs
                     PROVE  request[p] \in [shared : BOOLEAN, retry : BOOLEAN, block : BOOLEAN]
  BY RequestsAssumption DEF Callers

(* The parts of the invariant under a step of process p. *)
LEMMA StepTypeOK ==
  ASSUME LockInv, NEW p \in Procs, Call(p) \/ Step(p) \/ CloseOnly(p) \/ Die(p)
  PROVE  LockTypeOK'
<1> USE NoneAssumption DEF LockInv, LockTypeOK, Labels, Goto, mode
<1>1. CASE Call(p)  BY <1>1 DEF Call
<1>2. CASE Open(p)  BY <1>2 DEF Open
<1>3. CASE Flock(p)  BY <1>3 DEF Flock
<1>4. CASE FlockRaises(p)  BY <1>4, CallersType DEF FlockRaises, Again, Close
<1>5. CASE Exists(p)  BY <1>5 DEF Exists
<1>6. CASE Stat(p)  BY <1>6 DEF Stat
<1>7. CASE Replaced(p)  BY <1>7, CallersType DEF Replaced, Again, Close
<1>8. CASE Promote(p)  BY <1>8 DEF Promote
<1>9. CASE PromoteGivesUp(p)  BY <1>9 DEF PromoteGivesUp
<1>10. CASE PromoteTakes(p)  BY <1>10 DEF PromoteTakes
<1>11. CASE PromoteFails(p)  BY <1>11 DEF PromoteFails
<1>12. CASE Unlink(p)  BY <1>12 DEF Unlink
<1>13. CASE Unlock(p)  BY <1>13 DEF Unlock, Close
<1>14. CASE CloseOnly(p)  BY <1>14 DEF CloseOnly, Close
<1>15. CASE Die(p)  BY <1>15 DEF Die, Close
<1> QED
  BY <1>1, <1>2, <1>3, <1>4, <1>5, <1>6, <1>7, <1>8, <1>9, <1>10, <1>11, <1>12, <1>13, <1>14, <1>15 DEF Step

LEMMA StepLocksCompatible ==
  ASSUME LockInv, NEW p \in Procs, Call(p) \/ Step(p) \/ CloseOnly(p) \/ Die(p)
  PROVE  LocksCompatible'
<1> USE NoneAssumption DEF LockInv, LockTypeOK, LocksCompatible, Goto
<1>1. CASE Call(p)  BY <1>1 DEF Call
<1>2. CASE Open(p)  BY <1>2 DEF Open
<1>3. CASE Flock(p)  BY <1>3 DEF Flock, CanLock, mode
<1>4. CASE FlockRaises(p)  BY <1>4 DEF FlockRaises, Again, Close
<1>5. CASE Exists(p)  BY <1>5 DEF Exists
<1>6. CASE Stat(p)  BY <1>6 DEF Stat
<1>7. CASE Replaced(p)  BY <1>7 DEF Replaced, Again, Close
<1>8. CASE Promote(p)  BY <1>8 DEF Promote
<1>9. CASE PromoteGivesUp(p)  BY <1>9 DEF PromoteGivesUp
<1>10. CASE PromoteTakes(p)  BY <1>10 DEF PromoteTakes, CanLock
<1>11. CASE PromoteFails(p)  BY <1>11 DEF PromoteFails
<1>12. CASE Unlink(p)  BY <1>12 DEF Unlink
<1>13. CASE Unlock(p)  BY <1>13 DEF Unlock, Close
<1>14. CASE CloseOnly(p)  BY <1>14 DEF CloseOnly, Close
<1>15. CASE Die(p)  BY <1>15 DEF Die, Close
<1> QED
  BY <1>1, <1>2, <1>3, <1>4, <1>5, <1>6, <1>7, <1>8, <1>9, <1>10, <1>11, <1>12, <1>13, <1>14, <1>15 DEF Step

LEMMA StepHolderHasLockFile ==
  ASSUME LockInv, NEW p \in Procs, Call(p) \/ Step(p) \/ CloseOnly(p) \/ Die(p)
  PROVE  HolderHasLockFile'
<1> USE NoneAssumption DEF LockInv, LockTypeOK, HolderHasLockFile, Goto
<1>1. CASE Call(p)  BY <1>1 DEF Call
<1>2. CASE Open(p)
  (* A file is made only when the name leads nowhere: then nobody holds it. *)
  BY <1>2 DEF Open
<1>3. CASE Flock(p)  BY <1>3 DEF Flock
<1>4. CASE FlockRaises(p)  BY <1>4, CallersType DEF FlockRaises, Again, Close
<1>5. CASE Exists(p)  BY <1>5 DEF Exists
<1>6. CASE Stat(p)  BY <1>6 DEF Stat, IsLockFile
<1>7. CASE Replaced(p)  BY <1>7, CallersType DEF Replaced, Again, Close
<1>8. CASE Promote(p)  BY <1>8 DEF Promote
<1>9. CASE PromoteGivesUp(p)  BY <1>9 DEF PromoteGivesUp
<1>10. CASE PromoteTakes(p)  BY <1>10 DEF PromoteTakes
<1>11. CASE PromoteFails(p)  BY <1>11 DEF PromoteFails
<1>12. CASE Unlink(p)
  (* The others that hold the lock would share p's file, which p locks alone. *)
  <2> SUFFICES ASSUME ~overtaken', NEW q \in Procs, pc'[q] \in {"held", "unlink"}
               PROVE  FALSE
    BY DEF HolderHasLockFile
  <2>1. q # p /\ pc[q] \in {"held", "unlink"} /\ ~overtaken
    BY <1>12 DEF Unlink
  <2>2. lf[q] = lf[p] /\ flock[p] = "ex"
    BY <1>12, <2>1 DEF Unlink
  <2>3. flock[q] = "none"
    BY <2>1, <2>2 DEF LocksCompatible
  <2>4. flock[q] \in {"sh", "ex"}
    BY <2>1 DEF mode
  <2> QED
    BY <2>3, <2>4
<1>13. CASE Unlock(p)  BY <1>13 DEF Unlock, Close
<1>14. CASE CloseOnly(p)  BY <1>14 DEF CloseOnly, Close
<1>15. CASE Die(p)  BY <1>15 DEF Die, Close
<1> QED
  BY <1>1, <1>2, <1>3, <1>4, <1>5, <1>6, <1>7, <1>8, <1>9, <1>10, <1>11, <1>12, <1>13, <1>14, <1>15 DEF Step

LEMMA NextLockInv == LockInv /\ [LockNext]_lockVars => LockInv'
<1> SUFFICES ASSUME LockInv, [LockNext]_lockVars PROVE LockInv'
  OBVIOUS
<1>1. CASE UNCHANGED lockVars
  BY <1>1 DEF lockVars, LockInv, LockTypeOK, LocksCompatible, HolderHasLockFile, mode
<1>2. CASE LockNext
  BY <1>2, StepTypeOK, StepLocksCompatible, StepHolderHasLockFile DEF LockNext, LockInv
<1> QED
  BY <1>1, <1>2

LEMMA LockInvariance == LockSpec => []LockInv
  BY InitLockInv, NextLockInv, PTL DEF LockSpec

(* Each process's lock is of the kind it asked for, on a file it has open.     *)
THEOREM LockTypeCorrect == LockSpec => []LockTypeOK
<1>1. LockInv => LockTypeOK
  BY DEF LockInv
<1> QED
  BY <1>1, LockInvariance, PTL

(* lockfile gives the lock to one process, or to several that all asked for a  *)
(* shared one, on the file that is in place, until a promotion is overtaken.   *)
THEOREM MutualExclusion == LockSpec => []Exclusive
<1>1. LockInv => Exclusive
  <2> SUFFICES ASSUME LockInv, ~overtaken, NEW p \in Procs, pc[p] = "held"
               PROVE  /\ name = lf[p]
                      /\ \A q \in Procs \ {p} :
                            pc[q] = "held" => request[p].shared /\ request[q].shared
    BY DEF Exclusive
  <2>1. name = lf[p]
    BY DEF LockInv, HolderHasLockFile
  <2>2. ASSUME NEW q \in Procs \ {p}, pc[q] = "held"
        PROVE  request[p].shared /\ request[q].shared
    <3>1. lf[q] = lf[p]
      BY <2>1, <2>2 DEF LockInv, HolderHasLockFile
    <3>2. flock[p] # "none" /\ flock[q] # "none"
      BY <2>2 DEF LockInv, LockTypeOK, mode
    <3>3. flock[p] # "ex" /\ flock[q] # "ex"
      BY <2>2, <3>1, <3>2 DEF LockInv, LocksCompatible
    <3> QED
      BY <2>2, <3>3, CallersType DEF LockInv, LockTypeOK, mode
  <2> QED
    BY <2>1, <2>2
<1> QED
  BY <1>1, LockInvariance, PTL

-------------------------------------------------------------------------------

(* No caller asks for a shared lock: no promotion can be overtaken.            *)
ExclusiveOnly == \A p \in Procs : \A r \in Requests[p] : ~r.shared

NoPromotion ==
    /\ ~overtaken
    /\ \A p \in Procs : pc[p] # "promote" /\ flock[p] # "sh" /\ ~request[p].shared

(* bitbake.lock, the fetchers and the tasks' lockfiles are only ever taken     *)
(* exclusively: for them the promise of lockfile has no exception.             *)
THEOREM ExclusiveLocks == ASSUME ExclusiveOnly PROVE LockSpec => []AlwaysExclusive
<1>1. LockInit => NoPromotion
  BY RequestsAssumption DEF LockInit, NoPromotion, Callers, ExclusiveOnly
<1>2. LockInv /\ NoPromotion /\ [LockNext]_lockVars => NoPromotion'
  <2> SUFFICES ASSUME LockInv, NoPromotion, LockNext PROVE NoPromotion'
    BY DEF NoPromotion, lockVars
  <2> PICK p \in Procs : Call(p) \/ Step(p) \/ CloseOnly(p) \/ Die(p)
    BY DEF LockNext
  <2> QED
    BY DEF NoPromotion, LockInv, LockTypeOK, Step, Call, Open, Flock, FlockRaises, Exists, Stat, Replaced, Promote,
           PromoteGivesUp, PromoteTakes, PromoteFails, Unlink, Unlock, CloseOnly, Die, Again,
           Close, Goto, mode
<1>3. NoPromotion /\ Exclusive => AlwaysExclusive
  BY DEF NoPromotion, Exclusive, AlwaysExclusive
<1> QED
  BY <1>1, <1>2, <1>3, LockInvariance, MutualExclusion, PTL DEF LockSpec
=============================================================================
