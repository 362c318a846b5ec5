---------------------------- MODULE PRServProofs ----------------------------
(***************************************************************************)
(* What the PR service tells its clients, for any keys, checksums, imports *)
(* and numbers of requests and values.                                     *)
(***************************************************************************)
EXTENDS PRServ, FiniteSetTheorems, TLAPS

-----------------------------------------------------------------------------
(* The inductive invariant *)

\* What is not in the file is marked dirty, and nothing is between requests.
Saved ==
  /\ ~dirty => table = committed
  /\ handler \in {"wait", "ended"} => ~dirty
  /\ ~up => handler = "ended"

\* No value goes back: the table is ahead of the file.
Ahead == \A r \in Row : committed[r] <= table[r]

\* An answer is what the table says; in "no history" mode it is the highest.
AnswerStands ==
  Replying =>
    /\ reply.value = table[reply.row]
    /\ nohist => \A s \in Sum : table[<<reply.row[1], s>>] <= reply.value

\* The file is behind the clients, or the answer being given, by one at most.
NearlyCommitted ==
  /\ \A k \in Key : \E s \in Sum : highest[k] <= committed[<<k, s>>] + 1
  /\ Replying => \E s \in Sum : reply.value <= committed[<<reply.row[1], s>>] + 1

\* Without a crash no client knows more than the table.
Remembered ==
  "crash" \notin events => \A k \in Key : \E s \in Sum : highest[k] <= table[<<k, s>>]

\* "History" mode never changes the value of a row: the table has what was seen,
\* and besides it at most the row that is being answered for the first time,
HistoryKept ==
  ~nohist /\ "crash" \notin events =>
    \A r \in Row : seen[r] # table[r] => Replying /\ r = reply.row /\ seen[r] = None

\* whose value is above all others.
NewHigher ==
  ~nohist /\ "crash" \notin events /\ Replying /\ seen[reply.row] = None =>
    \A s \in Sum : seen[<<reply.row[1], s>>] < reply.value

\* Neither the table nor the clients ever have a value twice, nor does the table
\* have for one checksum what a client was given for another.
NoneTwice ==
  events = {} =>
    /\ \A r \in Row : given[r] <= table[r]
    /\ \A r1, r2 \in Row : r1[1] = r2[1] /\ r1 # r2 =>
         /\ table[r1] # None => table[r1] # table[r2]
         /\ given[r2] # None => given[r2] # table[r1]
         /\ given[r1] # None => given[r1] # given[r2]

IInv ==
  /\ TypeOK /\ Saved /\ Ahead /\ AnswerStands /\ NearlyCommitted /\ Remembered
  /\ HistoryKept /\ NewHigher /\ NoneTwice

-----------------------------------------------------------------------------
(* The highest value *)

\* A function on a finite set has a highest value.
LEMMA HighestExists ==
  ASSUME NEW S, IsFiniteSet(S), S # {}, NEW f \in [S -> Int]
  PROVE  \E x \in S : \A y \in S : f[y] <= f[x]
<1> DEFINE Up(x) == {y \in S : f[y] > f[x]}
           Ups == {Up(x) : x \in S}
           R == StrictSubsetOrdering(S)
<1>1. Ups \subseteq FiniteSubsetsOf(S) /\ Ups # {}
  <2>1. \A x \in S : Up(x) \in SUBSET S
    OBVIOUS
  <2>2. FiniteSubsetsOf(S) = SUBSET S
    BY FS_FiniteSubsetsOfFinite
  <2>3. \A x \in S : Up(x) \in FiniteSubsetsOf(S)
    BY <2>1, <2>2
  <2>4. PICK x \in S : TRUE
    OBVIOUS
  <2> HIDE DEF Up
  <2>5. QED
    BY <2>3, <2>4
<1>2. \E U \in Ups : \A V \in Ups : <<V, U>> \notin R
  <2> HIDE DEF Ups, R
  <2>1. IsWellFoundedOn(R, FiniteSubsetsOf(S))
    BY FS_StrictSubsetOrderingWellFounded DEF R
  <2>2. QED
    BY <1>1, <2>1, WFMin
<1>3. PICK x \in S : \A V \in Ups : <<V, Up(x)>> \notin R
  BY <1>2
<1>4. ASSUME NEW y \in S, f[y] > f[x] PROVE FALSE
  <2>1. Up(y) \subseteq Up(x) /\ Up(y) # Up(x)
    <3>1. \A z \in S : f[z] > f[y] => f[z] > f[x]
      BY <1>4
    <3>2. y \in Up(x) /\ y \notin Up(y)
      BY <1>4
    <3>3. QED
      BY <3>1, <3>2
  <2>2. <<Up(y), Up(x)>> \in R
    BY <2>1 DEF StrictSubsetOrdering
  <2>3. QED
    BY <2>2, <1>3
<1>5. QED
  BY <1>4

\* maxValue is what SELECT max(value) returns for a key, None without a row.
LEMMA MaxValueExists ==
  ASSUME TypeOK, NEW k \in Key
  PROVE  /\ maxValue(k) \in Values
         /\ \A s \in Sum : table[<<k, s>>] <= maxValue(k)
         /\ \E s \in Sum : maxValue(k) = table[<<k, s>>]
<1> DEFINE f == [s \in Sum |-> table[<<k, s>>]]
           V == {table[<<k, s>>] : s \in Sum}
<1>1. \A s \in Sum : table[<<k, s>>] \in Values
  BY DEF TypeOK, Row
<1>2. PICK s \in Sum : \A u \in Sum : table[<<k, u>>] <= table[<<k, s>>]
  <2>1. f \in [Sum -> Int]
    BY <1>1 DEF Values, None
  <2>2. PICK s \in Sum : \A u \in Sum : f[u] <= f[s]
    BY <2>1, PRServAssumption, HighestExists
  <2>3. QED
    BY <2>2
<1>3. \E x \in V : \A y \in V : x >= y
  BY <1>1, <1>2 DEF Values, None
<1>4. Max(V) \in V /\ \A y \in V : Max(V) >= y
  BY <1>3 DEF Max
<1>5. \E u \in Sum : maxValue(k) = table[<<k, u>>]
  BY <1>4 DEF maxValue
<1>6. maxValue(k) \in Values
  BY <1>1, <1>5
<1>7. ASSUME NEW t \in Sum PROVE table[<<k, t>>] <= maxValue(k)
  <2>1. maxValue(k) >= table[<<k, t>>]
    BY <1>4 DEF maxValue
  <2>2. QED
    BY <2>1, <1>1, <1>6 DEF Values, None
<1>8. QED
  BY <1>5, <1>6, <1>7

LEMMA MaxOfTwo ==
  ASSUME NEW a \in Values, NEW b \in Values
  PROVE  /\ Max({a, b}) \in {a, b}
         /\ a <= Max({a, b}) /\ b <= Max({a, b})
<1>1. \E x \in {a, b} : \A y \in {a, b} : x >= y
  BY DEF Values, None
<1>2. Max({a, b}) \in {a, b} /\ \A y \in {a, b} : Max({a, b}) >= y
  BY <1>1 DEF Max
<1>3. QED
  BY <1>2 DEF Values, None

LEMMA RowParts ==
  /\ \A r \in Row : r[1] \in Key /\ r[2] \in Sum /\ r = <<r[1], r[2]>>
  /\ \A k \in Key, s \in Sum : <<k, s>> \in Row /\ <<k, s>>[1] = k
BY DEF Row

\* What getValue() answers, whether it finds a row or inserts one.
LEMMA GetValueResult ==
  ASSUME TypeOK, NEW r \in Row
  PROVE  /\ getValue(r) \in Nat
         /\ table[r] <= getValue(r)
         /\ Found(r) = None => getValue(r) = maxValue(r[1]) + 1
         /\ Found(r) # None => getValue(r) = table[r]
         /\ ~nohist => Found(r) = table[r]
         /\ nohist => \A s \in Sum : table[<<r[1], s>>] <= getValue(r)
<1>1. r[1] \in Key /\ r[2] \in Sum /\ r = <<r[1], r[2]>>
  BY RowParts
<1>2. table[r] \in Values /\ \A s \in Sum : table[<<r[1], s>>] \in Values
  BY <1>1, RowParts DEF TypeOK
<1>3. /\ maxValue(r[1]) \in Values
      /\ \A s \in Sum : table[<<r[1], s>>] <= maxValue(r[1])
  BY <1>1, MaxValueExists
<1>4. table[r] <= maxValue(r[1])
  BY <1>1, <1>3
<1>5. CASE Found(r) = None
  BY <1>2, <1>3, <1>4, <1>5 DEF getValue, Found, Values, None
<1>6. CASE Found(r) # None
  BY <1>2, <1>3, <1>4, <1>6 DEF getValue, Found, Values, None
<1>7. QED
  BY <1>5, <1>6

\* What an import leaves in the row.
LEMMA ImportResult ==
  ASSUME TypeOK, NEW r \in Row, NEW value \in Imports
  PROVE  /\ importone(r, value) \in Nat
         /\ table[r] <= importone(r, value)
         /\ ~nohist /\ table[r] # None => importone(r, value) = table[r]
<1>1. table[r] \in Values /\ value \in Nat
  BY PRServAssumption DEF TypeOK
<1>2. QED
  BY <1>1 DEF importone, Values, None

-----------------------------------------------------------------------------
(* Types *)

LEMMA InitIInv == Init => IInv
<1> SUFFICES ASSUME Init PROVE IInv
  OBVIOUS
<1> USE DEF Init
<1>1. TypeOK
  <2>1. committed \in [Row -> Values] /\ table \in [Row -> Values] /\ given \in [Row -> Values]
    BY DEF Values
  <2>2. highest \in [Key -> Values] /\ seen \in [Row -> Values] /\ nohist \in BOOLEAN /\ events = {}
    BY PRServAssumption DEF Values
  <2>3. requestqueue \in Seq(Request) /\ reply = <<>>
    OBVIOUS
  <2>4. QED
    BY <2>1, <2>2, <2>3 DEF TypeOK
<1>2. \A r \in Row :
        committed[r] = None /\ table[r] = None /\ given[r] = None /\ seen[r] = None
  OBVIOUS
<1>3. Saved /\ AnswerStands /\ NewHigher
  BY DEF Saved, AnswerStands, NewHigher, Replying
<1>4. Ahead /\ HistoryKept /\ NoneTwice
  BY <1>2 DEF Ahead, HistoryKept, NoneTwice, None
<1>5. NearlyCommitted /\ Remembered
  <2>1. \A k \in Key, s \in Sum :
          /\ highest[k] = None
          /\ committed[<<k, s>>] = None
          /\ table[<<k, s>>] = None
    BY RowParts
  <2>2. QED
    BY <2>1, PRServAssumption DEF NearlyCommitted, Remembered, Replying, None
<1>6. QED
  BY <1>1, <1>3, <1>4, <1>5 DEF IInv

LEMMA HeadIsRequest ==
  ASSUME TypeOK, NEW op, Taken(op)
  PROVE  /\ Head(requestqueue) \in Request
         /\ Head(requestqueue).op = op
         /\ requestqueue' \in Seq(Request)
         /\ handler = "wait" /\ handler' = "reply" /\ up
BY DEF TypeOK, Taken

\* The history has values, and grows by a row that was not in it.
LEMMA SeenResult ==
  ASSUME TypeOK, NEW r \in Row, NEW value \in Nat, Seen(r, value)
  PROVE  /\ seen' \in [Row -> Values]
         /\ \A q \in Row : seen'[q] # seen[q] => q = r /\ ~nohist
         /\ ~nohist => seen'[r] = IF seen[r] = None THEN value ELSE seen[r]
BY DEF Seen, TypeOK, Values

LEMMA GetPRTakes ==
  ASSUME TypeOK, getPR
  PROVE  \E r \in Row :
           /\ table' = [table EXCEPT ![r] = getValue(r)]
           /\ dirty' = (dirty \/ Found(r) = None)
           /\ reply' = [row |-> r, value |-> getValue(r)]
<1>1. Head(requestqueue) \in Request /\ Head(requestqueue).op = "getPR"
  BY HeadIsRequest DEF getPR
<1>2. Head(requestqueue).row \in Row
  BY <1>1 DEF Request
<1>3. QED
  BY <1>2 DEF getPR

LEMMA ImportTakes ==
  ASSUME TypeOK, import
  PROVE  \E r \in Row, value \in Imports :
           /\ table' = [table EXCEPT ![r] = importone(r, value)]
           /\ dirty' = (dirty \/ nohist \/ table[r] = None)
           /\ Seen(r, value)
<1>1. Head(requestqueue) \in Request /\ Head(requestqueue).op = "importone"
  BY HeadIsRequest DEF import
<1>2. Head(requestqueue).row \in Row /\ Head(requestqueue).value \in Imports
  BY <1>1 DEF Request
<1>3. QED
  BY <1>2 DEF import

LEMMA TypePreserved ==
  ASSUME TypeOK, [Next]_vars
  PROVE  TypeOK'
<1> USE DEF serverVars, clientVars
<1>1. ASSUME NEW q \in Request, process_request(q) PROVE TypeOK'
  BY <1>1 DEF TypeOK, process_request
<1>2. CASE handle_request_timeout
  BY <1>2 DEF TypeOK, handle_request_timeout
<1>3. CASE getPR
  <2>1. PICK r \in Row : /\ table' = [table EXCEPT ![r] = getValue(r)]
                         /\ dirty' = (dirty \/ Found(r) = None)
                         /\ reply' = [row |-> r, value |-> getValue(r)]
    BY <1>3, GetPRTakes
  <2>2. getValue(r) \in Nat
    BY GetValueResult
  <2>3. requestqueue' \in Seq(Request) /\ handler' = "reply"
    BY <1>3, HeadIsRequest DEF getPR
  <2>4. table' \in [Row -> Values] /\ reply' \in [row : Row, value : Nat]
    BY <2>1, <2>2 DEF TypeOK, Values
  <2>5. dirty' \in BOOLEAN
    BY <2>1 DEF TypeOK
  <2>6. QED
    BY <1>3, <2>3, <2>4, <2>5 DEF TypeOK, getPR
<1>4. CASE import
  <2>1. PICK r \in Row, value \in Imports :
          /\ table' = [table EXCEPT ![r] = importone(r, value)]
          /\ dirty' = (dirty \/ nohist \/ table[r] = None)
          /\ Seen(r, value)
    BY <1>4, ImportTakes
  <2>2. importone(r, value) \in Nat /\ seen' \in [Row -> Values]
    BY <2>1, ImportResult, SeenResult, PRServAssumption
  <2>3. requestqueue' \in Seq(Request) /\ handler' = "reply"
    BY <1>4, HeadIsRequest DEF import
  <2>4. table' \in [Row -> Values]
    BY <2>1, <2>2 DEF TypeOK, Values
  <2>5. dirty' \in BOOLEAN
    BY <2>1 DEF TypeOK
  <2>6. QED
    BY <1>4, <2>2, <2>3, <2>4, <2>5 DEF TypeOK, import
<1>5. CASE dump_db \/ quitRPC
  <2>1. requestqueue' \in Seq(Request) /\ handler' = "reply"
    BY <1>5, HeadIsRequest DEF dump_db, quitRPC
  <2>2. QED
    BY <1>5, <2>1 DEF TypeOK, dump_db, quitRPC, sync
<1>6. CASE Reply
  <2>1. CASE reply = <<>>
    BY <1>6, <2>1 DEF TypeOK, Reply
  <2>2. CASE reply # <<>>
    <3>1. reply.row \in Row /\ reply.value \in Nat
      BY <2>2 DEF TypeOK
    <3>2. reply.row[1] \in Key
      BY <3>1, RowParts
    <3>3. highest[reply.row[1]] \in Values /\ reply.value \in Values
      BY <3>1, <3>2 DEF TypeOK, Values
    <3>4. Max({highest[reply.row[1]], reply.value}) \in Values
      BY <3>3, MaxOfTwo
    <3>5. given' \in [Row -> Values] /\ highest' \in [Key -> Values]
      BY <1>6, <2>2, <3>1, <3>2, <3>3, <3>4 DEF TypeOK, Reply
    <3>6. seen' \in [Row -> Values]
      BY <1>6, <2>2, <3>1, SeenResult DEF Reply
    <3>7. QED
      BY <1>6, <3>5, <3>6 DEF TypeOK, Reply
  <2>3. QED
    BY <2>1, <2>2
<1>7. CASE ReplyFails \/ sigint_handler \/ sigterm_handler
  <2>1. ReplyFails => seen' \in [Row -> Values]
    BY SeenResult DEF ReplyFails, TypeOK
  <2>2. QED
    BY <1>7, <2>1 DEF TypeOK, ReplyFails, sigint_handler, sigterm_handler, sync
<1>8. CASE sync_if_dirty
  BY <1>8 DEF TypeOK, sync_if_dirty, TurnEnds, sync
<1>9. CASE disconnect \/ Crash
  <2>1. /\ requestqueue' = <<>> /\ table' = committed /\ committed' = committed
        /\ dirty' = FALSE /\ up' = FALSE /\ UNCHANGED <<nohist, reply, given, highest, seen>>
    BY <1>9 DEF disconnect, Crash, Gone
  <2>2. handler' \in {handler, "ended"} /\ accepting' \in BOOLEAN /\ quit' \in BOOLEAN
    BY <1>9 DEF TypeOK, disconnect, Crash
  <2>3. events' \subseteq {"crash", "import"}
    BY <1>9 DEF TypeOK, disconnect, Crash
  <2>4. requestqueue' \in Seq(Request)
    BY <2>1
  <2>5. QED
    BY <2>1, <2>2, <2>3, <2>4 DEF TypeOK
<1>10. CASE start
  BY <1>10 DEF TypeOK, start
<1>11. CASE UNCHANGED vars
  BY <1>11 DEF TypeOK, vars
<1>12. QED
  BY <1>1, <1>2, <1>3, <1>4, <1>5, <1>6, <1>7, <1>8, <1>9, <1>10, <1>11 DEF Next

-----------------------------------------------------------------------------
(* The steps *)

\* Once it is remembered, the answer is no exception to HistoryKept any more.
LEMMA AnswerRemembered ==
  ASSUME IInv, Replying, ~Replying', Seen(reply.row, reply.value),
         UNCHANGED <<nohist, table>>, events' = events
  PROVE  HistoryKept'
<1> SUFFICES ASSUME ~nohist, "crash" \notin events, NEW q \in Row
             PROVE  seen'[q] = table[q]
  BY DEF HistoryKept
<1>1. reply.row \in Row /\ reply.value \in Nat /\ reply.value = table[reply.row]
  BY DEF IInv, TypeOK, Replying, AnswerStands
<1>2. seen[q] = table[q] \/ (q = reply.row /\ seen[q] = None)
  BY DEF IInv, HistoryKept
<1>3. /\ seen'[q] # seen[q] => q = reply.row
      /\ seen'[reply.row] = IF seen[reply.row] = None THEN reply.value ELSE seen[reply.row]
  BY <1>1, SeenResult DEF IInv
<1>4. QED
  BY <1>1, <1>2, <1>3

\* Steps that tell nobody anything and leave the table alone; the file may
\* catch up with it, and an answer that reaches nobody is remembered.
LEMMA StillStep ==
  ASSUME IInv, TypeOK', Saved',
         committed' \in {committed, table},
         UNCHANGED <<nohist, table, given, highest, events>>,
         Replying' => Replying /\ reply' = reply,
         \/ UNCHANGED seen /\ (Replying => Replying')
         \/ Replying /\ ~Replying' /\ Seen(reply.row, reply.value)
  PROVE  IInv'
<1> USE DEF IInv
<1>1. Ahead'
  BY DEF Ahead, TypeOK, Values, None
<1>2. AnswerStands'
  BY DEF AnswerStands
<1>3. NearlyCommitted'
  <2>1. \A r \in Row : committed[r] <= committed'[r] /\ committed[r] \in Int /\ committed'[r] \in Int
    BY DEF Ahead, TypeOK, Values, None
  <2>2. ASSUME NEW k \in Key PROVE \E s \in Sum : highest'[k] <= committed'[<<k, s>>] + 1
    <3>1. PICK s \in Sum : highest[k] <= committed[<<k, s>>] + 1
      BY DEF NearlyCommitted
    <3>2. <<k, s>> \in Row /\ highest[k] \in Int
      BY RowParts DEF TypeOK, Values, None
    <3>3. highest[k] <= committed'[<<k, s>>] + 1
      BY <3>1, <3>2, <2>1
    <3>4. QED
      BY <3>3
  <2>3. ASSUME Replying'
        PROVE  \E s \in Sum : reply'.value <= committed'[<<reply'.row[1], s>>] + 1
    <3>1. reply' = reply /\ reply.row \in Row /\ reply.value \in Nat
      BY <2>3 DEF TypeOK, Replying
    <3>2. PICK s \in Sum : reply.value <= committed[<<reply.row[1], s>>] + 1
      BY <2>3 DEF NearlyCommitted
    <3>3. <<reply.row[1], s>> \in Row
      BY <3>1, RowParts
    <3>4. reply.value <= committed'[<<reply.row[1], s>>] + 1
      BY <3>1, <3>2, <3>3, <2>1
    <3>5. QED
      BY <3>1, <3>4
  <2>4. QED
    BY <2>2, <2>3 DEF NearlyCommitted
<1>4. Remembered'
  BY DEF Remembered
<1>5. HistoryKept' /\ NewHigher'
  <2>1. CASE UNCHANGED seen /\ (Replying => Replying')
    BY <2>1 DEF HistoryKept, NewHigher
  <2>2. CASE Replying /\ ~Replying' /\ Seen(reply.row, reply.value)
    BY <2>2, AnswerRemembered DEF NewHigher
  <2>3. QED
    BY <2>1, <2>2
<1>6. NoneTwice'
  BY DEF NoneTwice
<1>7. QED
  BY <1>1, <1>2, <1>3, <1>4, <1>5, <1>6

LEMMA GetPRStep ==
  ASSUME IInv, TypeOK', getPR
  PROVE  IInv'
<1> USE DEF IInv
<1>1. PICK r \in Row : /\ table' = [table EXCEPT ![r] = getValue(r)]
                       /\ dirty' = (dirty \/ Found(r) = None)
                       /\ reply' = [row |-> r, value |-> getValue(r)]
  BY GetPRTakes
<1>2. /\ handler = "wait" /\ handler' = "reply" /\ up
      /\ UNCHANGED <<nohist, committed, up, given, highest, seen, events>>
      /\ ~Replying /\ Replying'
  BY <1>1, HeadIsRequest DEF getPR, Replying
<1>3. table = committed /\ ~dirty
  BY <1>2 DEF Saved
<1>4. /\ r[1] \in Key /\ r[2] \in Sum /\ r = <<r[1], r[2]>>
      /\ reply'.row = r /\ reply'.value = getValue(r)
      /\ table'[r] = getValue(r)
      /\ \A q \in Row : q # r => table'[q] = table[q]
  BY <1>1, RowParts DEF TypeOK
<1>5. /\ getValue(r) \in Nat /\ table[r] <= getValue(r)
      /\ Found(r) = None => getValue(r) = maxValue(r[1]) + 1
      /\ Found(r) # None => getValue(r) = table[r]
      /\ ~nohist => Found(r) = table[r]
      /\ nohist => \A s \in Sum : table[<<r[1], s>>] <= getValue(r)
  BY GetValueResult
<1>6. /\ maxValue(r[1]) \in Values
      /\ \A s \in Sum : table[<<r[1], s>>] <= maxValue(r[1])
      /\ \E s \in Sum : maxValue(r[1]) = table[<<r[1], s>>]
  BY <1>4, MaxValueExists
<1>7. \A q \in Row : /\ table[q] \in Int /\ table'[q] \in Int
                     /\ table[q] <= table'[q]
  BY <1>4, <1>5 DEF TypeOK, Values, None
<1>8. Saved'
  <2>1. ~dirty' => Found(r) # None
    BY <1>1
  <2>2. Found(r) # None => table' = table
    BY <1>1, <1>5 DEF TypeOK
  <2>3. QED
    BY <1>2, <1>3, <2>1, <2>2 DEF Saved
<1>9. Ahead'
  BY <1>2, <1>3, <1>7 DEF Ahead
<1>10. AnswerStands'
  <2>1. ASSUME nohist, NEW s \in Sum PROVE table'[<<r[1], s>>] <= getValue(r)
    <3>1. <<r[1], s>> \in Row
      BY <1>4, RowParts
    <3>2. QED
      BY <2>1, <3>1, <1>4, <1>5
  <2>2. QED
    BY <1>2, <1>4, <2>1 DEF AnswerStands
<1>11. NearlyCommitted'
  <2>1. \E s \in Sum : getValue(r) <= committed[<<r[1], s>>] + 1
    <3>1. CASE Found(r) = None
      BY <1>3, <1>5, <1>6, <3>1 DEF Values, None
    <3>2. CASE Found(r) # None
      BY <1>3, <1>4, <1>5, <1>7, <3>2
    <3>3. QED
      BY <3>1, <3>2
  <2>2. QED
    BY <1>2, <1>4, <2>1 DEF NearlyCommitted
<1>12. Remembered'
  <2>1. ASSUME "crash" \notin events, NEW k \in Key
        PROVE  \E s \in Sum : highest[k] <= table'[<<k, s>>]
    <3>1. PICK s \in Sum : highest[k] <= table[<<k, s>>]
      BY <2>1 DEF Remembered
    <3>2. <<k, s>> \in Row /\ highest[k] \in Int
      BY RowParts DEF TypeOK, Values, None
    <3>3. highest[k] <= table'[<<k, s>>]
      BY <3>1, <3>2, <1>7
    <3>4. QED
      BY <3>3
  <2>2. QED
    BY <1>2, <2>1 DEF Remembered
<1>13. HistoryKept'
  <2>1. ASSUME ~nohist, "crash" \notin events, NEW q \in Row, seen[q] # table'[q]
        PROVE  q = r /\ seen[q] = None
    <3>1. seen[q] = table[q]
      BY <2>1, <1>2 DEF HistoryKept
    <3>2. table[q] # None => table'[q] = table[q]
      BY <2>1, <1>4, <1>5
    <3>3. QED
      BY <2>1, <3>1, <3>2, <1>4
  <2>2. QED
    BY <1>2, <1>4, <2>1 DEF HistoryKept
<1>14. NewHigher'
  <2>1. ASSUME ~nohist, "crash" \notin events, seen[r] = None, NEW s \in Sum
        PROVE  seen[<<r[1], s>>] < getValue(r)
    <3>1. <<r[1], s>> \in Row
      BY <1>4, RowParts
    <3>2. seen[r] = table[r] /\ seen[<<r[1], s>>] = table[<<r[1], s>>]
      BY <2>1, <3>1, <1>2 DEF HistoryKept
    <3>3. getValue(r) = maxValue(r[1]) + 1
      BY <2>1, <3>2, <1>5
    <3>4. QED
      BY <3>1, <3>2, <3>3, <1>6, <1>7 DEF Values, None
  <2>2. QED
    BY <1>2, <1>4, <2>1 DEF NewHigher
<1>15. NoneTwice'
  <2> SUFFICES ASSUME events = {} PROVE NoneTwice'
    BY <1>2 DEF NoneTwice
  <2>1. \A q \in Row : given[q] <= table'[q]
    <3>1. \A q \in Row : given[q] \in Int /\ given[q] <= table[q]
      BY DEF NoneTwice, TypeOK, Values, None
    <3>2. QED
      BY <3>1, <1>7
  <2>2. ASSUME NEW q \in Row, q[1] = r[1], q # r, Found(r) = None
        PROVE  /\ table'[q] # table'[r]
               /\ given[q] # None => given[q] # table'[r]
    <3>1. q[1] \in Key /\ q[2] \in Sum /\ q = <<r[1], q[2]>>
      BY <2>2, RowParts
    <3>2. table[q] <= maxValue(r[1])
      BY <3>1, <1>6
    <3>3. given[q] <= table[q] /\ given[q] \in Int
      BY DEF NoneTwice, TypeOK, Values, None
    <3>4. QED
      BY <2>2, <3>2, <3>3, <1>4, <1>5, <1>6, <1>7 DEF Values, None
  <2>3. CASE Found(r) # None
    <3>1. table' = table
      BY <2>3, <1>1, <1>5 DEF TypeOK
    <3>2. QED
      BY <3>1, <1>2 DEF NoneTwice
  <2>4. CASE Found(r) = None
    <3> SUFFICES ASSUME NEW r1 \in Row, NEW r2 \in Row, r1[1] = r2[1], r1 # r2
                 PROVE  /\ table'[r1] # None => table'[r1] # table'[r2]
                        /\ given[r2] # None => given[r2] # table'[r1]
                        /\ given[r1] # None => given[r1] # given[r2]
      BY <2>1, <1>2 DEF NoneTwice
    <3>1. /\ table[r1] # None => table[r1] # table[r2]
          /\ given[r2] # None => given[r2] # table[r1]
          /\ given[r1] # None => given[r1] # given[r2]
      BY DEF NoneTwice
    <3>2. CASE r1 = r
      BY <2>2, <2>4, <3>1, <3>2
    <3>3. CASE r2 = r
      BY <2>2, <2>4, <3>1, <3>3, <1>4
    <3>4. CASE r1 # r /\ r2 # r
      BY <3>1, <3>4, <1>4
    <3>5. QED
      BY <3>2, <3>3, <3>4
  <2>5. QED
    BY <2>3, <2>4
<1>16. QED
  BY <1>8, <1>9, <1>10, <1>11, <1>12, <1>13, <1>14, <1>15

LEMMA ImportStep ==
  ASSUME IInv, TypeOK', import
  PROVE  IInv'
<1> USE DEF IInv
<1>1. PICK r \in Row, value \in Imports :
        /\ table' = [table EXCEPT ![r] = importone(r, value)]
        /\ dirty' = (dirty \/ nohist \/ table[r] = None)
        /\ Seen(r, value)
  BY ImportTakes
<1>2. /\ handler = "wait" /\ handler' = "reply" /\ up /\ reply' = <<>>
      /\ ~Replying /\ ~Replying'
      /\ UNCHANGED <<nohist, committed, up, given, highest>>
      /\ events' = events \union {"import"}
  BY HeadIsRequest DEF import, Replying
<1>3. table = committed /\ ~dirty
  BY <1>2 DEF Saved
<1>4. /\ importone(r, value) \in Nat /\ table[r] <= importone(r, value)
      /\ ~nohist /\ table[r] # None => importone(r, value) = table[r]
  BY ImportResult
<1>5. \A q \in Row : /\ table[q] \in Int /\ table'[q] \in Int
                     /\ table[q] <= table'[q]
                     /\ ~nohist /\ table[q] # None => table'[q] = table[q]
  BY <1>1, <1>4 DEF TypeOK, Values, None
<1>6. Saved'
  <2>1. ~dirty' => table' = table
    BY <1>1, <1>4 DEF TypeOK
  <2>2. QED
    BY <1>2, <1>3, <2>1 DEF Saved
<1>7. Ahead'
  BY <1>2, <1>3, <1>5 DEF Ahead
<1>8. AnswerStands' /\ NewHigher'
  BY <1>2 DEF AnswerStands, NewHigher
<1>9. NearlyCommitted'
  BY <1>2 DEF NearlyCommitted
<1>10. Remembered'
  <2>1. ASSUME "crash" \notin events, NEW k \in Key
        PROVE  \E s \in Sum : highest[k] <= table'[<<k, s>>]
    <3>1. PICK s \in Sum : highest[k] <= table[<<k, s>>]
      BY <2>1 DEF Remembered
    <3>2. <<k, s>> \in Row /\ highest[k] \in Int
      BY RowParts DEF TypeOK, Values, None
    <3>3. highest[k] <= table'[<<k, s>>]
      BY <3>1, <3>2, <1>5
    <3>4. QED
      BY <3>3
  <2>2. QED
    BY <1>2, <2>1 DEF Remembered
<1>11. HistoryKept'
  <2>1. ASSUME ~nohist, "crash" \notin events, NEW q \in Row
        PROVE  seen'[q] = table'[q]
    <3>1. seen[q] = table[q]
      BY <2>1, <1>2 DEF HistoryKept
    <3>2. /\ seen'[q] # seen[q] => q = r
          /\ seen'[r] = IF seen[r] = None THEN value ELSE seen[r]
      BY <2>1, <1>1, SeenResult, PRServAssumption
    <3>3. table'[r] = importone(r, value) /\ (q # r => table'[q] = table[q])
      BY <1>1 DEF TypeOK
    <3>4. importone(r, value) = IF table[r] = None THEN value ELSE table[r]
      BY <2>1 DEF importone
    <3>5. QED
      BY <3>1, <3>2, <3>3, <3>4
  <2>2. QED
    BY <1>2, <2>1 DEF HistoryKept
<1>12. NoneTwice'
  BY <1>2 DEF NoneTwice
<1>13. QED
  BY <1>6, <1>7, <1>8, <1>9, <1>10, <1>11, <1>12

LEMMA ReplyStep ==
  ASSUME IInv, TypeOK', Reply, reply # <<>>
  PROVE  IInv'
<1> USE DEF IInv
<1> DEFINE r == reply.row
           v == reply.value
<1>1. r \in Row /\ v \in Nat /\ r[1] \in Key
  BY RowParts DEF TypeOK
<1>2. /\ Replying /\ handler' = "sync" /\ ~Replying' /\ up
      /\ UNCHANGED <<nohist, committed, table, dirty, up, events>>
  BY DEF Reply, Replying
<1>3. /\ v = table[r]
      /\ \E s \in Sum : v <= committed[<<r[1], s>>] + 1
  BY <1>2 DEF AnswerStands, NearlyCommitted
<1>4. /\ given'[r] = v
      /\ \A q \in Row : q # r => given'[q] = given[q]
  BY <1>1 DEF Reply, TypeOK
<1>5. /\ highest'[r[1]] \in {highest[r[1]], v}
      /\ \A k \in Key : k # r[1] => highest'[k] = highest[k]
  <2>1. highest[r[1]] \in Values /\ v \in Values
    BY <1>1 DEF TypeOK, Values
  <2>2. Max({highest[r[1]], v}) \in {highest[r[1]], v}
    BY <2>1, MaxOfTwo
  <2>3. highest' = [highest EXCEPT ![r[1]] = Max({highest[r[1]], v})]
    BY DEF Reply
  <2>4. QED
    BY <2>2, <2>3, <1>1 DEF TypeOK
<1> HIDE DEF r, v
<1>6. Saved'
  BY <1>2 DEF Saved
<1>7. Ahead' /\ AnswerStands' /\ NewHigher'
  BY <1>2 DEF Ahead, AnswerStands, NewHigher
<1>8. NearlyCommitted'
  <2>1. \A k \in Key : \E s \in Sum : highest'[k] <= committed[<<k, s>>] + 1
    BY <1>3, <1>5 DEF NearlyCommitted
  <2>2. QED
    BY <1>2, <2>1 DEF NearlyCommitted
<1>9. Remembered'
  <2>1. \E s \in Sum : v <= table[<<r[1], s>>]
    BY <1>1, <1>3, RowParts
  <2>2. QED
    BY <1>2, <1>5, <2>1 DEF Remembered
<1>10. HistoryKept'
  BY <1>2, AnswerRemembered DEF Reply
<1>11. NoneTwice'
  <2> SUFFICES ASSUME events = {} PROVE NoneTwice'
    BY <1>2 DEF NoneTwice
  <2>1. \A q \in Row : given'[q] <= table[q]
    BY <1>1, <1>3, <1>4 DEF NoneTwice
  <2>2. ASSUME NEW r1 \in Row, NEW r2 \in Row, r1[1] = r2[1], r1 # r2
        PROVE  /\ table[r1] # None => table[r1] # table[r2]
               /\ given'[r2] # None => given'[r2] # table[r1]
               /\ given'[r1] # None => given'[r1] # given'[r2]
    <3>1. /\ table[r1] # None => table[r1] # table[r2]
          /\ table[r2] # None => table[r2] # table[r1]
          /\ given[r2] # None => given[r2] # table[r1]
          /\ given[r1] # None => given[r1] # table[r2]
          /\ given[r1] # None => given[r1] # given[r2]
      BY <2>2 DEF NoneTwice
    <3>2. v # None
      BY <1>1 DEF None
    <3>3. QED
      BY <2>2, <3>1, <3>2, <1>3, <1>4
  <2>3. QED
    BY <1>2, <2>1, <2>2 DEF NoneTwice
<1>12. QED
  BY <1>6, <1>7, <1>8, <1>9, <1>10, <1>11

\* A crash loses what the file does not have.
LEMMA CrashStep ==
  ASSUME IInv, TypeOK', Crash
  PROVE  IInv'
<1> USE DEF IInv
<1>1. /\ table' = committed /\ ~dirty' /\ ~Replying'
      /\ handler' = "ended"
      /\ UNCHANGED <<nohist, committed, highest>>
      /\ "crash" \in events'
  BY DEF Crash, Gone, Replying
<1>2. Saved' /\ AnswerStands' /\ NewHigher'
  BY <1>1 DEF Saved, AnswerStands, NewHigher
<1>3. Ahead'
  BY <1>1 DEF Ahead, TypeOK, Values, None
<1>4. NearlyCommitted' /\ Remembered' /\ HistoryKept' /\ NoneTwice'
  BY <1>1 DEF NearlyCommitted, Remembered, HistoryKept, NoneTwice
<1>5. QED
  BY <1>2, <1>3, <1>4

LEMMA NextIInv ==
  ASSUME IInv, [Next]_vars
  PROVE  IInv'
<1>1. TypeOK'
  BY TypePreserved DEF IInv
<1> USE DEF Saved, Replying, serverVars, clientVars
<1>2. ASSUME NEW q \in Request, process_request(q) PROVE IInv'
  BY <1>1, <1>2, StillStep DEF IInv, process_request
<1>3. CASE handle_request_timeout
  BY <1>1, <1>3, StillStep DEF IInv, handle_request_timeout
<1>4. CASE getPR
  BY <1>1, <1>4, GetPRStep
<1>5. CASE import
  BY <1>1, <1>5, ImportStep
<1>6. CASE dump_db
  BY <1>1, <1>6, StillStep DEF IInv, dump_db, Taken, sync
<1>7. CASE quitRPC
  BY <1>1, <1>7, StillStep DEF IInv, quitRPC, Taken
<1>8. CASE Reply
  <2>1. CASE reply = <<>>
    BY <1>1, <1>8, <2>1, StillStep DEF IInv, Reply
  <2>2. CASE reply # <<>>
    BY <1>1, <1>8, <2>2, ReplyStep
  <2>3. QED
    BY <2>1, <2>2
<1>9. CASE ReplyFails
  BY <1>1, <1>9, StillStep DEF IInv, ReplyFails, sync
<1>10. CASE sync_if_dirty
  BY <1>1, <1>10, StillStep DEF IInv, sync_if_dirty, TurnEnds, sync
<1>11. CASE sigint_handler \/ sigterm_handler
  BY <1>1, <1>11, StillStep DEF IInv, sigint_handler, sigterm_handler, sync
<1>12. CASE disconnect
  BY <1>1, <1>12, StillStep DEF IInv, disconnect, Gone
<1>13. CASE Crash
  BY <1>1, <1>13, CrashStep
<1>14. CASE start
  BY <1>1, <1>14, StillStep DEF IInv, start
<1>15. CASE UNCHANGED vars
  BY <1>1, <1>15, StillStep DEF IInv, vars
<1>16. QED
  BY <1>2, <1>3, <1>4, <1>5, <1>6, <1>7, <1>8, <1>9, <1>10, <1>11, <1>12, <1>13, <1>14, <1>15
     DEF Next

-----------------------------------------------------------------------------
(* Theorems *)

LEMMA Invariance == Spec => []IInv
BY InitIInv, NextIInv, PTL DEF Spec

\* Every variable keeps its type: no request makes the table, the answers or
\* what clients were given anything but values (PRTable, PRServer).
THEOREM TypeCorrect == Spec => []TypeOK
<1>1. IInv => TypeOK
  BY DEF IInv
<1>2. QED
  BY <1>1, Invariance, PTL

\* Between two requests the file holds all that was handed out, whatever signals
\* come while the handler thread works (process_request_thread, sync_if_dirty).
THEOREM CommittedBetweenRequests == Spec => []RestIsCommitted
<1>1. IInv => RestIsCommitted
  BY DEF IInv, Saved, RestIsCommitted
<1>2. QED
  BY <1>1, Invariance, PTL

\* Two checksums are never told one value, but after an import or a crash
\* (_getValueHist, _getValueNohist).
THEOREM SumsStayDistinct == Spec => []DistinctSums
<1>1. IInv => DistinctSums
  BY DEF IInv, NoneTwice, DistinctSums
<1>2. QED
  BY <1>1, Invariance, PTL

\* "No history" values never go back while the service is not killed, and by one
\* at the most however often it is (_getValueNohist).
THEOREM DecrementsBounded == Spec => []DecrementsOnlyByCrash
<1>1. ASSUME IInv, nohist, Replying
      PROVE  reply.value >= highest[reply.row[1]] - (IF "crash" \in events THEN 1 ELSE 0)
  <2> USE DEF IInv
  <2> DEFINE k == reply.row[1]
  <2>1. reply.value \in Nat /\ reply.row \in Row /\ k \in Key
    BY <1>1, RowParts DEF TypeOK, Replying
  <2>2. \A s \in Sum : table[<<k, s>>] <= reply.value
    BY <1>1 DEF AnswerStands
  <2>3. highest[k] \in Int
    BY <1>1, <2>1 DEF TypeOK, Values, None
  <2>4. \A s \in Sum : <<k, s>> \in Row
    BY <2>1, RowParts
  <2>5. \A s \in Sum : /\ committed[<<k, s>>] \in Int /\ table[<<k, s>>] \in Int
                       /\ committed[<<k, s>>] <= table[<<k, s>>]
    BY <1>1, <2>4 DEF TypeOK, Values, None, Ahead
  <2>6. CASE "crash" \notin events
    <3>1. PICK s \in Sum : highest[k] <= table[<<k, s>>]
      BY <1>1, <2>1, <2>6 DEF Remembered
    <3>2. QED
      BY <2>1, <2>2, <2>3, <2>5, <2>6, <3>1
  <2>7. CASE "crash" \in events
    <3>1. PICK s \in Sum : highest[k] <= committed[<<k, s>>] + 1
      BY <1>1, <2>1 DEF NearlyCommitted
    <3>2. QED
      BY <2>1, <2>2, <2>3, <2>5, <2>7, <3>1
  <2>8. QED
    BY <2>6, <2>7
<1>2. IInv => DecrementsOnlyByCrash
  BY <1>1 DEF DecrementsOnlyByCrash
<1>3. QED
  BY <1>2, Invariance, PTL

\* "History" mode gives a tuple that nobody has named before a value above all
\* that were found or imported for its key, and any other the value that was found
\* first, even if nobody heard of it (_getValueHist).
THEOREM HistoryHolds == Spec => []NewOrHistorical
<1>1. ASSUME IInv, ~nohist, "crash" \notin events, Replying
      PROVE  IF seen[reply.row] # None THEN reply.value = seen[reply.row]
             ELSE \A s \in Sum : seen[<<reply.row[1], s>>] < reply.value
  <2> USE DEF IInv
  <2>1. reply.row \in Row
    BY <1>1 DEF TypeOK, Replying
  <2>2. reply.value = table[reply.row]
    BY <1>1 DEF AnswerStands
  <2>3. seen[reply.row] # None => seen[reply.row] = table[reply.row]
    BY <1>1, <2>1 DEF HistoryKept
  <2>4. seen[reply.row] = None => \A s \in Sum : seen[<<reply.row[1], s>>] < reply.value
    BY <1>1 DEF NewHigher
  <2>5. QED
    BY <2>2, <2>3, <2>4
<1>2. IInv => NewOrHistorical
  BY <1>1 DEF NewOrHistorical
<1>3. QED
  BY <1>2, Invariance, PTL
=============================================================================
