----------------------------- MODULE FetchProofs -----------------------------
(***************************************************************************)
(* Downloads: for any number of builds, versions and mirrors, any deaths   *)
(* and cleans, what a fetch reports as fetched is what the recipe names.   *)
(***************************************************************************)
EXTENDS Fetch, SequenceTheorems, TLAPS

(***************************************************************************)
(* Types.                                                                  *)
(***************************************************************************)
Op ==
  [op : {"entry"}, name : {"src", "tar"}, to : Contents \cup FileMirrors]
    \cup [op : {"write"}, name : {"src", "tar"}, to : {Broken} \cup SUBSET Versions]
    \cup [op : {"stamp"}, name : {"src", "tar"}, to : {NoFile, Old} \cup SUBSET Versions]
    \cup [op : {"mirror"}, name : FileMirrors, to : {NoFile}]

Pcs == {"idle", "verify", "again", "mirror", "check link", "process", "extract", "fetch",
        "tarball", "upstream", "early", "upstream failed", "end", "close"}

RunTyped(r) ==
  r \in [pc : Pcs, verified : BOOLEAN, localpath : {NoFile, "src"} \cup FileMirrors,
         left : {r.left}, pre : BOOLEAN, outcome : {"none", "ok", "failed"}]

Typed == TypeOK /\ todo \in Seq(Op) /\ RunTyped(run)

(* Who holds the lock is somewhere in download or clean, at the places of  *)
(* the URL's method.                                                       *)
Routes ==
  /\ holder = NoProc => run = Idle /\ todo = <<>>
  /\ holder # NoProc => run.pc # "idle"
  /\ url = "git" => run.pc \notin {"check link", "upstream"} /\ run.localpath \in {NoFile, "src"}
  /\ url = "wget" => run.pc \notin {"process", "extract", "fetch", "tarball"}
  /\ run.localpath # NoFile => run.pc \in {"again", "end", "close"}
  /\ run.outcome # "none" => run.pc = "close"
  /\ run.pc = "check link" => Head(run.left) \in FileMirrors

(***************************************************************************)
(* What is yet to be written.                                              *)
(***************************************************************************)
Ops(writes) == {writes[i] : i \in DOMAIN writes}

On(w, n) == w.op \in {"entry", "write"} /\ w.name = n
Untouched(n) == \A w \in Ops(todo) : ~On(w, n)

Agreed == \A p, q \in Procs : want[p] = want[q]

(***************************************************************************)
(* A file: a stamp that is there tells its content, or is about to go.     *)
(***************************************************************************)
Right    == Content("src") = {want[holder]}
Removing == todo \in {<<Mark("src", NoFile)>>, <<Entry("src", NoFile), Mark("src", NoFile)>>}
Storing  == <<Mark("src", Old), Mark("src", {want[holder]})>>
Marking  == todo \in {Storing, <<Mark("src", {want[holder]})>>} /\ Right

(* A stamp with sums has those of the file, as long as there is one.       *)
StampTrue == stamp["src"] \notin {NoFile, Old} => Content("src") \in {stamp["src"], NoFile}

(* Nothing is written to a file that has a stamp.  After verify_donestamp  *)
(* a file with a stamp is right.                                           *)
FileRun ==
  holder # NoProc =>
    /\ stamp["src"] # NoFile => todo = <<>> \/ Removing \/ Marking
    /\ \A w \in Ops(todo) : w.op = "stamp" => w = Mark("src", NoFile) \/ Marking
    /\ run.pc \notin {"verify", "close"} /\ stamp["src"] # NoFile => Right \/ Removing
    /\ run.pc \in {"mirror", "check link", "upstream", "early", "upstream failed"}
         => /\ stamp["src"] = NoFile \/ Removing
            /\ \A w \in Ops(todo) : w.op = "stamp" => w = Mark("src", NoFile)
    /\ run.outcome = "ok" => Right /\ (Marking \/ (stamp["src"] # NoFile /\ todo = <<>>))

(* A fetch that ended well leaves the file and its stamp; those of other   *)
(* builds that want the same pass it by.                                   *)
FileKept ==
  \A p \in Procs : result[p] = "ok" =>
    /\ last = p /\ holder = NoProc => Content("src") = {want[p]}
    /\ Agreed => /\ Content("src") = {want[p]} /\ stamp["src"] # NoFile
                 /\ todo = <<>> \/ Marking
                 /\ run.pc \in {"idle", "verify", "again", "end", "close"}

FileInv == StampTrue /\ FileRun /\ FileKept

(***************************************************************************)
(* A repository: its revisions from the fetch to the end of download.      *)
(***************************************************************************)
(* Only the tarball is ever a link, to a mirror's file that stays.         *)
Links ==
  /\ disk["src"] \notin FileMirrors
  /\ disk["tar"] \in FileMirrors => mirror[disk["tar"]] # NoFile
  /\ \A w \in Ops(todo) :
       /\ w.op # "mirror"
       /\ w.op = "entry" /\ w.to \in FileMirrors => w.name = "tar" /\ mirror[w.to] # NoFile

Holding  == Untouched("src") /\ Has(disk["src"], want[holder])
Arriving ==
  \E c \in SUBSET Versions :
    /\ want[holder] \in c
    /\ todo \in {<<Write("src", c)>>, <<Write("src", c), Entry("tar", NoFile)>>}
Lacks    ==
  /\ ~Has(disk["src"], want[holder])
  /\ \A w \in Ops(todo) : On(w, "src") => ~Has(w.to, want[holder])

(* Mirrors are asked for what the repository lacks; what download returns  *)
(* is there and stamped.                                                   *)
RepoRun ==
  holder # NoProc =>
    /\ run.pc \in {"mirror", "process", "upstream failed"} => Lacks
    /\ run.pc = "tarball" => Holding \/ Arriving
    /\ run.pc = "early" \/ run.localpath = "src" \/ run.outcome = "ok" => Holding
    /\ run.outcome = "ok" => \/ todo = <<Mark("src", Old)>>
                             \/ todo = <<>> /\ stamp["src"] # NoFile

RepoKept ==
  \A p \in Procs : result[p] = "ok" =>
    /\ last = p /\ holder = NoProc => Has(disk["src"], want[p])
    /\ Agreed => /\ Has(disk["src"], want[p]) /\ Untouched("src")
                 /\ stamp["src"] # NoFile /\ Mark("src", NoFile) \notin Ops(todo)

RepoInv == Links /\ RepoRun /\ RepoKept

(***************************************************************************)
(* The tarball, as long as no fetch has died or failed: it has what the    *)
(* repository has, or the repository lacks what is fetched.                *)
(***************************************************************************)
Covers == \A v \in Versions : Has(Content("src"), v) /\ Exists("tar") => Has(Content("tar"), v)
Level  == Covers /\ Untouched("src") /\ Untouched("tar")
Gone   == ~Exists("tar") /\ Untouched("tar")

(* Extraction, the removal after git fetch, build_mirror_data, clean.      *)
Copying ==
  \/ todo = <<Write("src", Broken), Write("src", Content("tar"))>>
  \/ todo = <<Write("src", Content("tar"))>>
Dropping ==
  \/ todo = <<Entry("tar", NoFile)>>
  \/ \E c \in SUBSET Versions : todo = <<Write("src", c), Entry("tar", NoFile)>>
Packing ==
  \/ todo = <<Entry("tar", NoFile), Write("tar", Broken), Write("tar", disk["src"]), Mark("tar", Old)>>
  \/ /\ disk["tar"] \notin FileMirrors
     /\ \/ todo = <<Write("tar", Broken), Write("tar", disk["src"]), Mark("tar", Old)>>
        \/ todo = <<Write("tar", disk["src"]), Mark("tar", Old)>>
Cleaning ==
  /\ Covers
  /\ \A w \in Ops(todo) : On(w, "src") \/ On(w, "tar") =>
       w = Write("src", Broken) \/ (w.op = "entry" /\ w.to = NoFile)

Packed == Packing \/ (Level /\ Exists("tar"))

TarRun ==
  /\ holder = NoProc \/ run.pc = "verify" => Level
  /\ holder # NoProc =>
       /\ run.pc \in {"again", "extract"} /\ run.localpath = NoFile => Level \/ Lacks
       /\ run.pc = "fetch" => Lacks \/ Gone \/ Level \/ Copying
       /\ run.pc = "tarball" => Level \/ Gone \/ Dropping
       /\ run.pc = "early" \/ run.localpath = "src" \/ run.outcome = "ok" => Packed
       /\ run.pc = "close" /\ run.outcome = "none" => Cleaning

TarKept ==
  \A p \in Procs : result[p] = "ok" /\ last = p /\ holder = NoProc => Has(Content("tar"), want[p])

TarInv == WriteTarballs /\ mishaps = {} => TarRun /\ TarKept

IInv ==
  /\ Typed /\ Routes
  /\ url = "wget" => FileInv
  /\ url = "git"  => RepoInv /\ TarInv

(***************************************************************************)
(* What the parts of a sequence of writes are.                             *)
(***************************************************************************)
LEMMA Constants ==
  /\ LastVersion \in Nat \ {0} /\ NoProc \notin Procs
  /\ NoFile \notin FileMirrors /\ Broken \notin FileMirrors /\ Old \notin FileMirrors
  /\ "src" \notin FileMirrors
  /\ NoFile # Broken /\ NoFile # Old /\ NoFile # "src"
  /\ \A c \in SUBSET Versions : c # NoFile /\ c # Broken /\ c # Old /\ c \notin FileMirrors
BY FetchAssumption

LEMMA OpsOf ==
  /\ Ops(<<>>) = {}
  /\ \A a : Ops(<<a>>) = {a}
  /\ \A a, b : Ops(<<a, b>>) = {a, b}
  /\ \A a, b, c : Ops(<<a, b, c>>) = {a, b, c}
  /\ \A a, b, c, d : Ops(<<a, b, c, d>>) = {a, b, c, d}
<1>1. Ops(<<>>) = {}
  BY DEF Ops
<1>2. ASSUME NEW a PROVE Ops(<<a>>) = {a}
  BY DEF Ops
<1>3. ASSUME NEW a, NEW b PROVE Ops(<<a, b>>) = {a, b}
  BY DEF Ops
<1>4. ASSUME NEW a, NEW b, NEW c PROVE Ops(<<a, b, c>>) = {a, b, c}
  BY DEF Ops
<1>5. ASSUME NEW a, NEW b, NEW c, NEW d PROVE Ops(<<a, b, c, d>>) = {a, b, c, d}
  BY DEF Ops
<1>6. QED
  BY <1>1, <1>2, <1>3, <1>4, <1>5

LEMMA OpsOfBoth ==
  ASSUME NEW S, NEW s \in Seq(S), NEW t \in Seq(S)
  PROVE  s \o t \in Seq(S) /\ Ops(s \o t) = Ops(s) \cup Ops(t)
<1>1. /\ s \o t \in Seq(S) /\ Len(s \o t) = Len(s) + Len(t)
      /\ \A i \in 1..Len(s) + Len(t) :
           (s \o t)[i] = IF i <= Len(s) THEN s[i] ELSE t[i - Len(s)]
  BY ConcatProperties
<1>2. /\ Len(s) \in Nat /\ Len(t) \in Nat
      /\ DOMAIN s = 1..Len(s) /\ DOMAIN t = 1..Len(t) /\ DOMAIN (s \o t) = 1..Len(s \o t)
  BY <1>1, LenProperties
<1> DEFINE st == s \o t
<1> HIDE DEF st
<1>3. ASSUME NEW w \in Ops(st) PROVE w \in Ops(s) \cup Ops(t)
  <2>1. PICK i \in 1..Len(s) + Len(t) : w = st[i]
    BY <1>1, <1>2, <1>3 DEF Ops, st
  <2>2. CASE i <= Len(s)
    BY <1>1, <1>2, <2>1, <2>2 DEF Ops, st
  <2>3. CASE ~(i <= Len(s))
    <3>1. i - Len(s) \in DOMAIN t /\ w = t[i - Len(s)]
      BY <1>1, <1>2, <2>1, <2>3 DEF st
    <3>2. QED
      BY <3>1 DEF Ops
  <2>4. QED
    BY <2>2, <2>3
<1>4. ASSUME NEW w \in Ops(s) PROVE w \in Ops(st)
  <2>1. PICK i \in 1..Len(s) : w = s[i]
    BY <1>2, <1>4 DEF Ops
  <2>2. i \in 1..Len(s) + Len(t) /\ st[i] = s[i]
    BY <1>1, <1>2 DEF st
  <2>3. QED
    BY <1>1, <1>2, <2>1, <2>2 DEF Ops, st
<1>5. ASSUME NEW w \in Ops(t) PROVE w \in Ops(st)
  <2>1. PICK i \in 1..Len(t) : w = t[i]
    BY <1>2, <1>5 DEF Ops
  <2>2. Len(s) + i \in 1..Len(s) + Len(t) /\ st[Len(s) + i] = t[i]
    BY <1>1, <1>2 DEF st
  <2>3. QED
    BY <1>1, <1>2, <2>1, <2>2 DEF Ops, st
<1>6. QED
  BY <1>1, <1>3, <1>4, <1>5 DEF st

LEMMA OpsTyped ==
  ASSUME NEW S, NEW s \in Seq(S)
  PROVE  Ops(s) \subseteq S
BY ElementOfSeq, LenProperties DEF Ops

LEMMA OpsLeft ==
  ASSUME NEW S, NEW s \in Seq(S), s # <<>>
  PROVE  /\ Head(s) \in Ops(s) /\ Head(s) \in S
         /\ Tail(s) \in Seq(S) /\ Ops(Tail(s)) \subseteq Ops(s)
<1>1. Len(s) \in Nat /\ Len(s) # 0 /\ DOMAIN s = 1..Len(s)
  BY EmptySeq, LenProperties
<1>2. /\ Head(s) = s[1] /\ Tail(s) \in Seq(S) /\ Len(Tail(s)) = Len(s) - 1
      /\ \A i \in 1..Len(Tail(s)) : Tail(s)[i] = s[i + 1]
  BY HeadTailProperties
<1> DEFINE t == Tail(s)
<1>3. t \in Seq(S) /\ Len(t) = Len(s) - 1 /\ \A i \in 1..Len(t) : t[i] = s[i + 1]
  BY <1>2
<1>4. DOMAIN t = 1..Len(t)
  BY <1>3, LenProperties
<1> HIDE DEF t
<1>5. Ops(t) \subseteq Ops(s)
  BY <1>1, <1>3, <1>4 DEF Ops
<1>6. Head(s) \in Ops(s) /\ Head(s) \in S
  <2>1. 1 \in DOMAIN s
    BY <1>1
  <2>2. s[1] \in S
    BY <1>1, <2>1, ElementOfSeq
  <2>3. QED
    BY <1>2, <2>1, <2>2 DEF Ops
<1>7. QED
  BY <1>3, <1>5, <1>6 DEF t

LEMMA TailOf ==
  /\ \A a : Head(<<a>>) = a /\ Tail(<<a>>) = <<>>
  /\ \A a, b : Head(<<a, b>>) = a /\ Tail(<<a, b>>) = <<b>>
  /\ \A a, b, c : Head(<<a, b, c>>) = a /\ Tail(<<a, b, c>>) = <<b, c>>
  /\ \A a, b, c, d : Head(<<a, b, c, d>>) = a /\ Tail(<<a, b, c, d>>) = <<b, c, d>>
OBVIOUS

LEMMA SeqOf ==
  ASSUME NEW S
  PROVE  /\ <<>> \in Seq(S)
         /\ \A a \in S : <<a>> \in Seq(S)
         /\ \A a, b \in S : <<a, b>> \in Seq(S)
         /\ \A a, b, c \in S : <<a, b, c>> \in Seq(S)
         /\ \A a, b, c, d \in S : <<a, b, c, d>> \in Seq(S)
OBVIOUS

LEMMA Joined ==
  ASSUME NEW a, NEW b
  PROVE  <<a>> \o <<b>> = <<a, b>> /\ <<>> \o <<b>> = <<b>>
<1> DEFINE s == <<a>>
           t == <<b>>
           u == <<a, b>>
<1>1. /\ s \in Seq({a, b}) /\ Len(s) = 1 /\ s[1] = a
      /\ t \in Seq({a, b}) /\ Len(t) = 1 /\ t[1] = b
      /\ u \in Seq({a, b}) /\ Len(u) = 2 /\ u[1] = a /\ u[2] = b
  OBVIOUS
<1> HIDE DEF s, t, u
<1>2. /\ s \o t \in Seq({a, b}) /\ Len(s \o t) = 1 + 1
      /\ \A i \in 1..1 + 1 : (s \o t)[i] = IF i <= 1 THEN s[i] ELSE t[i - 1]
  BY <1>1, ConcatProperties
<1>3. s \o t = u
  <2>1. \A i \in 1..Len(u) : (s \o t)[i] = u[i]
    BY <1>1, <1>2
  <2>2. QED
    BY <1>1, <1>2, <2>1, SeqEqual
<1>4. <<>> \o t = t
  BY <1>1, ConcatEmptySeq
<1>5. QED
  BY <1>3, <1>4 DEF s, t, u

(* The kinds of writes.                                                    *)
LEMMA OpKinds ==
  /\ \A n \in {"src", "tar"}, c \in Contents \cup FileMirrors :
       /\ Entry(n, c) \in Op /\ Entry(n, c).op = "entry"
       /\ Entry(n, c).name = n /\ Entry(n, c).to = c
  /\ \A n \in {"src", "tar"}, c \in {Broken} \cup SUBSET Versions :
       /\ Write(n, c) \in Op /\ Write(n, c).op = "write"
       /\ Write(n, c).name = n /\ Write(n, c).to = c
  /\ \A n \in {"src", "tar"}, s \in {NoFile, Old} \cup SUBSET Versions :
       /\ Mark(n, s) \in Op /\ Mark(n, s).op = "stamp"
       /\ Mark(n, s).name = n /\ Mark(n, s).to = s
  /\ \A m \in FileMirrors : Move(m) \in Op /\ Move(m).op = "mirror" /\ Move(m).name = m
BY DEF Op, Entry, Write, Mark, Move

LEMMA NoWrite == <<>> \in Seq(Op) /\ Ops(<<>>) = {}
BY OpsOf

LEMMA OneWrite ==
  ASSUME NEW a \in Op
  PROVE  <<a>> \in Seq(Op) /\ Ops(<<a>>) = {a} /\ <<a>> # <<>>
BY OpsOf

LEMMA TwoWrites ==
  ASSUME NEW a \in Op, NEW b \in Op
  PROVE  <<a, b>> \in Seq(Op) /\ Ops(<<a, b>>) = {a, b} /\ <<a, b>> # <<>>
BY OpsOf

LEMMA MoreWrites ==
  ASSUME NEW s \in Seq(Op), NEW t \in Seq(Op)
  PROVE  s \o t \in Seq(Op) /\ Ops(s \o t) = Ops(s) \cup Ops(t)
BY OpsOfBoth

(***************************************************************************)
(* verify_donestamp, update_stamp and m.clean.                             *)
(***************************************************************************)
LEMMA WantedVersions ==
  ASSUME Typed
  PROVE  /\ \A p \in Procs : want[p] \in Versions /\ {want[p]} \in SUBSET Versions
         /\ 1..upstream \in SUBSET Versions
         /\ \A v \in Versions : v <= upstream => v \in 1..upstream
         /\ \A v \in 1..upstream : {v} \in SUBSET Versions
<1>1. LastVersion \in Nat /\ upstream \in 1..LastVersion /\ want \in [Procs -> 1..LastVersion]
  BY Constants DEF Typed, TypeOK, Versions
<1>2. QED
  BY <1>1 DEF Versions

LEMMA ContentTyped ==
  ASSUME Typed, NEW n \in {"src", "tar"}
  PROVE  Content(n) \in Contents
<1>1. disk[n] \in Contents \cup FileMirrors /\ mirror \in [FileMirrors -> Contents]
  BY DEF Typed, TypeOK
<1>2. QED
  BY <1>1 DEF Content

LEMMA VerifyWritesOf ==
  ASSUME Typed, holder # NoProc
  PROVE  /\ VerifyWrites \in Seq(Op)
         /\ url = "git" => VerifyWrites = <<>>
         /\ url = "wget" /\ stamp["src"] = NoFile => VerifyWrites = <<>> /\ ~Verified
         /\ url = "wget" /\ StampTrue /\ stamp["src"] # NoFile /\ Verified =>
              Right /\ VerifyWrites \in {<<>>, Storing}
         /\ url = "wget" /\ stamp["src"] # NoFile /\ ~Verified =>
              VerifyWrites \in {<<Mark("src", NoFile)>>,
                                <<Entry("src", NoFile), Mark("src", NoFile)>>}
<1>1. holder \in Procs /\ {want[holder]} \in SUBSET Versions
  BY WantedVersions DEF Typed, TypeOK
<1>2. url = "wget" /\ stamp["src"] # NoFile /\ Verified /\ stamp["src"] = Old =>
        Content("src") = {want[holder]}
  BY DEF Verified, Checked, Match
<1>3. CASE url = "git"
  BY <1>3 DEF VerifyWrites, Checked
<1>4. CASE url = "wget" /\ stamp["src"] = NoFile
  BY <1>4 DEF VerifyWrites, Checked, Verified
<1>5. CASE url = "wget" /\ stamp["src"] # NoFile /\ Verified
  <2>1. VerifyWrites = IF stamp["src"] = Old THEN Storing ELSE <<>>
    BY <1>2, <1>5 DEF VerifyWrites, Checked, StoreSums, Storing
  <2>2. VerifyWrites \in Seq(Op)
    BY <1>1, <2>1, OpKinds DEF Storing
  <2>3. StampTrue => Right
    BY <1>5 DEF Verified, Checked, Match, Right, StampTrue, Exists
  <2>4. QED
    BY <1>5, <2>1, <2>2, <2>3
<1>6. CASE url = "wget" /\ stamp["src"] # NoFile /\ ~Verified
  <2> DEFINE a == Entry("src", NoFile)
             b == Mark("src", NoFile)
  <2>1. a \in Op /\ b \in Op
    BY OpKinds DEF Contents
  <2>2. VerifyWrites = IF Exists("src") THEN <<a>> \o <<b>> ELSE <<>> \o <<b>>
    BY <1>6 DEF VerifyWrites, Checked
  <2> HIDE DEF a, b
  <2>3. VerifyWrites \in {<<b>>, <<a, b>>}
    BY <2>2, Joined
  <2>4. VerifyWrites \in Seq(Op)
    BY <2>1, <2>3, SeqOf
  <2>5. VerifyWrites \in {<<Mark("src", NoFile)>>, <<Entry("src", NoFile), Mark("src", NoFile)>>}
    BY <2>3 DEF a, b
  <2>6. QED
    BY <1>6, <2>4, <2>5
<1>7. QED
  BY <1>3, <1>4, <1>5, <1>6 DEF Typed, TypeOK

LEMMA StampWritesOf ==
  ASSUME Typed, holder # NoProc
  PROVE  /\ StampWrites \in Seq(Op)
         /\ stamp["src"] # NoFile => StampGood /\ StampWrites = <<>>
         /\ url = "git" => StampGood /\ StampWrites \in {<<>>, <<Mark("src", Old)>>}
         /\ url = "git" /\ stamp["src"] = NoFile => StampWrites = <<Mark("src", Old)>>
         /\ url = "wget" /\ stamp["src"] = NoFile /\ StampGood =>
              Right /\ StampWrites = Storing
         /\ ~StampGood => /\ stamp["src"] = NoFile
                          /\ StampWrites = <<Entry("src", NoFile), Mark("src", NoFile)>>
<1>1. {want[holder]} \in SUBSET Versions
  BY WantedVersions DEF Typed, TypeOK
<1>2. StampGood /\ stamp["src"] = NoFile =>
        StampWrites = IF url = "wget" THEN Storing ELSE <<Mark("src", Old)>>
  BY DEF StampGood, StampWrites, StoreSums, Storing, Checked, Match
<1>3. Mark("src", {want[holder]}) \in Op /\ Mark("src", Old) \in Op /\ Mark("src", NoFile) \in Op
      /\ Entry("src", NoFile) \in Op
  BY <1>1, OpKinds DEF Contents
<1>4. StampWrites \in Seq(Op)
  <2>1. Storing \in Seq(Op) /\ <<Mark("src", Old)>> \in Seq(Op)
    BY <1>3 DEF Storing
  <2>2. CASE StampGood /\ stamp["src"] = NoFile
    BY <1>2, <2>1, <2>2
  <2>3. CASE ~(StampGood /\ stamp["src"] = NoFile)
    BY <1>3, <2>3 DEF StampWrites
  <2>4. QED
    BY <2>2, <2>3
<1>5. QED
  BY <1>2, <1>4 DEF StampWrites, StampGood, Checked, Match, Right

LEMMA CleanWritesOf ==
  ASSUME Typed
  PROVE  /\ CleanWrites \in Seq(Op)
         /\ url = "wget" => CleanWrites = <<Entry("src", NoFile)>>
         /\ url = "git" =>
              Ops(CleanWrites) \subseteq {Write("src", Broken), Entry("src", NoFile),
                                          Entry("tar", NoFile), Mark("tar", NoFile)}
<1> DEFINE a == Write("src", Broken)
           b == Entry("src", NoFile)
           c == Entry("tar", NoFile)
           d == Mark("tar", NoFile)
           broken == IF Exists("src") THEN <<a>> ELSE <<>>
<1>1. a \in Op /\ b \in Op /\ c \in Op /\ d \in Op
  BY OpKinds DEF Contents
<1>2. CleanWrites = IF url = "wget" THEN <<b>> ELSE broken \o <<b, c, d>>
  BY DEF CleanWrites
<1> HIDE DEF a, b, c, d
<1>3. broken \in Seq(Op) /\ Ops(broken) \subseteq {a}
  BY <1>1, OpsOf
<1> HIDE DEF broken
<1>4. <<b, c, d>> \in Seq(Op) /\ <<b>> \in Seq(Op)
  BY <1>1
<1>5. broken \o <<b, c, d>> \in Seq(Op) /\ Ops(broken \o <<b, c, d>>) \subseteq {a, b, c, d}
  <2>1. /\ broken \o <<b, c, d>> \in Seq(Op)
        /\ Ops(broken \o <<b, c, d>>) = Ops(broken) \cup Ops(<<b, c, d>>)
    BY <1>3, <1>4, OpsOfBoth
  <2>2. QED
    BY <1>3, <2>1, OpsOf
<1>6. QED
  BY <1>2, <1>4, <1>5 DEF a, b, c, d

(***************************************************************************)
(* Steps of control: what they queue, and where they go on.                *)
(***************************************************************************)
LEMMA ControlTyped ==
  ASSUME Typed, todo' \in Seq(Op), RunTyped(run'),
         UNCHANGED <<external, disks, holder, result, last>>
  PROVE  Typed'
BY DEF Typed, TypeOK, external, disks

LEMMA RunSteps ==
  ASSUME RunTyped(run)
  PROVE  /\ \A pc \in Pcs : RunTyped([run EXCEPT !.pc = pc])
         /\ \A pc \in Pcs : \A l : RunTyped([run EXCEPT !.pc = pc, !.left = l])
         /\ \A pc \in Pcs, b \in BOOLEAN : \A l :
              RunTyped([run EXCEPT !.pc = pc, !.pre = b, !.left = l])
         /\ \A pc \in Pcs, b \in BOOLEAN : RunTyped([run EXCEPT !.verified = b, !.pc = pc])
         /\ \A pc \in Pcs, o \in {"ok", "failed"} :
              RunTyped([run EXCEPT !.pc = pc, !.outcome = o])
         /\ \A pc \in Pcs, path \in {"src"} \cup FileMirrors :
              RunTyped([run EXCEPT !.pc = pc, !.localpath = path])
         /\ \A path \in {"src"} \cup FileMirrors :
              /\ RunTyped(Given(path))
              /\ Given(path).pc = (IF run.pre THEN "again" ELSE "end")
              /\ Given(path).localpath = path /\ Given(path).outcome = run.outcome
         /\ RunTyped(NextMirror)
         /\ NextMirror.pc = "mirror" /\ NextMirror.localpath = run.localpath
         /\ NextMirror.outcome = run.outcome
BY DEF RunTyped, Pcs, Given, NextMirror

(***************************************************************************)
(* Files.                                                                  *)
(***************************************************************************)
LEMMA FileControl ==
  ASSUME FileInv, UNCHANGED <<external, disks, holder, result, last>>, FileRun',
         \A p \in Procs : result[p] = "ok" /\ Agreed =>
           /\ todo' = <<>> \/ Marking'
           /\ run'.pc \in {"idle", "verify", "again", "end", "close"}
  PROVE  FileInv'
<1>1. StampTrue'
  BY DEF FileInv, StampTrue, Content, disks
<1>2. FileKept'
  BY DEF FileInv, FileKept, Agreed, Content, disks, external
<1>3. QED
  BY <1>1, <1>2 DEF FileInv

FileStep == Typed' /\ Routes' /\ FileInv'

LEMMA FileVerify ==
  ASSUME IInv, url = "wget", Verify
  PROVE  FileStep
<1>1. Typed /\ Routes /\ FileInv /\ RunTyped(run)
  BY DEF IInv, Typed
<1>2. /\ At("verify") /\ todo' = VerifyWrites /\ VerifyWrites \in Seq(Op)
      /\ UNCHANGED <<external, disks, holder, result, last>>
  BY <1>1, VerifyWritesOf DEF Verify, Then, At
<1>3. /\ RunTyped(run') /\ run'.outcome = run.outcome
      /\ IF Verified THEN run'.pc = "again" /\ run'.localpath = "src"
         ELSE run'.pc = "mirror" /\ run'.localpath = run.localpath
  <2>1. Verified => ~NeedUpdate
    BY DEF Verified, Checked, NeedUpdate
  <2>2. CASE Verified
    <3>1. run' = [run EXCEPT !.pc = "again", !.localpath = "src"]
      BY <2>1, <2>2 DEF Verify, Then
    <3>2. RunTyped(run')
      BY <1>1, <3>1, RunSteps DEF Pcs
    <3>3. QED
      BY <1>1, <2>2, <3>1, <3>2 DEF RunTyped
  <2>3. CASE ~Verified
    <3>1. run' = [run EXCEPT !.pc = "mirror", !.left = Premirrors[url]]
      BY <2>3 DEF Verify, TryPremirror, Then
    <3>2. RunTyped(run')
      BY <1>1, <3>1, RunSteps DEF Pcs
    <3>3. QED
      BY <1>1, <2>3, <3>1, <3>2 DEF RunTyped
  <2>4. QED
    BY <2>2, <2>3
<1>4. Typed'
  BY <1>1, <1>2, <1>3, ControlTyped
<1>5. run.outcome = "none" /\ run.localpath = NoFile /\ holder # NoProc
  BY <1>1, <1>2 DEF At, Routes
<1>6. Routes'
  BY <1>1, <1>2, <1>3, <1>5 DEF Routes, external
<1>7. CASE stamp["src"] = NoFile
  <2>1. todo' = <<>> /\ run'.pc = "mirror" /\ Ops(todo') = {}
    BY <1>1, <1>2, <1>3, <1>5, <1>7, VerifyWritesOf, OpsOf
  <2>2. FileRun'
    BY <1>2, <1>3, <1>5, <1>7, <2>1 DEF FileRun, disks
  <2>3. \A p \in Procs : ~(result[p] = "ok" /\ Agreed)
    BY <1>1, <1>7 DEF FileInv, FileKept
  <2>4. QED
    BY <1>1, <1>2, <1>4, <1>6, <2>2, <2>3, FileControl DEF FileStep
<1>8. CASE stamp["src"] # NoFile /\ Verified
  <2>1. Right /\ todo' \in {<<>>, Storing}
    BY <1>1, <1>2, <1>5, <1>8, VerifyWritesOf DEF FileInv
  <2>2. Right' /\ (todo' = <<>> \/ Marking')
    BY <1>2, <2>1 DEF Right, Marking, Storing, Content, disks, external
  <2>3. \A w \in Ops(todo') : w.op = "stamp" => Marking'
    BY <2>2, OpsOf
  <2>4. FileRun'
    BY <1>2, <1>3, <1>5, <1>8, <2>2, <2>3 DEF FileRun, disks
  <2>5. QED
    BY <1>1, <1>2, <1>3, <1>4, <1>6, <1>8, <2>2, <2>4, FileControl DEF FileStep
<1>9. CASE stamp["src"] # NoFile /\ ~Verified
  <2>1. Removing'
    BY <1>1, <1>2, <1>5, <1>9, VerifyWritesOf DEF Removing
  <2>2. \A w \in Ops(todo') : w.op = "stamp" => w = Mark("src", NoFile)
    BY <2>1, OpsOf DEF Removing, Entry
  <2>3. FileRun'
    BY <1>2, <1>3, <1>5, <1>9, <2>1, <2>2 DEF FileRun, disks
  <2>4. ASSUME NEW p \in Procs, result[p] = "ok", Agreed PROVE FALSE
    <3>1. Content("src") = {want[p]} /\ want[p] = want[holder]
      BY <1>1, <1>5, <2>4 DEF FileInv, FileKept, Agreed, Typed, TypeOK
    <3>2. {want[p]} # NoFile
      BY <1>1, <2>4, WantedVersions, Constants
    <3>3. QED
      BY <1>1, <1>9, <3>1, <3>2 DEF Verified, Exists, Match, FileInv, StampTrue
  <2>5. QED
    BY <1>1, <1>2, <1>4, <1>6, <2>3, <2>4, FileControl DEF FileStep
<1>10. QED
  BY <1>7, <1>8, <1>9

LEMMA FileAgain ==
  ASSUME IInv, url = "wget", Again
  PROVE  FileStep
<1>1. Typed /\ Routes /\ FileInv /\ RunTyped(run)
  BY DEF IInv, Typed
<1>2. /\ At("again") /\ todo = <<>> /\ todo' = VerifyWrites /\ VerifyWrites \in Seq(Op)
      /\ UNCHANGED <<external, disks, holder, result, last>>
  BY <1>1, VerifyWritesOf DEF Again, Then, At
<1>3. run.outcome = "none" /\ holder # NoProc
  BY <1>1, <1>2 DEF At, Routes
<1>4. stamp["src"] # NoFile => Right
  BY <1>1, <1>2, <1>3 DEF FileInv, FileRun, At, Removing
<1>5. Verified <=> stamp["src"] # NoFile
  <2>1. ASSUME stamp["src"] # NoFile PROVE Verified
    <3>1. Right /\ {want[holder]} # NoFile
      BY <1>1, <1>3, <1>4, <2>1, WantedVersions, Constants DEF Typed, TypeOK
    <3>2. QED
      BY <1>1, <2>1, <3>1 DEF Verified, Exists, Match, Right, FileInv, StampTrue
  <2>2. QED
    BY <2>1 DEF Verified
<1>6. /\ RunTyped(run') /\ run'.outcome = "none" /\ run'.localpath = run.localpath
      /\ run'.pc \in {"upstream", "end"}
      /\ run'.pc = "upstream" => ~Verified /\ run.localpath = NoFile
  <2>1. PICK pc \in {"upstream", "end"} :
          /\ run' = [run EXCEPT !.verified = Verified, !.pc = pc]
          /\ pc = "upstream" => ~Verified /\ run.localpath = NoFile
    <3>1. Verified => ~NeedUpdate
      BY DEF Verified, Checked, NeedUpdate
    <3>2. run' = [run EXCEPT !.verified = Verified,
                             !.pc = IF run.localpath = NoFile /\ (~Verified \/ NeedUpdate)
                                    THEN IF url = "git" THEN "extract" ELSE "upstream"
                                    ELSE "end"]
      BY DEF Again, Then
    <3>3. QED
      BY <3>1, <3>2
  <2>2. Verified \in BOOLEAN
    BY DEF Verified
  <2>3. RunTyped(run')
    BY <1>1, <2>1, <2>2, RunSteps DEF Pcs
  <2>4. QED
    BY <1>1, <1>3, <2>1, <2>3 DEF RunTyped
<1>7. Typed' /\ Routes'
  <2>1. Typed'
    BY <1>1, <1>2, <1>6, ControlTyped
  <2>2. QED
    BY <1>1, <1>2, <1>3, <1>6, <2>1 DEF Routes, external
<1>8. CASE stamp["src"] = NoFile
  <2>1. todo' = <<>> /\ Ops(todo') = {}
    BY <1>1, <1>2, <1>3, <1>8, VerifyWritesOf, OpsOf
  <2>2. FileRun'
    BY <1>2, <1>6, <1>8, <2>1 DEF FileRun, disks
  <2>3. \A p \in Procs : ~(result[p] = "ok" /\ Agreed)
    BY <1>1, <1>8 DEF FileInv, FileKept
  <2>4. QED
    BY <1>1, <1>2, <1>7, <2>2, <2>3, FileControl DEF FileStep
<1>9. CASE stamp["src"] # NoFile
  <2>1. Right /\ todo' \in {<<>>, Storing}
    BY <1>1, <1>2, <1>3, <1>5, <1>9, VerifyWritesOf DEF FileInv
  <2>2. Right' /\ (todo' = <<>> \/ Marking')
    BY <1>2, <2>1 DEF Right, Marking, Storing, Content, disks, external
  <2>3. \A w \in Ops(todo') : w.op = "stamp" => Marking'
    BY <2>2, OpsOf
  <2>4. FileRun' /\ run'.pc = "end"
    BY <1>2, <1>5, <1>6, <1>9, <2>2, <2>3 DEF FileRun, disks
  <2>5. QED
    BY <1>1, <1>2, <1>7, <2>2, <2>4, FileControl DEF FileStep
<1>10. QED
  BY <1>8, <1>9

\* Where a file is still looked for, it has no stamp, and no fetch that
\* wants the same has ended well.
LEMMA FileSought ==
  ASSUME IInv, url = "wget",
         At("early") \/ At("upstream") \/ At("upstream failed") \/ At("mirror") \/ At("check link")
  PROVE  /\ Typed /\ Routes /\ FileInv /\ RunTyped(run) /\ holder # NoProc
         /\ run.outcome = "none" /\ run.localpath = NoFile
         /\ stamp["src"] = NoFile /\ \A p \in Procs : ~(result[p] = "ok" /\ Agreed)
<1>1. Typed /\ Routes /\ FileInv /\ RunTyped(run) /\ holder # NoProc /\ todo = <<>>
  BY DEF IInv, Typed, At
<1>2. run.outcome = "none" /\ run.localpath = NoFile
  BY <1>1 DEF Routes, RunTyped, At
<1>3. stamp["src"] = NoFile
  BY <1>1 DEF FileInv, FileRun, At, Removing
<1>4. QED
  BY <1>1, <1>2, <1>3 DEF FileInv, FileKept

\* What is written then are no stamps but those of update_stamp.
LEMMA FileSearch ==
  ASSUME IInv, url = "wget",
         At("early") \/ At("upstream") \/ At("upstream failed") \/ At("mirror") \/ At("check link"),
         NEW writes \in Seq(Op), NEW next, Then(writes, next), RunTyped(next),
         next.outcome = "none",
         next.pc \in {"again", "mirror", "check link", "upstream", "early", "upstream failed", "end"},
         next.localpath # NoFile => next.pc \in {"again", "end"},
         next.pc = "check link" => Head(next.left) \in FileMirrors,
         \A w \in Ops(writes) : w.op = "stamp" =>
           \/ w = Mark("src", NoFile)
           \/ /\ writes = Storing /\ Right
              /\ next.pc \in {"again", "end"}
  PROVE  FileStep
<1>1. /\ Typed /\ Routes /\ FileInv /\ stamp["src"] = NoFile /\ holder # NoProc
      /\ \A p \in Procs : ~(result[p] = "ok" /\ Agreed)
  BY FileSought
<1>2. /\ todo' = writes /\ run' = next
      /\ UNCHANGED <<external, disks, holder, result, last>>
  BY DEF Then
<1>3. Typed'
  BY <1>1, <1>2, ControlTyped
<1>4. Routes'
  BY <1>1, <1>2 DEF Routes, external
<1>5. FileRun'
  BY <1>1, <1>2 DEF FileRun, Marking, Storing, Right, Content, disks, external
<1>6. QED
  BY <1>1, <1>2, <1>3, <1>4, <1>5, FileControl DEF FileStep

(***************************************************************************)
(* Downloads of files with wget, from upstream or a mirror.                *)
(***************************************************************************)
LEMMA DownloadWritesOf ==
  ASSUME Typed, NEW n \in {"src", "tar"}, NEW served \in SUBSET Versions,
         NEW c \in Downloads(n, served)
  PROVE  /\ DownloadWrites(n, c) \in Seq(Op)
         /\ \A w \in Ops(DownloadWrites(n, c)) : w.op = "write" /\ w.name = n
         /\ DownloadWrites(n, c) = <<>> =>
              Exists(n) /\ (Content(n) = served \/ c = Content(n))
<1>1. Content(n) \in Contents
  BY ContentTyped
<1>2. c \in {served, Broken, Content(n)}
  BY DEF Downloads
<1>3. CASE c = Content(n)
  <2>1. Exists(n)
    <3>1. served # NoFile /\ Broken # NoFile
      BY Constants
    <3>2. QED
      BY <1>3, <3>1 DEF Downloads, Exists
  <2>2. DownloadWrites(n, c) = <<>>
    BY <1>3 DEF DownloadWrites
  <2>3. QED
    BY <1>3, <2>1, <2>2, NoWrite
<1>4. CASE c # Content(n)
  <2> DEFINE a == Write(n, Broken)
             b == Write(n, c)
  <2>1. /\ a \in Op /\ a.op = "write" /\ a.name = n
        /\ b \in Op /\ b.op = "write" /\ b.name = n
    BY <1>2, <1>4, OpKinds
  <2>2. DownloadWrites(n, c) = <<a, b>>
    BY <1>4 DEF DownloadWrites
  <2> HIDE DEF a, b
  <2>3. <<a, b>> \in Seq(Op) /\ Ops(<<a, b>>) = {a, b} /\ <<a, b>> # <<>>
    BY <2>1, TwoWrites
  <2>4. QED
    BY <2>1, <2>2, <2>3
<1>5. QED
  BY <1>3, <1>4

LEMMA PartWritesOf ==
  ASSUME Typed, NEW n \in {"src", "tar"}, NEW writes \in PartWrites(n)
  PROVE  writes \in Seq(Op) /\ \A w \in Ops(writes) : w = Write(n, Broken)
<1>1. writes \in {<<>>, <<Write(n, Broken)>>}
  BY DEF PartWrites
<1>2. Write(n, Broken) \in Op
  BY OpKinds
<1>3. /\ <<Write(n, Broken)>> \in Seq(Op)
      /\ Ops(<<Write(n, Broken)>>) = {Write(n, Broken)}
  BY <1>2, OneWrite
<1>4. CASE writes = <<>>
  BY <1>4, NoWrite
<1>5. CASE writes = <<Write(n, Broken)>>
  BY <1>3, <1>5
<1>6. QED
  BY <1>1, <1>4, <1>5

LEMMA FileUpstream ==
  ASSUME IInv, url = "wget",
         UpstreamWgetFails \/ UpstreamWget(Broken) \/ \E v \in Versions : UpstreamWget({v})
  PROVE  FileStep
<1>1. At("upstream")
  BY DEF UpstreamWgetFails, UpstreamWget
<1>2. /\ Typed /\ RunTyped(run) /\ run.outcome = "none" /\ run.localpath = NoFile
  BY <1>1, FileSought
<1>3. ASSUME NEW writes \in Seq(Op), \A w \in Ops(writes) : w.op = "write",
             NEW pc \in {"early", "upstream failed"}, Then(writes, [run EXCEPT !.pc = pc])
      PROVE  FileStep
  <2> DEFINE next == [run EXCEPT !.pc = pc]
  <2>1. RunTyped(next)
    BY <1>2, RunSteps DEF Pcs
  <2>2. next.pc = pc /\ next.outcome = "none" /\ next.localpath = NoFile
    BY <1>2 DEF RunTyped
  <2>3. Then(writes, next)
    BY <1>3
  <2> HIDE DEF next
  <2>4. QED
    BY <1>1, <1>3, <2>1, <2>2, <2>3, FileSearch
<1>4. ASSUME NEW c, UpstreamWget(c) PROVE FileStep
  <2>1. PICK v \in 1..upstream : c \in Downloads("src", {v})
    BY <1>4 DEF UpstreamWget
  <2>2. {v} \in SUBSET Versions
    BY <1>2, WantedVersions
  <2> DEFINE writes == DownloadWrites("src", c)
  <2>3. writes \in Seq(Op) /\ \A w \in Ops(writes) : w.op = "write"
    BY <1>2, <2>1, <2>2, DownloadWritesOf
  <2>4. Then(writes, [run EXCEPT !.pc = "early"])
    BY <1>4 DEF UpstreamWget
  <2> HIDE DEF writes
  <2>5. QED
    BY <1>3, <2>3, <2>4
<1>5. ASSUME UpstreamWgetFails PROVE FileStep
  <2>1. PICK writes \in PartWrites("src") :
          Then(writes, [run EXCEPT !.pc = "upstream failed"])
    BY <1>5 DEF UpstreamWgetFails
  <2>2. writes \in Seq(Op) /\ \A w \in Ops(writes) : w.op = "write"
    BY <1>2, PartWritesOf DEF Write
  <2>3. QED
    BY <1>3, <2>1, <2>2
<1>6. QED
  BY <1>4, <1>5

LEMMA FileUpstreamEnds ==
  ASSUME IInv, url = "wget", Early \/ UpstreamFailed
  PROVE  FileStep
<1>1. At("early") \/ At("upstream failed")
  BY DEF Early, UpstreamFailed
<1>2. /\ Typed /\ RunTyped(run) /\ holder # NoProc /\ run.outcome = "none"
      /\ run.localpath = NoFile /\ stamp["src"] = NoFile
  BY <1>1, FileSought
<1>3. CASE Early
  <2>1. /\ StampWrites \in Seq(Op)
        /\ \A w \in Ops(StampWrites) : w.op = "stamp" =>
             \/ w = Mark("src", NoFile)
             \/ StampGood /\ StampWrites = Storing /\ Right
    <3>1. StampWrites \in Seq(Op)
      BY <1>2, StampWritesOf
    <3>2. CASE StampGood
      <4>1. Right /\ StampWrites = Storing
        BY <1>2, <3>2, StampWritesOf
      <4>2. QED
        BY <3>1, <3>2, <4>1
    <3>3. CASE ~StampGood
      <4>1. StampWrites = <<Entry("src", NoFile), Mark("src", NoFile)>>
        BY <1>2, <3>3, StampWritesOf
      <4>2. Ops(StampWrites) = {Entry("src", NoFile), Mark("src", NoFile)}
        BY <4>1, OpsOf
      <4>3. QED
        BY <3>1, <4>2 DEF Entry
    <3>4. QED
      BY <3>2, <3>3
  <2>2. CASE StampGood
    <3> DEFINE next == [run EXCEPT !.pc = "end", !.localpath = "src"]
    <3>1. RunTyped(next)
      BY <1>2, RunSteps DEF Pcs
    <3>2. next.pc = "end" /\ next.outcome = "none"
      BY <1>2 DEF RunTyped
    <3>3. Then(StampWrites, next) /\ At("early")
      BY <1>3, <2>2 DEF Early
    <3> HIDE DEF next
    <3>4. QED
      BY <2>1, <3>1, <3>2, <3>3, FileSearch
  <2>3. CASE ~StampGood
    <3> DEFINE next == [run EXCEPT !.pc = "upstream failed"]
    <3>1. RunTyped(next)
      BY <1>2, RunSteps DEF Pcs
    <3>2. /\ next.pc = "upstream failed"
          /\ next.outcome = "none" /\ next.localpath = NoFile
      BY <1>2 DEF RunTyped
    <3>3. Then(StampWrites, next) /\ At("early")
      BY <1>3, <2>3 DEF Early
    <3> HIDE DEF next
    <3>4. \A w \in Ops(StampWrites) : w.op = "stamp" => w = Mark("src", NoFile)
      BY <2>1, <2>3
    <3>5. QED
      BY <2>1, <3>1, <3>2, <3>3, <3>4, FileSearch
  <2>4. QED
    BY <2>2, <2>3
<1>4. CASE UpstreamFailed
  <2> DEFINE writes == IF run.verified THEN <<>> ELSE CleanWrites
             next   == [run EXCEPT !.pc = "mirror", !.pre = FALSE, !.left = Mirrors[url]]
  <2>1. writes \in {<<>>, <<Entry("src", NoFile)>>} /\ Entry("src", NoFile) \in Op
    BY <1>2, CleanWritesOf, OpKinds DEF Contents
  <2>2. Then(writes, next) /\ At("upstream failed")
    BY <1>4 DEF UpstreamFailed
  <2>3. RunTyped(next)
    BY <1>2, RunSteps DEF Pcs
  <2>4. next.pc = "mirror" /\ next.outcome = "none" /\ next.localpath = NoFile
    BY <1>2 DEF RunTyped
  <2> HIDE DEF next, writes
  <2>5. writes \in Seq(Op) /\ \A w \in Ops(writes) : w.op # "stamp"
    <3>1. CASE writes = <<>>
      BY <3>1, NoWrite
    <3>2. CASE writes = <<Entry("src", NoFile)>>
      BY <2>1, <3>2, OneWrite DEF Entry
    <3>3. QED
      BY <2>1, <3>1, <3>2
  <2>6. QED
    BY <2>2, <2>3, <2>4, <2>5, FileSearch
<1>5. QED
  BY <1>3, <1>4

(***************************************************************************)
(* Mirrors of files.                                                       *)
(***************************************************************************)
LEMMA FileNoMirrorLeft ==
  ASSUME IInv, url = "wget", NoMirrorLeft
  PROVE  FileStep
<1>1. At("mirror")
  BY DEF NoMirrorLeft
<1>2. Typed /\ RunTyped(run) /\ run.outcome = "none" /\ run.localpath = NoFile
  BY <1>1, FileSought
<1> DEFINE pc   == IF run.pre THEN "again" ELSE "end"
           next == [run EXCEPT !.pc = pc]
<1>3. RunTyped(next)
  BY <1>2, RunSteps DEF Pcs
<1>4. next.pc \in {"again", "end"} /\ next.outcome = "none" /\ next.localpath = NoFile
  BY <1>2 DEF RunTyped
<1>5. Then(<<>>, next)
  BY DEF NoMirrorLeft
<1> HIDE DEF next
<1>6. QED
  BY <1>1, <1>3, <1>4, <1>5, NoWrite, FileSearch

LEMMA FileLinkToMirror ==
  ASSUME IInv, url = "wget", NEW m, LinkToMirror(m)
  PROVE  FileStep
<1>1. At("mirror") /\ m = Head(run.left) /\ m \in FileMirrors
  BY DEF LinkToMirror
<1>2. Typed /\ RunTyped(run) /\ run.outcome = "none" /\ run.localpath = NoFile
  BY <1>1, FileSought
<1> DEFINE next == [run EXCEPT !.pc = "check link"]
           a == Entry("src", NoFile)
           b == Entry("src", m)
<1>3. /\ RunTyped(next) /\ next.pc = "check link" /\ next.left = run.left
      /\ next.outcome = "none" /\ next.localpath = NoFile
  <2>1. RunTyped(next)
    BY <1>2, RunSteps DEF Pcs
  <2>2. QED
    BY <1>2, <2>1 DEF RunTyped
<1>4. \/ Then(<<>>, NextMirror)
      \/ Then(<<>>, next)
      \/ Then((IF disk["src"] # NoFile THEN <<a>> ELSE <<>>) \o <<b>>, next)
  BY DEF LinkToMirror
<1>5. a \in Op /\ b \in Op /\ a.op = "entry" /\ b.op = "entry"
  BY <1>1, OpKinds DEF Contents
<1> HIDE DEF next, a, b
<1>6. \/ Then(<<>>, NextMirror)
      \/ \E writes \in {<<>>, <<b>>, <<a, b>>} : Then(writes, next)
  BY <1>4, Joined
<1>7. ASSUME NEW writes \in {<<>>, <<b>>, <<a, b>>}
      PROVE  writes \in Seq(Op) /\ \A w \in Ops(writes) : w.op = "entry"
  <2>1. CASE writes = <<>>
    BY <2>1, NoWrite
  <2>2. CASE writes = <<b>>
    BY <1>5, <2>2, OneWrite
  <2>3. CASE writes = <<a, b>>
    BY <1>5, <2>3, TwoWrites
  <2>4. QED
    BY <1>7, <2>1, <2>2, <2>3
<1>8. CASE Then(<<>>, NextMirror)
  BY <1>1, <1>2, <1>7, <1>8, RunSteps, FileSearch
<1>9. CASE \E writes \in {<<>>, <<b>>, <<a, b>>} : Then(writes, next)
  BY <1>1, <1>3, <1>7, <1>9, FileSearch
<1>10. QED
  BY <1>6, <1>8, <1>9

LEMMA FileCheckLink ==
  ASSUME IInv, url = "wget", CheckLink
  PROVE  FileStep
<1>1. At("check link")
  BY DEF CheckLink
<1>2. /\ Typed /\ Routes /\ RunTyped(run) /\ holder # NoProc
      /\ run.outcome = "none" /\ run.localpath = NoFile /\ stamp["src"] = NoFile
  BY <1>1, FileSought
<1>3. Head(run.left) \in FileMirrors
  BY <1>1, <1>2 DEF Routes, At
<1>4. CASE StampGood
  <2>1. Right /\ StampWrites = Storing /\ StampWrites \in Seq(Op)
    BY <1>2, <1>4, StampWritesOf
  <2> DEFINE next == Given(Head(run.left))
  <2>2. /\ RunTyped(next) /\ next.pc \in {"again", "end"}
        /\ next.outcome = "none"
    BY <1>2, <1>3, RunSteps
  <2>3. Then(StampWrites, next)
    BY <1>4 DEF CheckLink
  <2> HIDE DEF next
  <2>4. QED
    BY <1>1, <2>1, <2>2, <2>3, FileSearch
<1>5. CASE ~StampGood
  <2> DEFINE a == Entry("src", NoFile)
             b == Mark("src", NoFile)
             c == Move(Head(run.left))
             writes == StampWrites \o <<c>>
  <2>1. a \in Op /\ b \in Op /\ c \in Op /\ a.op = "entry" /\ c.op = "mirror"
    BY <1>3, OpKinds DEF Contents
  <2>2. StampWrites = <<a, b>>
    BY <1>2, <1>5, StampWritesOf
  <2>3. Then(writes, NextMirror)
    BY <1>5 DEF CheckLink
  <2>4. b = Mark("src", NoFile)
    OBVIOUS
  <2> HIDE DEF a, b, c
  <2>5. /\ <<a, b>> \in Seq(Op) /\ Ops(<<a, b>>) = {a, b}
        /\ <<c>> \in Seq(Op) /\ Ops(<<c>>) = {c}
    BY <2>1, OneWrite, TwoWrites
  <2>6. writes \in Seq(Op) /\ Ops(writes) = {a, b, c}
    <3>1. /\ <<a, b>> \o <<c>> \in Seq(Op)
          /\ Ops(<<a, b>> \o <<c>>) = Ops(<<a, b>>) \cup Ops(<<c>>)
      BY <2>5, MoreWrites
    <3>2. QED
      BY <2>2, <2>5, <3>1
  <2> HIDE DEF writes
  <2>7. \A w \in Ops(writes) : w.op = "stamp" => w = Mark("src", NoFile)
    BY <2>1, <2>4, <2>6
  <2>8. RunTyped(NextMirror) /\ NextMirror.pc = "mirror" /\ NextMirror.localpath = NoFile
        /\ NextMirror.outcome = "none"
    BY <1>2, RunSteps
  <2>9. QED
    BY <1>1, <2>3, <2>6, <2>7, <2>8, FileSearch
<1>6. QED
  BY <1>4, <1>5

LEMMA FileDownloadFromMirror ==
  ASSUME IInv, url = "wget", NEW m \in AllMirrors, DownloadFromMirror(m)
  PROVE  FileStep
<1>1. At("mirror")
  BY DEF DownloadFromMirror
<1>2. Typed /\ RunTyped(run) /\ run.outcome = "none" /\ run.localpath = NoFile
  BY <1>1, FileSought
<1>3. ASSUME NEW s \in Serves[m], NEW c \in Downloads("src", s),
             Then(DownloadWrites("src", c), Given("src"))
      PROVE  FileStep
  <2> DEFINE writes == DownloadWrites("src", c)
             next   == Given("src")
  <2>1. s \in SUBSET Versions
    BY FetchAssumption DEF AllMirrors
  <2>2. writes \in Seq(Op) /\ \A w \in Ops(writes) : w.op = "write"
    BY <1>2, <2>1, DownloadWritesOf
  <2>3. RunTyped(next) /\ next.pc \in {"again", "end"} /\ next.outcome = "none"
    BY <1>2, RunSteps
  <2>4. Then(writes, next)
    BY <1>3
  <2> HIDE DEF writes, next
  <2>5. QED
    BY <1>1, <2>2, <2>3, <2>4, FileSearch
<1>4. ASSUME NEW part \in PartWrites("src"), Then(part \o <<Entry("src", NoFile)>>, NextMirror)
      PROVE  FileStep
  <2> DEFINE a == Entry("src", NoFile)
             writes == part \o <<a>>
  <2>1. part \in Seq(Op) /\ \A w \in Ops(part) : w.op = "write"
    BY <1>2, PartWritesOf DEF Write
  <2>2. a \in Op /\ a.op = "entry"
    BY OpKinds DEF Contents
  <2>3. Then(writes, NextMirror)
    BY <1>4
  <2> HIDE DEF a
  <2>4. <<a>> \in Seq(Op) /\ Ops(<<a>>) = {a}
    BY <2>2, OneWrite
  <2>5. writes \in Seq(Op) /\ Ops(writes) = Ops(part) \cup {a}
    <3>1. part \o <<a>> \in Seq(Op) /\ Ops(part \o <<a>>) = Ops(part) \cup Ops(<<a>>)
      BY <2>1, <2>4, MoreWrites
    <3>2. QED
      BY <2>4, <3>1
  <2> HIDE DEF writes
  <2>6. \A w \in Ops(writes) : w.op # "stamp"
    BY <2>1, <2>2, <2>5
  <2>7. RunTyped(NextMirror) /\ NextMirror.pc = "mirror" /\ NextMirror.localpath = NoFile
        /\ NextMirror.outcome = "none"
    BY <1>2, RunSteps
  <2>8. QED
    BY <1>1, <2>3, <2>5, <2>6, <2>7, FileSearch
<1>5. QED
  BY <1>3, <1>4 DEF DownloadFromMirror

(***************************************************************************)
(* The end of a fetch of a file.                                           *)
(***************************************************************************)
LEMMA FileEnd ==
  ASSUME IInv, url = "wget", End
  PROVE  FileStep
<1>1. /\ Typed /\ Routes /\ FileInv /\ RunTyped(run)
      /\ At("end") /\ holder # NoProc /\ todo = <<>>
  BY DEF IInv, Typed, End, At
<1>2. stamp["src"] # NoFile => Right
  BY <1>1 DEF FileInv, FileRun, At, Removing
<1>3. PICK found \in BOOLEAN :
        /\ Then(IF found THEN StampWrites ELSE <<>>,
                [run EXCEPT !.pc = "close",
                            !.outcome = IF found /\ StampGood THEN "ok" ELSE "failed"])
  BY DEF End
<1> DEFINE writes == IF found THEN StampWrites ELSE <<>>
           outcome == IF found /\ StampGood THEN "ok" ELSE "failed"
<1>4. /\ todo' = writes /\ run' = [run EXCEPT !.pc = "close", !.outcome = outcome]
      /\ UNCHANGED <<external, disks, holder, result, last>>
  BY <1>3 DEF Then
<1>5. RunTyped(run')
  BY <1>1, <1>4, RunSteps DEF Pcs
<1>6. run'.pc = "close" /\ run'.outcome = outcome
  BY <1>1, <1>4 DEF RunTyped
<1>7. writes \in Seq(Op)
  BY <1>1, StampWritesOf, NoWrite
<1>8. \/ writes = <<>> /\ (outcome = "ok" => stamp["src"] # NoFile /\ Right)
      \/ writes = Storing /\ Right
      \/ /\ stamp["src"] = NoFile /\ outcome = "failed"
         /\ writes = <<Entry("src", NoFile), Mark("src", NoFile)>>
  BY <1>1, <1>2, StampWritesOf
<1>9. outcome \in {"ok", "failed"}
  OBVIOUS
<1> HIDE DEF writes, outcome
<1>10. Typed' /\ Routes'
  <2>1. Typed'
    BY <1>1, <1>4, <1>5, <1>7, ControlTyped
  <2>2. holder' = holder /\ url' = url
    BY <1>4 DEF external
  <2>3. QED
    BY <1>1, <1>6, <2>1, <2>2 DEF Routes
<1>11. CASE writes = <<>>
  <2>1. todo' = <<>> /\ Ops(todo') = {}
    BY <1>4, <1>11, NoWrite
  <2>2. (outcome = "ok" => stamp["src"] # NoFile) /\ (stamp["src"] # NoFile => Right)
    BY <1>2, <1>8, <1>11 DEF Storing
  <2>3. Right => Right'
    BY <1>4 DEF Right, Content, disks, external
  <2>4. FileRun'
    BY <1>4, <1>6, <2>1, <2>2, <2>3 DEF FileRun, disks
  <2>5. QED
    BY <1>1, <1>4, <1>6, <1>10, <2>1, <2>4, FileControl DEF FileStep
<1>12. CASE writes = Storing /\ Right
  <2>1. Marking' /\ Right'
    BY <1>4, <1>12 DEF Marking, Storing, Right, Content, disks, external
  <2>2. FileRun'
    BY <1>4, <1>6, <2>1 DEF FileRun, disks
  <2>3. QED
    BY <1>1, <1>4, <1>6, <1>10, <2>1, <2>2, FileControl DEF FileStep
<1>13. CASE /\ stamp["src"] = NoFile /\ outcome = "failed"
            /\ writes = <<Entry("src", NoFile), Mark("src", NoFile)>>
  <2>1. Ops(todo') = {Entry("src", NoFile), Mark("src", NoFile)}
    BY <1>4, <1>13, OpsOf
  <2>2. \A w \in Ops(todo') : w.op = "stamp" => w = Mark("src", NoFile)
    BY <2>1 DEF Entry
  <2>3. FileRun'
    BY <1>4, <1>6, <1>13, <2>2 DEF FileRun, disks
  <2>4. \A p \in Procs : ~(result[p] = "ok" /\ Agreed)
    BY <1>1, <1>13 DEF FileInv, FileKept
  <2>5. QED
    BY <1>1, <1>4, <1>10, <2>3, <2>4, FileControl DEF FileStep
<1>14. QED
  BY <1>8, <1>11, <1>12, <1>13

(***************************************************************************)
(* The steps that are not of control, for any URL.                         *)
(***************************************************************************)
LEMMA WriteTyped ==
  ASSUME Typed, WriteNext
  PROVE  /\ Typed' /\ todo # <<>>
         /\ Head(todo) \in Ops(todo) /\ Head(todo) \in Op /\ todo' = Tail(todo)
         /\ Ops(todo') \subseteq Ops(todo)
<1>1. todo \in Seq(Op) /\ todo # <<>> /\ todo' = Tail(todo)
  BY DEF Typed, WriteNext
<1>2. /\ Head(todo) \in Ops(todo) /\ Head(todo) \in Op
      /\ todo' \in Seq(Op) /\ Ops(todo') \subseteq Ops(todo)
  BY <1>1, OpsLeft
<1> DEFINE w == Head(todo)
<1>3. /\ w.op \in {"entry", "write"} => w.name \in {"src", "tar"} /\ w.to \in Contents \cup FileMirrors
      /\ w.op = "write" => w.to \in Contents
      /\ w.op = "mirror" => w.name \in FileMirrors /\ w.to \in Contents
      /\ w.op = "stamp" => w.to \in {NoFile, Old} \cup SUBSET Versions
  BY <1>2 DEF Op, Contents
<1>4. /\ disk' \in {disk, [disk EXCEPT ![w.name] = w.to]}
      /\ disk' # disk => w.op \in {"entry", "write"}
  BY DEF WriteNext
<1>5. \/ mirror' = mirror
      \/ w.op = "write" /\ mirror' = [mirror EXCEPT ![disk[w.name]] = w.to]
      \/ w.op = "mirror" /\ mirror' = [mirror EXCEPT ![w.name] = w.to]
  BY DEF WriteNext
<1>6. stamp' = stamp \/ (w.op = "stamp" /\ stamp' = [stamp EXCEPT ![w.name] = w.to])
  BY DEF WriteNext
<1> HIDE DEF w
<1>7. disk' \in [{"src", "tar"} -> Contents \cup FileMirrors]
  BY <1>3, <1>4 DEF Typed, TypeOK
<1>8. mirror' \in [FileMirrors -> Contents]
  BY <1>3, <1>5 DEF Typed, TypeOK
<1>9. stamp' \in [{"src", "tar"} -> {NoFile, Old} \cup SUBSET Versions]
  BY <1>3, <1>6 DEF Typed, TypeOK
<1>10. UNCHANGED <<external, holder, run, result, last>>
  BY DEF WriteNext
<1>11. QED
  BY <1>1, <1>2, <1>7, <1>8, <1>9, <1>10 DEF Typed, TypeOK, external

\* The write that is done, with what it does.
LEMMA WriteDone ==
  ASSUME Typed, WriteNext
  PROVE  /\ UNCHANGED <<external, holder, run, result, last, mishaps>>
         /\ \A n \in {"src", "tar"} :
              disk'[n] = IF /\ Head(todo).name = n
                            /\ \/ Head(todo).op = "entry"
                               \/ Head(todo).op = "write" /\ disk[n] \notin FileMirrors
                         THEN Head(todo).to ELSE disk[n]
         /\ \A n \in {"src", "tar"} :
              stamp'[n] = IF Head(todo).op = "stamp" /\ Head(todo).name = n
                          THEN Head(todo).to ELSE stamp[n]
         /\ \A m \in FileMirrors :
              mirror'[m] = IF \/ Head(todo).op = "mirror" /\ Head(todo).name = m
                              \/ Head(todo).op = "write" /\ disk[Head(todo).name] = m
                           THEN Head(todo).to ELSE mirror[m]
<1> DEFINE w == Head(todo)
<1>1. w \in Op
  BY WriteTyped
<1>2. /\ w.op \in {"entry", "write", "stamp"} => w.name \in {"src", "tar"}
      /\ w.op = "mirror" => w.to = NoFile
      /\ w.op \in {"entry", "write", "stamp", "mirror"}
  BY <1>1 DEF Op
<1> DEFINE through == w.op = "write" /\ disk[w.name] \in FileMirrors
<1>3. /\ disk'   = (IF w.op \in {"entry", "write"} /\ ~through
                    THEN [disk EXCEPT ![w.name] = w.to] ELSE disk)
      /\ mirror' = (IF through THEN [mirror EXCEPT ![disk[w.name]] = w.to]
                    ELSE IF w.op = "mirror" THEN [mirror EXCEPT ![w.name] = w.to] ELSE mirror)
      /\ stamp'  = (IF w.op = "stamp" THEN [stamp EXCEPT ![w.name] = w.to] ELSE stamp)
  BY DEF WriteNext
<1> HIDE DEF w
<1>4. \A n \in {"src", "tar"} :
        disk'[n] = IF w.name = n /\ (w.op = "entry" \/ (w.op = "write" /\ disk[n] \notin FileMirrors))
                   THEN w.to ELSE disk[n]
  BY <1>2, <1>3 DEF Typed, TypeOK
<1>5. \A n \in {"src", "tar"} :
        stamp'[n] = IF w.op = "stamp" /\ w.name = n THEN w.to ELSE stamp[n]
  BY <1>2, <1>3 DEF Typed, TypeOK
<1>6. \A m \in FileMirrors :
        mirror'[m] = IF (w.op = "mirror" /\ w.name = m) \/ (w.op = "write" /\ disk[w.name] = m)
                     THEN w.to ELSE mirror[m]
  BY <1>2, <1>3 DEF Typed, TypeOK
<1>7. UNCHANGED <<external, holder, run, result, last, mishaps>>
  BY DEF WriteNext
<1>8. QED
  BY <1>4, <1>5, <1>6, <1>7 DEF w

LEMMA IdleTyped == \A pc \in Pcs : RunTyped([Idle EXCEPT !.pc = pc])
BY DEF RunTyped, Idle, Pcs

LEMMA ElseTyped ==
  ASSUME Typed, Routes,
         Close \/ Crash \/ Release \/ (\E m \in FileMirrors : Publish(m))
           \/ \E p \in Procs : Start(p) \/ Unpack(p) \/ Clean(p)
  PROVE  Typed' /\ Routes'
<1>1. ASSUME Release PROVE Typed' /\ Routes'
  <2>1. upstream' \in Versions
    BY <1>1, Constants DEF Release, Typed, TypeOK, Versions
  <2>2. QED
    BY <1>1, <2>1 DEF Release, Typed, TypeOK, Routes, disks
<1>2. ASSUME NEW m \in FileMirrors, Publish(m) PROVE Typed' /\ Routes'
  <2>1. PICK c \in Serves[m] : mirror' = [mirror EXCEPT ![m] = c]
    BY <1>2 DEF Publish
  <2>2. c \in Contents
    BY <2>1, FetchAssumption DEF Contents
  <2>3. /\ mirror' \in [FileMirrors -> Contents]
        /\ stamp' \in [{"src", "tar"} -> {NoFile, Old} \cup SUBSET Versions]
    BY <1>2, <2>1, <2>2 DEF Publish, Typed, TypeOK
  <2>4. UNCHANGED <<external, disk, holder, run, todo, result, last>>
    BY <1>2 DEF Publish
  <2>5. QED
    BY <2>3, <2>4 DEF Typed, TypeOK, Routes, external
<1>3. ASSUME NEW p \in Procs, Unpack(p) PROVE Typed' /\ Routes'
  BY <1>3 DEF Unpack, Typed, TypeOK, Routes, external, disks
<1>4. ASSUME NEW p \in Procs, Start(p) PROVE Typed' /\ Routes'
  <2>1. /\ run' = [Idle EXCEPT !.pc = "verify"] /\ holder' = p /\ p # NoProc
        /\ UNCHANGED <<external, disks, todo, result, last>>
    BY <1>4, Constants DEF Start
  <2>2. RunTyped(run')
    BY <2>1, IdleTyped DEF Pcs
  <2>3. /\ run'.pc = "verify" /\ run'.localpath = NoFile /\ run'.outcome = "none"
    BY <2>1 DEF Idle
  <2>4. QED
    BY <2>1, <2>2, <2>3 DEF Typed, TypeOK, Routes, external, disks
<1>5. ASSUME NEW p \in Procs, Clean(p) PROVE Typed' /\ Routes'
  <2>1. /\ run' = [Idle EXCEPT !.pc = "close"] /\ holder' = p /\ p # NoProc
        /\ UNCHANGED <<url, want, upstream, disks, last>>
    BY <1>5, Constants DEF Clean
  <2>2. RunTyped(run')
    BY <2>1, IdleTyped DEF Pcs
  <2>3. /\ run'.pc = "close" /\ run'.localpath = NoFile /\ run'.outcome = "none"
    BY <2>1 DEF Idle
  <2>4. todo' \in Seq(Op)
    <3>1. CleanWrites \in Seq(Op) /\ <<Mark("src", NoFile)>> \in Seq(Op)
      BY CleanWritesOf, OpKinds, OneWrite
    <3>2. QED
      BY <1>5, <3>1, MoreWrites DEF Clean
  <2>5. result' \in [Procs -> {"none", "ok", "failed"}]
    BY <1>5 DEF Clean, Typed, TypeOK
  <2>6. QED
    BY <2>1, <2>2, <2>3, <2>4, <2>5 DEF Typed, TypeOK, Routes, disks
<1>6. ASSUME Close \/ Crash PROVE Typed' /\ Routes'
  <2>1. /\ run' = Idle /\ holder' = NoProc /\ holder \in Procs /\ last' = holder
        /\ UNCHANGED <<url, want, upstream, disks>> /\ todo' = <<>>
    BY <1>6 DEF Close, Crash, At, Typed, TypeOK, external
  <2>2. RunTyped(run')
    BY <2>1 DEF Idle, RunTyped, Pcs
  <2>3. /\ run'.pc = "idle" /\ run'.localpath = NoFile /\ run'.outcome = "none"
    BY <2>1 DEF Idle
  <2>4. result' \in [Procs -> {"none", "ok", "failed"}]
    BY <1>6, <2>1 DEF Close, Crash, Typed, TypeOK, RunTyped
  <2>5. todo' \in Seq(Op)
    BY <2>1, NoWrite
  <2>6. QED
    BY <2>1, <2>2, <2>3, <2>4, <2>5 DEF Typed, TypeOK, Routes, disks
<1>7. QED
  BY <1>1, <1>2, <1>3, <1>4, <1>5, <1>6

(***************************************************************************)
(* Files: writes, and what happens outside of a fetch.                     *)
(***************************************************************************)
LEMMA FileWrite ==
  ASSUME IInv, url = "wget", WriteNext
  PROVE  FileStep
<1>1. /\ Typed /\ Routes /\ FileInv /\ todo # <<>>
      /\ UNCHANGED <<external, holder, run, result, last>>
  BY WriteTyped, WriteDone DEF IInv
<1>2. Typed' /\ Routes' /\ holder # NoProc /\ url' = "wget"
  <2>1. Typed'
    BY <1>1, WriteTyped
  <2>2. holder # NoProc /\ url' = "wget"
    BY <1>1 DEF Routes, external
  <2>3. QED
    BY <1>1, <2>1, <2>2 DEF Routes
<1>3. Head(todo) \in Ops(todo) /\ todo' = Tail(todo) /\ Ops(todo') \subseteq Ops(todo)
  BY <1>1, WriteTyped
<1>4. {want[holder]} # NoFile /\ want' = want
  BY <1>1, <1>2, WantedVersions, Constants DEF Typed, TypeOK, external
<1>5. ~(Marking /\ Removing)
  BY <1>4 DEF Marking, Storing, Removing, Mark, Entry
<1>6. CASE todo = Storing /\ Right
  <2>1. /\ Head(todo) = Mark("src", Old) /\ todo' = <<Mark("src", {want[holder]})>>
        /\ Mark("src", {want[holder]}) \in Ops(todo')
    BY <1>3, <1>6, TailOf, OpsOf DEF Storing
  <2>2. stamp'["src"] = Old /\ disk'["src"] = disk["src"]
    BY <1>1, <2>1, WriteDone DEF Mark
  <2>3. Content("src")' = Content("src") /\ Right'
    <3>1. \A m \in FileMirrors : mirror'[m] = mirror[m]
      BY <1>1, <2>1, WriteDone DEF Mark
    <3>2. Content("src")' = Content("src")
      BY <2>2, <3>1 DEF Content
    <3>3. QED
      BY <1>1, <1>4, <1>6, <3>2 DEF Right
  <2>4. StampTrue' /\ Marking'
    BY <1>1, <1>4, <2>1, <2>2, <2>3 DEF StampTrue, Marking
  <2>5. run.pc \notin {"mirror", "check link", "upstream", "early", "upstream failed"}
    <3>1. /\ Mark("src", {want[holder]}) # Mark("src", NoFile)
          /\ Mark("src", {want[holder]}).op = "stamp"
      BY <1>4 DEF Mark
    <3>2. QED
      BY <1>1, <1>2, <1>3, <2>1, <3>1 DEF FileInv, FileRun
  <2>6. FileRun'
    BY <1>1, <2>3, <2>4, <2>5 DEF FileRun
  <2>7. FileKept'
    BY <1>1, <1>2, <1>4, <2>2, <2>3, <2>4, Constants DEF FileInv, FileKept, Agreed
  <2>8. QED
    BY <1>2, <2>4, <2>6, <2>7 DEF FileStep, FileInv
<1>7. CASE todo = <<Mark("src", {want[holder]})>> /\ Right
  <2>1. Head(todo) = Mark("src", {want[holder]}) /\ todo' = <<>> /\ Ops(todo') = {}
    BY <1>3, <1>7, TailOf, NoWrite
  <2>2. stamp'["src"] = {want[holder]} /\ disk'["src"] = disk["src"]
    BY <1>1, <2>1, WriteDone DEF Mark
  <2>3. Content("src")' = Content("src")
    <3>1. \A m \in FileMirrors : mirror'[m] = mirror[m]
      BY <1>1, <2>1, WriteDone DEF Mark
    <3>2. QED
      BY <2>2, <3>1 DEF Content
  <2>4. Content("src") = {want[holder]} /\ Right'
    BY <1>1, <1>4, <1>7, <2>3 DEF Right
  <2>5. StampTrue'
    BY <2>2, <2>3, <2>4 DEF StampTrue
  <2>6. run.pc \notin {"mirror", "check link", "upstream", "early", "upstream failed"}
    <3>1. Mark("src", {want[holder]}) # Mark("src", NoFile)
      BY <1>4 DEF Mark
    <3>2. Mark("src", {want[holder]}).op = "stamp"
      BY DEF Mark
    <3>3. QED
      BY <1>1, <1>2, <1>3, <2>1, <3>1, <3>2 DEF FileInv, FileRun
  <2>7. FileRun'
    BY <1>1, <1>4, <2>1, <2>2, <2>4, <2>6 DEF FileRun
  <2>8. FileKept'
    BY <1>1, <1>2, <1>4, <2>1, <2>2, <2>3 DEF FileInv, FileKept, Agreed
  <2>9. QED
    BY <1>2, <2>5, <2>7, <2>8 DEF FileStep, FileInv
<1>8. CASE ~Marking
  <2>1. run.outcome # "ok" /\ \A p \in Procs : ~(result[p] = "ok" /\ Agreed)
    BY <1>1, <1>2, <1>8 DEF FileInv, FileRun, FileKept
  <2>2. FileKept'
    BY <1>1, <1>2, <1>4, <2>1 DEF FileKept, Agreed
  <2>3. \A w \in Ops(todo') : w.op = "stamp" => w = Mark("src", NoFile)
    BY <1>1, <1>2, <1>3, <1>8 DEF FileInv, FileRun
  <2>4. Head(todo).op = "stamp" => Head(todo) = Mark("src", NoFile)
    BY <1>1, <1>2, <1>3, <1>8 DEF FileInv, FileRun
  <2>5. CASE todo = <<Entry("src", NoFile), Mark("src", NoFile)>>
    <3>1. Head(todo) = Entry("src", NoFile) /\ todo' = <<Mark("src", NoFile)>>
      BY <1>3, <2>5, TailOf
    <3>2. disk'["src"] = NoFile
      BY <1>1, <3>1, WriteDone DEF Entry
    <3>3. Content("src")' = NoFile
      BY <3>2, Constants DEF Content
    <3>4. StampTrue'
      BY <3>3 DEF StampTrue
    <3>5. Removing'
      BY <3>1 DEF Removing
    <3>6. FileRun'
      BY <1>1, <2>1, <2>3, <3>5 DEF FileRun
    <3>7. QED
      BY <1>2, <2>2, <3>4, <3>6 DEF FileStep, FileInv
  <2>6. CASE todo # <<Entry("src", NoFile), Mark("src", NoFile)>>
    <3>1. stamp'["src"] = NoFile
      <4>1. CASE stamp["src"] = NoFile
        BY <1>1, <2>4, <4>1, WriteDone DEF Mark
      <4>2. CASE stamp["src"] # NoFile
        <5>1. todo = <<Mark("src", NoFile)>>
          BY <1>1, <1>2, <1>8, <2>6, <4>2 DEF FileInv, FileRun, Removing
        <5>2. Head(todo) = Mark("src", NoFile)
          BY <5>1, TailOf
        <5>3. QED
          BY <1>1, <5>2, WriteDone DEF Mark
      <4>3. QED
        BY <4>1, <4>2
    <3>2. StampTrue' /\ FileRun'
      BY <1>1, <2>1, <2>3, <3>1 DEF StampTrue, FileRun
    <3>3. QED
      BY <1>2, <2>2, <3>2 DEF FileStep, FileInv
  <2>7. QED
    BY <2>5, <2>6
<1>9. QED
  BY <1>6, <1>7, <1>8 DEF Marking

LEMMA FileElse ==
  ASSUME IInv, url = "wget",
         Close \/ Crash \/ Release \/ (\E m \in FileMirrors : Publish(m))
           \/ \E p \in Procs : Start(p) \/ Unpack(p) \/ Clean(p)
  PROVE  FileStep
<1>1. Typed /\ Routes /\ FileInv /\ Typed' /\ Routes'
  BY ElseTyped DEF IInv
<1>2. url' = url /\ want' = want
  BY DEF Close, Crash, Release, Publish, Start, Unpack, Clean, external
<1>3. CASE Close
  <2>1. /\ holder \in Procs /\ todo = <<>> /\ todo' = <<>> /\ run' = Idle
        /\ holder' = NoProc /\ last' = holder
        /\ result' = [result EXCEPT ![holder] = run.outcome] /\ UNCHANGED disks
    BY <1>1, <1>3 DEF Close, At, Typed, TypeOK
  <2>2. /\ Content("src")' = Content("src") /\ stamp' = stamp
    BY <2>1 DEF disks, Content
  <2>3. StampTrue'
    BY <1>1, <2>2 DEF FileInv, StampTrue
  <2>4. FileRun'
    BY <2>1 DEF FileRun
  <2>5. run.outcome = "ok" => Content("src") = {want[holder]} /\ stamp["src"] # NoFile
    BY <1>1, <2>1, Constants DEF FileInv, FileRun, Right, Marking, Storing
  <2>6. run'.pc = "idle"
    BY <2>1 DEF Idle
  <2>7. \A p \in Procs : result'[p] = IF p = holder THEN run.outcome ELSE result[p]
    BY <1>1, <2>1 DEF Typed, TypeOK
  <2>8. FileKept'
    <3> SUFFICES ASSUME NEW p \in Procs, result'[p] = "ok"
                 PROVE  /\ last' = p => Content("src") = {want[p]}
                        /\ Agreed => Content("src") = {want[p]} /\ stamp["src"] # NoFile
      BY <1>2, <2>1, <2>2, <2>6 DEF FileKept, Agreed
    <3>1. CASE p = holder
      BY <2>5, <2>7, <3>1
    <3>2. CASE p # holder
      BY <1>1, <2>1, <2>7, <3>2 DEF FileInv, FileKept
    <3>3. QED
      BY <3>1, <3>2
  <2>9. QED
    BY <1>1, <2>3, <2>4, <2>8 DEF FileStep, FileInv
<1>4. CASE Crash
  <2>1. /\ holder \in Procs /\ todo' = <<>> /\ run' = Idle
        /\ holder' = NoProc /\ last' = holder
        /\ result' = [result EXCEPT ![holder] = "none"] /\ UNCHANGED disks
    BY <1>1, <1>4 DEF Crash, Typed, TypeOK
  <2>2. Content("src")' = Content("src") /\ stamp' = stamp
    BY <2>1 DEF disks, Content
  <2>3. StampTrue' /\ FileRun'
    BY <1>1, <2>1, <2>2 DEF FileInv, StampTrue, FileRun
  <2>4. run'.pc = "idle"
    BY <2>1 DEF Idle
  <2>5. \A p \in Procs : result'[p] = "ok" => result[p] = "ok" /\ p # holder
    BY <1>1, <2>1 DEF Typed, TypeOK
  <2>6. FileKept'
    BY <1>1, <1>2, <2>1, <2>2, <2>4, <2>5 DEF FileInv, FileKept, Agreed
  <2>7. QED
    BY <1>1, <2>3, <2>6 DEF FileStep, FileInv
<1>5. CASE Release
  <2>1. UNCHANGED <<disks, holder, run, todo, result, last>>
    BY <1>5 DEF Release
  <2>2. Content("src")' = Content("src") /\ stamp' = stamp
    BY <2>1 DEF disks, Content
  <2>3. QED
    BY <1>1, <1>2, <2>1, <2>2
       DEF FileStep, FileInv, StampTrue, FileRun, FileKept, Agreed, Marking, Storing, Removing, Right
<1>6. CASE \E m \in FileMirrors : Publish(m)
  <2>1. PICK m \in FileMirrors : Publish(m)
    BY <1>6
  <2>2. /\ mirror[m] = NoFile /\ \A k \in FileMirrors : k # m => mirror'[k] = mirror[k]
        /\ stamp'["src"] = (IF disk["src"] = m /\ stamp["src"] # NoFile THEN Old ELSE stamp["src"])
        /\ UNCHANGED <<disk, holder, run, todo, result, last>>
    BY <1>1, <2>1 DEF Publish, Typed, TypeOK
  <2>3. Content("src") # NoFile => Content("src")' = Content("src") /\ disk["src"] # m
    BY <2>2 DEF Content
  <2>4. /\ stamp'["src"] = NoFile <=> stamp["src"] = NoFile
        /\ stamp'["src"] \notin {NoFile, Old} =>
             stamp'["src"] = stamp["src"] /\ Content("src")' = Content("src")
    BY <2>2, Constants DEF Content
  <2>5. \A p \in Procs : {want[p]} # NoFile
    BY <1>1, WantedVersions, Constants
  <2>6. holder # NoProc /\ Right => Right'
    BY <1>1, <1>2, <2>2, <2>3, <2>5 DEF Right, Typed, TypeOK
  <2>7. StampTrue'
    BY <1>1, <2>4 DEF FileInv, StampTrue
  <2>8. FileRun'
    BY <1>1, <1>2, <2>2, <2>4, <2>6 DEF FileInv, FileRun, Marking, Storing, Removing
  <2>9. holder = NoProc => todo = <<>>
    BY <1>1 DEF Routes
  <2>10. FileKept'
    <3> SUFFICES ASSUME NEW p \in Procs, result[p] = "ok"
                 PROVE  /\ last = p /\ holder = NoProc => Content("src")' = {want[p]}
                        /\ Agreed => /\ Content("src")' = {want[p]} /\ stamp'["src"] # NoFile
                                     /\ todo = <<>> \/ Marking'
                                     /\ run.pc \in {"idle", "verify", "again", "end", "close"}
      BY <1>2, <2>2 DEF FileKept, Agreed
    <3>1. /\ last = p /\ holder = NoProc => Content("src") = {want[p]}
          /\ Agreed => /\ Content("src") = {want[p]} /\ stamp["src"] # NoFile
                       /\ todo = <<>> \/ Marking
                       /\ run.pc \in {"idle", "verify", "again", "end", "close"}
      BY <1>1 DEF FileInv, FileKept
    <3>2. Marking /\ holder # NoProc => Marking'
      BY <1>2, <2>2, <2>6 DEF Marking, Storing
    <3>3. QED
      BY <2>3, <2>4, <2>5, <2>9, <3>1, <3>2
  <2>11. QED
    BY <1>1, <2>7, <2>8, <2>10 DEF FileStep, FileInv
<1>7. ASSUME NEW p \in Procs, Start(p) PROVE FileStep
  <2>1. /\ holder = NoProc /\ holder' = p /\ p # NoProc /\ run' = [Idle EXCEPT !.pc = "verify"]
        /\ UNCHANGED <<disks, todo, result, last>>
    BY <1>7, Constants DEF Start
  <2>2. Content("src")' = Content("src") /\ stamp' = stamp
    BY <2>1 DEF disks, Content
  <2>3. todo' = <<>> /\ Ops(todo') = {} /\ run'.pc = "verify" /\ run'.outcome = "none"
    BY <1>1, <2>1, NoWrite DEF Routes, Idle
  <2>4. StampTrue' /\ FileRun'
    BY <1>1, <2>2, <2>3 DEF FileInv, StampTrue, FileRun
  <2>5. FileKept'
    BY <1>1, <1>2, <2>1, <2>2, <2>3 DEF FileInv, FileKept, Agreed
  <2>6. QED
    BY <1>1, <2>4, <2>5 DEF FileStep, FileInv
<1>8. ASSUME NEW p \in Procs, Unpack(p) PROVE FileStep
  <2>1. /\ UNCHANGED <<disks, holder, run, todo, last>>
        /\ \A q \in Procs : result'[q] = "ok" => result[q] = "ok"
    BY <1>1, <1>8 DEF Unpack, Typed, TypeOK
  <2>2. Content("src")' = Content("src") /\ stamp' = stamp
    BY <2>1 DEF disks, Content
  <2>3. QED
    BY <1>1, <1>2, <2>1, <2>2
       DEF FileStep, FileInv, StampTrue, FileRun, FileKept, Agreed, Marking, Storing, Removing, Right
<1>9. ASSUME NEW p \in Procs, Clean(p) PROVE FileStep
  <2>1. /\ holder' = p /\ p # NoProc /\ run' = [Idle EXCEPT !.pc = "close"] /\ UNCHANGED disks
        /\ \A q \in Procs : result'[q] # "ok"
        /\ todo' = CleanWrites \o <<Mark("src", NoFile)>>
    BY <1>1, <1>9, Constants DEF Clean, Typed, TypeOK
  <2>2. Content("src")' = Content("src") /\ stamp' = stamp
    BY <2>1 DEF disks, Content
  <2>3. todo' = <<Entry("src", NoFile), Mark("src", NoFile)>>
    BY <1>1, <2>1, CleanWritesOf, Joined
  <2>4. \A w \in Ops(todo') : w.op = "stamp" => w = Mark("src", NoFile)
    BY <2>3, OpsOf DEF Entry
  <2>5. Removing'
    BY <2>3 DEF Removing
  <2>6. run'.pc = "close" /\ run'.outcome = "none"
    BY <2>1 DEF Idle
  <2>7. StampTrue' /\ FileRun' /\ FileKept'
    BY <1>1, <2>1, <2>2, <2>4, <2>5, <2>6 DEF FileInv, StampTrue, FileRun, FileKept
  <2>8. QED
    BY <1>1, <2>7 DEF FileStep, FileInv
<1>10. QED
  BY <1>3, <1>4, <1>5, <1>6, <1>7, <1>8, <1>9

(***************************************************************************)
(* Repositories.                                                           *)
(***************************************************************************)
RepoStep == Typed' /\ Routes' /\ RepoInv' /\ TarInv'

\* Writes that make no link but of the tarball, to a mirror's file.
Linking(writes) ==
  \A w \in Ops(writes) :
    /\ w.op # "mirror"
    /\ w.op = "entry" /\ w.to \in FileMirrors => w.name = "tar" /\ mirror[w.to] # NoFile

LEMMA RepoControl ==
  ASSUME RepoInv, UNCHANGED <<external, disks, holder, result, last>>, RepoRun', Linking(todo'),
         \A p \in Procs : result[p] = "ok" /\ Agreed =>
           Untouched("src")' /\ Mark("src", NoFile) \notin Ops(todo')
  PROVE  RepoInv'
<1>1. Links'
  BY DEF RepoInv, Links, Linking, disks
<1>2. RepoKept'
  BY DEF RepoInv, RepoKept, Agreed, disks, external
<1>3. QED
  BY <1>1, <1>2 DEF RepoInv

LEMMA TarControl ==
  ASSUME TarInv, holder # NoProc, UNCHANGED <<holder, mishaps>>,
         WriteTarballs /\ TarRun => TarRun'
  PROVE  TarInv'
BY DEF TarInv, TarKept

\* At a step of control of a repository.
LEMMA RepoAt ==
  ASSUME IInv, url = "git", NEW pc, At(pc)
  PROVE  /\ Typed /\ Routes /\ RepoInv /\ TarInv /\ RunTyped(run) /\ holder \in Procs
         /\ run.pc = pc /\ todo = <<>> /\ Ops(todo) = {} /\ holder # NoProc
         /\ Content("src") = disk["src"] /\ want[holder] \in Versions
         /\ pc # "close" => run.outcome = "none"
<1>1. Typed /\ Routes /\ RepoInv /\ TarInv /\ RunTyped(run) /\ run.pc = pc /\ todo = <<>>
      /\ holder # NoProc /\ holder \in Procs
  BY DEF IInv, At, Typed, TypeOK
<1>2. Content("src") = disk["src"]
  BY <1>1 DEF RepoInv, Links, Content
<1>3. want[holder] \in Versions
  BY <1>1, WantedVersions
<1>4. QED
  BY <1>1, <1>2, <1>3, NoWrite DEF Routes

\* What a repository lacks before, it lacks after writes that do not bring it.
LEMMA RepoLacking ==
  ASSUME IInv, url = "git", NEW pc, At(pc), ~Has(Content("src"), want[holder]),
         NEW writes \in Seq(Op), NEW next, Then(writes, next), RunTyped(next),
         next.localpath = NoFile,
         \/ /\ next.outcome = "none"
            /\ next.pc \in {"again", "mirror", "process", "upstream failed", "extract", "end"}
         \/ next.outcome = "failed" /\ next.pc = "close",
         Linking(writes),
         \A w \in Ops(writes) : On(w, "src") => ~Has(w.to, want[holder])
  PROVE  RepoStep
<1>1. /\ Typed /\ Routes /\ RepoInv /\ TarInv /\ todo = <<>> /\ holder # NoProc
      /\ Content("src") = disk["src"] /\ holder \in Procs
  BY RepoAt
<1>2. /\ todo' = writes /\ run' = next
      /\ UNCHANGED <<external, disks, holder, result, last, mishaps>>
  BY DEF Then
<1>3. Typed'
  BY <1>1, <1>2, ControlTyped
<1>4. Routes'
  BY <1>1, <1>2 DEF Routes, external
<1>5. Lacks'
  BY <1>1, <1>2 DEF Lacks, disks, external
<1>6. RepoRun'
  BY <1>1, <1>2, <1>5, Constants DEF RepoRun
<1>7. \A p \in Procs : ~(result[p] = "ok" /\ Agreed)
  BY <1>1 DEF RepoInv, RepoKept, Agreed
<1>8. RepoInv'
  BY <1>1, <1>2, <1>6, <1>7, RepoControl
<1>9. TarRun'
  BY <1>1, <1>2, <1>5, Constants DEF TarRun
<1>10. QED
  BY <1>1, <1>2, <1>3, <1>4, <1>8, <1>9, TarControl DEF RepoStep

\* Stamps change nothing else.
LEMMA OnlyStamps ==
  ASSUME todo = <<>>, \A w \in Ops(todo') : w.op = "stamp",
         UNCHANGED <<external, disks, holder>>
  PROVE  /\ Holding => Holding' /\ Untouched("src")'
         /\ Level => Level'
         /\ Lacks => Lacks'
         /\ Gone => Gone'
         /\ Packed => Packed'
         /\ Linking(todo') /\ Untouched("src")'
<1>1. /\ Content("src")' = Content("src") /\ Content("tar")' = Content("tar")
      /\ disk' = disk /\ want' = want
  BY DEF Content, disks, external
<1>2. Untouched("src")' /\ Untouched("tar")' /\ Linking(todo')
  BY DEF Untouched, On, Linking
<1>3. Covers => Covers'
  BY <1>1 DEF Covers, Exists
<1>4. Packed => Level /\ Exists("tar")
  BY DEF Packed, Packing
<1>5. \A w \in Ops(todo') : ~On(w, "src")
  BY DEF On
<1>6. Exists("tar") <=> Exists("tar")'
  BY <1>1 DEF Exists
<1>7. QED
  BY <1>1, <1>2, <1>3, <1>4, <1>5, <1>6 DEF Holding, Level, Lacks, Gone, Packed

LEMMA RepoVerify ==
  ASSUME IInv, url = "git", Verify
  PROVE  RepoStep
<1>1. /\ Typed /\ Routes /\ RepoInv /\ TarInv /\ RunTyped(run) /\ holder # NoProc
      /\ run.pc = "verify" /\ todo = <<>> /\ Content("src") = disk["src"]
      /\ At("verify") /\ run.outcome = "none"
  BY RepoAt DEF Verify
<1>2. VerifyWrites = <<>> /\ run.localpath = NoFile
  BY <1>1, VerifyWritesOf DEF Routes
<1>3. CASE ~Exists("src")
  <2> DEFINE next == [run EXCEPT !.pc = "mirror", !.left = Premirrors[url]]
  <2>1. NeedUpdate /\ TryPremirror
    BY <1>3 DEF NeedUpdate, TryPremirror
  <2>2. Then(<<>>, next)
    BY <1>2, <2>1 DEF Verify
  <2>3. RunTyped(next)
    BY <1>1, RunSteps DEF Pcs
  <2>4. next.pc = "mirror" /\ next.localpath = NoFile /\ next.outcome = "none"
    BY <1>1, <1>2 DEF RunTyped
  <2>5. ~Has(Content("src"), want[holder])
    BY <1>3 DEF Exists, Has
  <2> HIDE DEF next
  <2>6. QED
    BY <1>1, <2>2, <2>3, <2>4, <2>5, NoWrite, RepoLacking DEF Linking
<1>4. CASE Exists("src")
  <2>1. /\ todo' = <<>> /\ UNCHANGED <<external, disks, holder, result, last, mishaps>>
        /\ \/ run' = [run EXCEPT !.pc = "again", !.localpath = "src"] /\ ~NeedUpdate
           \/ run' = [run EXCEPT !.pc = "again"]
    BY <1>1, <1>2, <1>4 DEF Verify, Then, TryPremirror
  <2>2. RunTyped(run')
    <3>1. CASE run' = [run EXCEPT !.pc = "again", !.localpath = "src"]
      BY <1>1, <3>1, RunSteps DEF Pcs
    <3>2. CASE run' = [run EXCEPT !.pc = "again"]
      BY <1>1, <3>2, RunSteps DEF Pcs
    <3>3. QED
      BY <2>1, <3>1, <3>2
  <2>3. /\ run'.pc = "again" /\ run'.outcome = "none"
        /\ \/ run'.localpath = "src" /\ ~NeedUpdate
           \/ run'.localpath = NoFile
    BY <1>1, <1>2, <2>1 DEF RunTyped
  <2>4. Typed'
    BY <1>1, <2>1, <2>2, NoWrite, ControlTyped
  <2>5. Routes'
    BY <1>1, <2>1, <2>3 DEF Routes, external
  <2>6. \A w \in Ops(todo') : w.op = "stamp"
    BY <2>1, NoWrite
  <2>7. ~NeedUpdate => /\ Has(disk["src"], want[holder])
                       /\ WriteTarballs => Exists("tar")
    BY <1>1 DEF NeedUpdate
  <2>8. ~NeedUpdate => Holding
    BY <1>1, <2>7, NoWrite DEF Holding, Untouched
  <2>9. RepoRun'
    BY <1>1, <2>1, <2>3, <2>6, <2>8, OnlyStamps, Constants DEF RepoRun
  <2>10. RepoInv'
    BY <1>1, <2>1, <2>6, <2>9, OnlyStamps, RepoControl, NoWrite
  <2>11. WriteTarballs /\ TarRun => TarRun'
    <3>1. TarRun => Level
      BY <1>1 DEF TarRun
    <3>2. WriteTarballs /\ Level /\ ~NeedUpdate => Packed
      BY <2>7 DEF Packed
    <3>3. /\ Level => Level'
          /\ Packed => Packed'
      BY <1>1, <2>1, <2>6, OnlyStamps
    <3>4. QED
      BY <1>1, <2>1, <2>3, <3>1, <3>2, <3>3, Constants DEF TarRun
  <2>12. QED
    BY <1>1, <2>1, <2>4, <2>5, <2>10, <2>11, TarControl DEF RepoStep
<1>5. QED
  BY <1>3, <1>4

LEMMA RepoAgain ==
  ASSUME IInv, url = "git", Again
  PROVE  RepoStep
<1>1. /\ Typed /\ Routes /\ RepoInv /\ TarInv /\ RunTyped(run) /\ holder # NoProc
      /\ run.pc = "again" /\ todo = <<>> /\ Content("src") = disk["src"]
      /\ run.outcome = "none"
  BY RepoAt DEF Again
<1>2. VerifyWrites = <<>> /\ run.localpath \in {NoFile, "src"}
  BY <1>1, VerifyWritesOf DEF Routes
<1>3. PICK pc \in {"extract", "end"} :
        /\ run' = [run EXCEPT !.verified = Verified, !.pc = pc]
        /\ pc = "extract" => run.localpath = NoFile
  <2>1. run' = [run EXCEPT !.verified = Verified,
                           !.pc = IF run.localpath = NoFile /\ (~Verified \/ NeedUpdate)
                                  THEN IF url = "git" THEN "extract" ELSE "upstream"
                                  ELSE "end"]
    BY DEF Again, Then
  <2>2. QED
    BY <2>1
<1>4. todo' = <<>> /\ UNCHANGED <<external, disks, holder, result, last, mishaps>>
  BY <1>2 DEF Again, Then
<1>5. RunTyped(run')
  <2>1. Verified \in BOOLEAN
    BY DEF Verified
  <2>2. QED
    BY <1>1, <1>3, <2>1, RunSteps DEF Pcs
<1>6. /\ run'.pc = pc /\ run'.outcome = "none" /\ run'.localpath = run.localpath
  BY <1>1, <1>3 DEF RunTyped
<1>7. Typed'
  BY <1>1, <1>4, <1>5, NoWrite, ControlTyped
<1>8. Routes'
  BY <1>1, <1>3, <1>4, <1>6 DEF Routes, external
<1>9. \A w \in Ops(todo') : w.op = "stamp"
  BY <1>4, NoWrite
<1>10. RepoRun'
  BY <1>1, <1>3, <1>4, <1>6, <1>9, OnlyStamps, Constants DEF RepoRun, RepoInv
<1>11. RepoInv'
  BY <1>1, <1>4, <1>9, <1>10, OnlyStamps, RepoControl, NoWrite
<1>12. TarRun => TarRun'
  <2>1. /\ Level => Level'
        /\ Lacks => Lacks'
        /\ Packed => Packed'
    BY <1>1, <1>4, <1>9, OnlyStamps
  <2>2. QED
    BY <1>1, <1>2, <1>3, <1>4, <1>6, <2>1, Constants DEF TarRun
<1>13. QED
  BY <1>1, <1>4, <1>7, <1>8, <1>11, <1>12, TarControl DEF RepoStep

LEMMA RepoEarly ==
  ASSUME IInv, url = "git", Early
  PROVE  RepoStep
<1>1. /\ Typed /\ Routes /\ RepoInv /\ TarInv /\ RunTyped(run) /\ holder # NoProc
      /\ run.pc = "early" /\ todo = <<>> /\ run.outcome = "none"
  <2>1. At("early")
    BY DEF Early
  <2>2. QED
    BY <2>1, RepoAt
<1>2. /\ StampGood /\ StampWrites \in {<<>>, <<Mark("src", Old)>>}
      /\ StampWrites \in Seq(Op) /\ Mark("src", Old) \in Op
  BY <1>1, StampWritesOf, OpKinds
<1>3. /\ todo' = StampWrites /\ run' = [run EXCEPT !.pc = "end", !.localpath = "src"]
      /\ UNCHANGED <<external, disks, holder, result, last, mishaps>>
  BY <1>2 DEF Early, Then
<1>4. RunTyped(run')
  BY <1>1, <1>3, RunSteps DEF Pcs
<1>5. run'.pc = "end" /\ run'.outcome = "none" /\ run'.localpath = "src"
  BY <1>1, <1>3 DEF RunTyped
<1>6. Typed'
  BY <1>1, <1>2, <1>3, <1>4, ControlTyped
<1>7. Routes'
  BY <1>1, <1>3, <1>5 DEF Routes, external
<1>8. \A w \in Ops(todo') : w = Mark("src", Old)
  BY <1>2, <1>3, NoWrite, OneWrite
<1>9. Mark("src", Old).op = "stamp" /\ Mark("src", Old) # Mark("src", NoFile)
  BY Constants DEF Mark
<1>10. Holding' /\ Linking(todo') /\ Untouched("src")'
  BY <1>1, <1>3, <1>8, <1>9, OnlyStamps DEF RepoInv, RepoRun
<1>11. RepoRun'
  BY <1>5, <1>10 DEF RepoRun
<1>12. RepoInv'
  BY <1>1, <1>3, <1>8, <1>9, <1>10, <1>11, RepoControl
<1>13. TarRun => TarRun'
  <2>1. Packed => Packed'
    BY <1>1, <1>3, <1>8, <1>9, OnlyStamps
  <2>2. QED
    BY <1>1, <1>3, <1>5, <2>1, Constants DEF TarRun
<1>14. QED
  BY <1>1, <1>3, <1>6, <1>7, <1>12, <1>13, TarControl DEF RepoStep

LEMMA RepoEnd ==
  ASSUME IInv, url = "git", End
  PROVE  RepoStep
<1>1. /\ Typed /\ Routes /\ RepoInv /\ TarInv /\ RunTyped(run) /\ holder # NoProc
      /\ run.pc = "end" /\ todo = <<>> /\ run.outcome = "none"
      /\ Content("src") = disk["src"] /\ run.localpath \in {NoFile, "src"}
  <2>1. At("end")
    BY DEF End
  <2>2. QED
    BY <2>1, RepoAt DEF Routes
<1>2. run.localpath = "src" => Holding /\ Exists("src")
  BY <1>1 DEF RepoInv, RepoRun, Holding, Has, Exists
<1> DEFINE found == run.localpath = "src"
           writes == IF found THEN StampWrites ELSE <<>>
           outcome == IF found THEN "ok" ELSE "failed"
<1>3. /\ StampGood /\ StampWrites \in Seq(Op)
      /\ StampWrites = IF stamp["src"] = NoFile THEN <<Mark("src", Old)>> ELSE <<>>
  BY <1>1, StampWritesOf
<1>4. /\ todo' = writes /\ run' = [run EXCEPT !.pc = "close", !.outcome = outcome]
      /\ UNCHANGED <<external, disks, holder, result, last, mishaps>>
  BY <1>1, <1>2, <1>3, Constants DEF End, Then
<1>5. /\ outcome \in {"ok", "failed"}
      /\ outcome = "ok" <=> found
      /\ writes \in Seq(Op) /\ writes \in {<<>>, <<Mark("src", Old)>>}
      /\ found => \/ writes = <<Mark("src", Old)>>
                  \/ writes = <<>> /\ stamp["src"] # NoFile
  BY <1>3, NoWrite
<1> HIDE DEF writes, outcome
<1>6. RunTyped(run')
  BY <1>1, <1>4, <1>5, RunSteps DEF Pcs
<1>7. run'.pc = "close" /\ run'.outcome = outcome /\ run'.localpath = run.localpath
  BY <1>1, <1>4 DEF RunTyped
<1>8. Typed'
  BY <1>1, <1>4, <1>5, <1>6, ControlTyped
<1>9. Routes'
  <2>1. holder' = holder /\ url' = url
    BY <1>4 DEF external
  <2>2. QED
    BY <1>1, <1>7, <2>1 DEF Routes
<1>10. \A w \in Ops(todo') : w = Mark("src", Old)
  BY <1>4, <1>5, OpsOf
<1>11. Mark("src", Old).op = "stamp" /\ Mark("src", Old) # Mark("src", NoFile)
  BY Constants DEF Mark
<1>12. /\ found => Holding'
       /\ Linking(todo') /\ Untouched("src")'
       /\ Packed => Packed'
  BY <1>1, <1>2, <1>4, <1>10, <1>11, OnlyStamps
<1>13. RepoRun'
  <2>1. stamp' = stamp
    BY <1>4 DEF disks
  <2>2. QED
    BY <1>4, <1>5, <1>7, <1>12, <2>1 DEF RepoRun
<1>14. RepoInv'
  BY <1>1, <1>4, <1>10, <1>11, <1>12, <1>13, RepoControl
<1>15. TarRun => TarRun'
  <2>1. holder' = holder
    BY <1>4
  <2>2. TarRun /\ found => Packed'
    BY <1>1, <1>12 DEF TarRun
  <2>3. run.localpath = NoFile => ~found
    BY Constants
  <2> HIDE DEF found
  <2>4. run'.localpath = "src" => found
    BY <1>7 DEF found
  <2>5. QED
    BY <1>1, <1>5, <1>7, <2>1, <2>2, <2>4 DEF TarRun
<1>16. QED
  BY <1>1, <1>4, <1>8, <1>9, <1>14, <1>15, TarControl DEF RepoStep

(***************************************************************************)
(* Repositories: mirrors are asked for what the repository lacks.          *)
(***************************************************************************)
LEMMA CleanLinking ==
  ASSUME Typed, url = "git"
  PROVE  /\ CleanWrites \in Seq(Op) /\ Linking(CleanWrites)
         /\ \A w \in Ops(CleanWrites) :
              /\ w.op \in {"entry", "write", "stamp"}
              /\ On(w, "src") \/ On(w, "tar") =>
                   w = Write("src", Broken) \/ (w.op = "entry" /\ w.to = NoFile)
         /\ \A w \in Ops(CleanWrites), v \in Versions : On(w, "src") => ~Has(w.to, v)
<1>1. /\ CleanWrites \in Seq(Op)
      /\ Ops(CleanWrites) \subseteq {Write("src", Broken), Entry("src", NoFile),
                                     Entry("tar", NoFile), Mark("tar", NoFile)}
  BY CleanWritesOf
<1>2. /\ Write("src", Broken).op = "write" /\ Write("src", Broken).to = Broken
      /\ Entry("src", NoFile).op = "entry" /\ Entry("src", NoFile).to = NoFile
      /\ Entry("tar", NoFile).op = "entry" /\ Entry("tar", NoFile).to = NoFile
      /\ Mark("tar", NoFile).op = "stamp"
  BY DEF Write, Entry, Mark
<1>3. NoFile \notin FileMirrors
  BY Constants
<1>4. QED
  BY <1>1, <1>2, <1>3 DEF Linking, On, Has

LEMMA RepoSought ==
  ASSUME IInv, url = "git", NEW pc \in {"mirror", "process", "upstream failed"}, At(pc)
  PROVE  /\ Typed /\ RunTyped(run) /\ run.outcome = "none" /\ run.localpath = NoFile
         /\ ~Has(Content("src"), want[holder])
         /\ Content("src") = disk["src"] /\ holder \in Procs /\ want[holder] \in Versions
<1>1. /\ Typed /\ Routes /\ RepoInv /\ RunTyped(run) /\ holder # NoProc /\ run.pc = pc
      /\ Content("src") = disk["src"] /\ run.outcome = "none"
      /\ holder \in Procs /\ want[holder] \in Versions
  BY RepoAt
<1>2. Lacks
  BY <1>1 DEF RepoInv, RepoRun
<1>3. QED
  BY <1>1, <1>2 DEF Lacks, Routes

LEMMA RepoUpstreamFailed ==
  ASSUME IInv, url = "git", UpstreamFailed
  PROVE  RepoStep
<1>1. At("upstream failed")
  BY DEF UpstreamFailed
<1>2. /\ Typed /\ RunTyped(run) /\ run.outcome = "none" /\ run.localpath = NoFile
      /\ ~Has(Content("src"), want[holder]) /\ want[holder] \in Versions
  BY <1>1, RepoSought
<1> DEFINE next == [run EXCEPT !.pc = "mirror", !.pre = FALSE, !.left = Mirrors[url]]
<1>3. RunTyped(next)
  BY <1>2, RunSteps DEF Pcs
<1>4. next.pc = "mirror" /\ next.outcome = "none" /\ next.localpath = NoFile
  BY <1>2 DEF RunTyped
<1>5. PICK writes \in {<<>>, CleanWrites} : Then(writes, next)
  BY DEF UpstreamFailed
<1> HIDE DEF next
<1>6. /\ writes \in Seq(Op) /\ Linking(writes)
      /\ \A w \in Ops(writes) : On(w, "src") => ~Has(w.to, want[holder])
  <2>1. CASE writes = <<>>
    BY <2>1, NoWrite DEF Linking
  <2>2. CASE writes = CleanWrites
    BY <1>2, <2>2, CleanLinking
  <2>3. QED
    BY <2>1, <2>2
<1>7. QED
  BY <1>1, <1>2, <1>3, <1>4, <1>5, <1>6, RepoLacking

LEMMA RepoNoMirrorLeft ==
  ASSUME IInv, url = "git", NoMirrorLeft
  PROVE  RepoStep
<1>1. At("mirror")
  BY DEF NoMirrorLeft
<1>2. /\ Typed /\ RunTyped(run) /\ run.outcome = "none" /\ run.localpath = NoFile
      /\ ~Has(Content("src"), want[holder])
  BY <1>1, RepoSought
<1>3. PICK pc \in {"again", "end"} : Then(<<>>, [run EXCEPT !.pc = pc])
  BY DEF NoMirrorLeft
<1> DEFINE next == [run EXCEPT !.pc = pc]
<1>4. RunTyped(next)
  BY <1>2, RunSteps DEF Pcs
<1>5. next.pc \in {"again", "end"} /\ next.outcome = "none" /\ next.localpath = NoFile
  BY <1>2 DEF RunTyped
<1>6. Then(<<>>, next)
  BY <1>3
<1> HIDE DEF next
<1>7. QED
  BY <1>1, <1>2, <1>4, <1>5, <1>6, NoWrite, RepoLacking DEF Linking

LEMMA RepoLinkToMirror ==
  ASSUME IInv, url = "git", NEW m, LinkToMirror(m)
  PROVE  RepoStep
<1>1. At("mirror") /\ m \in FileMirrors
  BY DEF LinkToMirror
<1>2. /\ Typed /\ RunTyped(run) /\ run.outcome = "none" /\ run.localpath = NoFile
      /\ ~Has(Content("src"), want[holder])
  BY <1>1, RepoSought
<1> DEFINE process == [run EXCEPT !.pc = "process"]
           closed == [run EXCEPT !.pc = "close", !.outcome = "failed"]
           a == Entry("tar", NoFile)
           b == Entry("tar", m)
<1>3. /\ RunTyped(NextMirror) /\ NextMirror.pc = "mirror" /\ NextMirror.outcome = "none"
      /\ NextMirror.localpath = NoFile
  BY <1>2, RunSteps
<1>4. RunTyped(process)
  BY <1>2, RunSteps DEF Pcs
<1>5. process.pc = "process" /\ process.outcome = "none" /\ process.localpath = NoFile
  BY <1>2 DEF RunTyped
<1>6. RunTyped(closed)
  BY <1>2, RunSteps DEF Pcs
<1>7. closed.pc = "close" /\ closed.outcome = "failed" /\ closed.localpath = NoFile
  BY <1>2 DEF RunTyped
<1>8. /\ a \in Op /\ a.op = "entry" /\ a.name = "tar" /\ a.to = NoFile
      /\ b \in Op /\ b.op = "entry" /\ b.name = "tar" /\ b.to = m
  BY <1>1, OpKinds DEF Contents
<1>9. \/ Then(<<>>, NextMirror)
      \/ Then(<<>>, process)
      \/ Then(<<>>, closed)
      \/ mirror[m] # NoFile /\ (Then(<<a>> \o <<b>>, process) \/ Then(<<>> \o <<b>>, process))
  BY DEF LinkToMirror
<1> HIDE DEF process, closed, a, b
<1>10. CASE Then(<<>>, NextMirror) \/ Then(<<>>, process) \/ Then(<<>>, closed)
  <2>1. Linking(<<>>) /\ <<>> \in Seq(Op) /\ Ops(<<>>) = {}
    BY NoWrite DEF Linking
  <2>2. CASE Then(<<>>, NextMirror)
    BY <1>1, <1>2, <1>3, <2>1, <2>2, RepoLacking
  <2>3. CASE Then(<<>>, process)
    BY <1>1, <1>2, <1>4, <1>5, <2>1, <2>3, RepoLacking
  <2>4. CASE Then(<<>>, closed)
    BY <1>1, <1>2, <1>6, <1>7, <2>1, <2>4, RepoLacking
  <2>5. QED
    BY <1>10, <2>2, <2>3, <2>4
<1>11. ASSUME mirror[m] # NoFile, NEW writes \in {<<a, b>>, <<b>>}, Then(writes, process)
       PROVE  RepoStep
  <2>1. writes \in Seq(Op) /\ Ops(writes) \subseteq {a, b}
    <3>1. CASE writes = <<b>>
      BY <1>8, <3>1, OneWrite
    <3>2. CASE writes = <<a, b>>
      BY <1>8, <3>2, TwoWrites
    <3>3. QED
      BY <1>11, <3>1, <3>2
  <2>2. Linking(writes)
    BY <1>8, <1>11, <2>1, Constants DEF Linking
  <2>3. \A w \in Ops(writes) : ~On(w, "src")
    BY <1>8, <2>1 DEF On
  <2>4. QED
    BY <1>1, <1>2, <1>4, <1>5, <1>11, <2>1, <2>2, <2>3, RepoLacking
<1>12. <<a>> \o <<b>> = <<a, b>> /\ <<>> \o <<b>> = <<b>>
  BY Joined
<1>13. QED
  BY <1>9, <1>10, <1>11, <1>12

LEMMA RepoDownloadTarball ==
  ASSUME IInv, url = "git", NEW m \in AllMirrors, DownloadTarball(m)
  PROVE  RepoStep
<1>1. At("mirror")
  BY DEF DownloadTarball
<1>2. /\ Typed /\ RunTyped(run) /\ run.outcome = "none" /\ run.localpath = NoFile
      /\ ~Has(Content("src"), want[holder])
  BY <1>1, RepoSought
<1> DEFINE process == [run EXCEPT !.pc = "process"]
           stamped == Mark("tar", Old)
           removed == Entry("tar", NoFile)
<1>3. /\ RunTyped(NextMirror) /\ NextMirror.pc = "mirror" /\ NextMirror.outcome = "none"
      /\ NextMirror.localpath = NoFile
  BY <1>2, RunSteps
<1>4. RunTyped(process)
  BY <1>2, RunSteps DEF Pcs
<1>5. process.pc = "process" /\ process.outcome = "none" /\ process.localpath = NoFile
  BY <1>2 DEF RunTyped
<1>6. /\ <<stamped>> \in Seq(Op) /\ Ops(<<stamped>>) = {stamped}
      /\ <<removed>> \in Seq(Op) /\ Ops(<<removed>>) = {removed}
      /\ stamped.op = "stamp" /\ removed.name = "tar" /\ removed.to = NoFile
      /\ removed.op = "entry"
  <2>1. /\ stamped \in Op /\ removed \in Op
        /\ stamped.op = "stamp" /\ removed.name = "tar" /\ removed.to = NoFile
        /\ removed.op = "entry"
    BY OpKinds DEF Contents
  <2> HIDE DEF stamped, removed
  <2>2. QED
    BY <2>1, OneWrite
<1>7. \/ Then(<<stamped>>, process)
      \/ \E s \in Serves[m] : \E c \in Downloads("tar", s) :
           Then(DownloadWrites("tar", c) \o <<stamped>>, process)
      \/ \E writes \in PartWrites("tar") : Then(writes \o <<removed>>, NextMirror)
  BY DEF DownloadTarball
<1> HIDE DEF process, stamped, removed
\* Only the tarball and its stamp are written.
<1>8. ASSUME NEW writes \in Seq(Op), NEW next \in {process, NextMirror}, Then(writes, next),
             \A w \in Ops(writes) : \/ w.op = "write" /\ w.name = "tar"
                                    \/ w \in {stamped, removed}
      PROVE  RepoStep
  <2>1. Linking(writes)
    BY <1>6, <1>8, Constants DEF Linking
  <2>2. \A w \in Ops(writes) : ~On(w, "src")
    BY <1>6, <1>8 DEF On
  <2>3. /\ RunTyped(next) /\ next.pc \in {"mirror", "process"} /\ next.outcome = "none"
        /\ next.localpath = NoFile
    BY <1>3, <1>4, <1>5, <1>8
  <2>4. QED
    BY <1>1, <1>2, <1>8, <2>1, <2>2, <2>3, RepoLacking
<1>9. CASE Then(<<stamped>>, process)
  BY <1>6, <1>8, <1>9
<1>10. ASSUME NEW s \in Serves[m], NEW c \in Downloads("tar", s),
              Then(DownloadWrites("tar", c) \o <<stamped>>, process)
       PROVE  RepoStep
  <2> DEFINE writes == DownloadWrites("tar", c)
  <2>1. s \in SUBSET Versions
    BY FetchAssumption DEF AllMirrors
  <2>2. writes \in Seq(Op) /\ \A w \in Ops(writes) : w.op = "write" /\ w.name = "tar"
    BY <1>2, <2>1, DownloadWritesOf
  <2>3. Then(writes \o <<stamped>>, process)
    BY <1>10
  <2> HIDE DEF writes
  <2>4. /\ writes \o <<stamped>> \in Seq(Op)
        /\ Ops(writes \o <<stamped>>) = Ops(writes) \cup {stamped}
    BY <1>6, <2>2, MoreWrites
  <2>5. QED
    BY <1>8, <2>2, <2>3, <2>4
<1>11. ASSUME NEW writes \in PartWrites("tar"), Then(writes \o <<removed>>, NextMirror)
       PROVE  RepoStep
  <2>1. writes \in Seq(Op) /\ \A w \in Ops(writes) : w = Write("tar", Broken)
    BY <1>2, PartWritesOf
  <2>2. Write("tar", Broken).op = "write" /\ Write("tar", Broken).name = "tar"
    BY DEF Write
  <2>3. /\ writes \o <<removed>> \in Seq(Op)
        /\ Ops(writes \o <<removed>>) = Ops(writes) \cup {removed}
    BY <1>6, <2>1, MoreWrites
  <2>4. QED
    BY <1>8, <1>11, <2>1, <2>2, <2>3
<1>12. QED
  BY <1>7, <1>9, <1>10, <1>11

LEMMA RepoProcessTarball ==
  ASSUME IInv, url = "git", ProcessTarball
  PROVE  RepoStep
<1>1. At("process")
  BY DEF ProcessTarball
<1>2. /\ Typed /\ RunTyped(run) /\ run.outcome = "none" /\ run.localpath = NoFile
      /\ ~Has(Content("src"), want[holder])
  BY <1>1, RepoSought
<1>3. Then(<<>>, [run EXCEPT !.pc = "extract"])
  BY <1>2 DEF ProcessTarball, NeedUpdate
<1> DEFINE next == [run EXCEPT !.pc = "extract"]
<1>4. RunTyped(next)
  BY <1>2, RunSteps DEF Pcs
<1>5. next.pc = "extract" /\ next.outcome = "none" /\ next.localpath = NoFile
  BY <1>2 DEF RunTyped
<1>6. Then(<<>>, next)
  BY <1>3
<1> HIDE DEF next
<1>7. QED
  BY <1>1, <1>2, <1>4, <1>5, <1>6, NoWrite, RepoLacking DEF Linking

(***************************************************************************)
(* Repositories: Git.download and build_mirror_data.                       *)
(***************************************************************************)
LEMMA RepoGitFailed ==
  ASSUME IInv, url = "git", NEW pc \in {"extract", "fetch"}, At(pc),
         ~Has(Content("src"), want[holder]),
         NEW writes \in Seq(Op), Linking(writes),
         \A w \in Ops(writes) : On(w, "src") => ~Has(w.to, want[holder]),
         GitFailed(writes)
  PROVE  RepoStep
<1>1. /\ Typed /\ Routes /\ RunTyped(run) /\ run.pc = pc /\ run.outcome = "none"
  BY RepoAt
<1>2. run.localpath = NoFile
  BY <1>1 DEF Routes
<1> DEFINE failed == [run EXCEPT !.pc = "upstream failed"]
           removed == Entry("tar", NoFile)
<1>3. /\ RunTyped(NextMirror) /\ NextMirror.pc = "mirror" /\ NextMirror.outcome = "none"
      /\ NextMirror.localpath = NoFile
  BY <1>1, <1>2, RunSteps
<1>4. RunTyped(failed)
  BY <1>1, RunSteps DEF Pcs
<1>5. failed.pc = "upstream failed" /\ failed.outcome = "none" /\ failed.localpath = NoFile
  BY <1>1, <1>2 DEF RunTyped
<1>6. removed \in Op /\ removed.op = "entry" /\ removed.name = "tar" /\ removed.to = NoFile
  BY OpKinds DEF Contents
<1>7. \/ Then(writes, failed)
      \/ Then(writes, NextMirror)
      \/ Then(writes \o <<removed>>, NextMirror)
  BY DEF GitFailed
<1> HIDE DEF failed, removed
<1>8. CASE Then(writes, failed)
  BY <1>4, <1>5, <1>8, RepoLacking
<1>9. CASE Then(writes, NextMirror)
  BY <1>3, <1>9, RepoLacking
<1>10. CASE Then(writes \o <<removed>>, NextMirror)
  <2>1. <<removed>> \in Seq(Op) /\ Ops(<<removed>>) = {removed}
    BY <1>6, OneWrite
  <2>2. /\ writes \o <<removed>> \in Seq(Op)
        /\ Ops(writes \o <<removed>>) = Ops(writes) \cup {removed}
    BY <2>1, MoreWrites
  <2>3. Linking(writes \o <<removed>>)
    BY <1>6, <2>2, Constants DEF Linking
  <2>4. \A w \in Ops(writes \o <<removed>>) : On(w, "src") => ~Has(w.to, want[holder])
    BY <1>6, <2>2 DEF On
  <2>5. QED
    BY <1>3, <1>10, <2>2, <2>3, <2>4, RepoLacking
<1>11. QED
  BY <1>7, <1>8, <1>9, <1>10

\* On to git fetch, with what is extracted or cloned.
LEMMA RepoFetch ==
  ASSUME IInv, url = "git", At("extract"), NEW writes \in Seq(Op),
         Then(writes, [run EXCEPT !.pc = "fetch"]), Linking(writes),
         writes = <<>> \/ ~Exists("src"),
         TarRun => (Lacks \/ Gone \/ Level \/ Copying)'
  PROVE  RepoStep
<1>1. /\ Typed /\ Routes /\ RepoInv /\ TarInv /\ RunTyped(run) /\ holder # NoProc
      /\ run.pc = "extract" /\ Content("src") = disk["src"] /\ run.outcome = "none"
  BY RepoAt
<1>2. run.localpath = NoFile
  BY <1>1 DEF Routes
<1>3. /\ todo' = writes /\ run' = [run EXCEPT !.pc = "fetch"]
      /\ UNCHANGED <<external, disks, holder, result, last, mishaps>>
  BY DEF Then
<1>4. RunTyped(run')
  BY <1>1, <1>3, RunSteps DEF Pcs
<1>5. run'.pc = "fetch" /\ run'.outcome = "none" /\ run'.localpath = NoFile
  BY <1>1, <1>2, <1>3 DEF RunTyped
<1>6. Typed'
  BY <1>1, <1>3, <1>4, ControlTyped
<1>7. holder' = holder /\ url' = url
  BY <1>3 DEF external
<1>8. Routes'
  BY <1>1, <1>5, <1>7 DEF Routes
<1>9. RepoRun'
  BY <1>5, Constants DEF RepoRun
<1>10. \A p \in Procs : result[p] = "ok" /\ Agreed =>
         Untouched("src")' /\ Mark("src", NoFile) \notin Ops(todo')
  <2>1. CASE writes = <<>>
    BY <1>3, <2>1, NoWrite DEF Untouched
  <2>2. CASE ~Exists("src")
    BY <1>1, <2>2 DEF RepoInv, RepoKept, Exists, Has
  <2>3. QED
    BY <2>1, <2>2
<1>11. Linking(writes)' <=> Linking(todo')
  BY <1>3 DEF Linking, disks
<1>12. RepoInv'
  <2>1. Linking(todo')
    BY <1>3
  <2>2. QED
    BY <1>1, <1>3, <1>9, <1>10, <2>1, RepoControl
<1>13. TarRun => TarRun'
  BY <1>1, <1>5, <1>7, Constants DEF TarRun
<1>14. QED
  BY <1>1, <1>3, <1>6, <1>8, <1>12, <1>13, TarControl DEF RepoStep

LEMMA RepoExtract ==
  ASSUME IInv, url = "git", Extract
  PROVE  RepoStep
<1>1. At("extract")
  BY DEF Extract
<1>2. /\ Typed /\ RepoInv /\ TarInv /\ RunTyped(run) /\ holder # NoProc
      /\ run.pc = "extract" /\ todo = <<>> /\ Content("src") = disk["src"]
      /\ holder \in Procs /\ run.localpath = NoFile
  <2>1. /\ Typed /\ Routes /\ RepoInv /\ TarInv /\ RunTyped(run) /\ holder # NoProc
        /\ run.pc = "extract" /\ todo = <<>> /\ Content("src") = disk["src"]
        /\ holder \in Procs
    BY <1>1, RepoAt
  <2>2. QED
    BY <2>1 DEF Routes
<1> DEFINE fetch == [run EXCEPT !.pc = "fetch"]
           a == Write("src", Broken)
           b == Write("src", Content("tar"))
<1>3. CASE Exists("src") /\ Then(<<>>, fetch)
  <2>1. Linking(<<>>)
    BY NoWrite DEF Linking
  <2>2. todo' = <<>> /\ UNCHANGED <<external, disks, holder>>
    BY <1>3 DEF Then
  <2>3. \A w \in Ops(todo') : w.op = "stamp"
    BY <2>2, NoWrite
  <2>4. TarRun => Level \/ Lacks
    BY <1>2 DEF TarRun
  <2>5. TarRun => Level' \/ Lacks'
    BY <1>2, <2>2, <2>3, <2>4, OnlyStamps
  <2>6. QED
    BY <1>1, <1>3, <2>1, <2>5, NoWrite, RepoFetch
<1>4. CASE ~Exists("src") /\ Exists("tar")
  <2>1. ~Has(Content("src"), want[holder])
    BY <1>4 DEF Exists, Has
  <2>2. a \in Op /\ a.op = "write" /\ a.to = Broken
    BY OpKinds
  <2>3. <<a>> \in Seq(Op) /\ Ops(<<a>>) = {a}
    BY <2>2, OneWrite
  <2>4. CASE Content("tar") = Broken
    <3>1. GitFailed(<<a>>)
      BY <1>4, <2>4 DEF Extract
    <3> HIDE DEF a
    <3>2. Linking(<<a>>) /\ \A w \in Ops(<<a>>) : ~Has(w.to, want[holder])
      BY <2>2, <2>3 DEF Linking, Has
    <3>3. QED
      BY <1>1, <2>1, <2>3, <3>1, <3>2, RepoGitFailed
  <2>5. CASE Content("tar") # Broken
    <3>1. Then(<<a, b>>, fetch)
      BY <1>4, <2>5 DEF Extract
    <3>2. Content("tar") \in SUBSET Versions
      BY <1>2, <1>4, <2>5, ContentTyped DEF Exists, Contents
    <3>3. b \in Op /\ b.op = "write"
      BY <3>2, OpKinds
    <3>4. Copying'
      <4>1. todo' = <<a, b>> /\ Content("tar")' = Content("tar")
        BY <3>1 DEF Then, disks, Content
      <4>2. todo' = <<Write("src", Broken), Write("src", Content("tar")')>>
        BY <4>1
      <4>3. QED
        BY <4>2 DEF Copying, Write
    <3> HIDE DEF a, b
    <3>5. <<a, b>> \in Seq(Op) /\ Ops(<<a, b>>) = {a, b}
      BY <2>2, <3>3, TwoWrites
    <3>6. Linking(<<a, b>>)
      BY <2>2, <3>3, <3>5 DEF Linking
    <3>7. QED
      BY <1>1, <1>4, <3>1, <3>4, <3>5, <3>6, RepoFetch
  <2>6. QED
    BY <2>4, <2>5
<1>5. QED
  BY <1>3, <1>4 DEF Extract

LEMMA RepoClone ==
  ASSUME IInv, url = "git", Clone \/ CloneFails
  PROVE  RepoStep
<1>1. At("extract") /\ ~Exists("src") /\ ~Exists("tar")
  BY DEF Clone, CloneFails, Cloning
<1>2. Typed /\ holder \in Procs
  BY <1>1, RepoAt
<1>3. 1..upstream \in SUBSET Versions /\ {} \in SUBSET Versions /\ NoFile \in Contents
  BY <1>2, WantedVersions DEF Contents
<1> DEFINE a == Write("src", {})
           b == Write("src", 1..upstream)
           c == Entry("src", NoFile)
<1>4. /\ a \in Op /\ a.op = "write" /\ a.name = "src" /\ a.to = {}
      /\ b \in Op /\ b.op = "write" /\ b.name = "src"
      /\ c \in Op /\ c.op = "entry" /\ c.name = "src" /\ c.to = NoFile
  <2>1. a \in Op /\ a.op = "write" /\ a.name = "src" /\ a.to = {}
    BY <1>3, OpKinds
  <2>2. b \in Op /\ b.op = "write" /\ b.name = "src"
    <3>1. \A r \in SUBSET Versions :
            LET w == Write("src", r) IN w \in Op /\ w.op = "write" /\ w.name = "src"
      BY OpKinds
    <3>2. QED
      BY <1>3, <3>1
  <2>3. c \in Op /\ c.op = "entry" /\ c.name = "src" /\ c.to = NoFile
    BY <1>3, OpKinds
  <2>4. QED
    BY <2>1, <2>2, <2>3
<1>5. \/ Then(<<a, b>>, [run EXCEPT !.pc = "fetch"])
      \/ GitFailed(<<a, c>>)
  BY DEF Clone, CloneFails
<1> HIDE DEF a, b, c
<1>6. /\ <<a, b>> \in Seq(Op) /\ Ops(<<a, b>>) = {a, b}
      /\ <<a, c>> \in Seq(Op) /\ Ops(<<a, c>>) = {a, c}
  BY <1>4, TwoWrites
<1>7. Linking(<<a, b>>) /\ Linking(<<a, c>>)
  BY <1>4, <1>6, Constants DEF Linking
<1>8. CASE Then(<<a, b>>, [run EXCEPT !.pc = "fetch"])
  <2>1. todo' = <<a, b>> /\ Content("tar")' = Content("tar")
    BY <1>8 DEF Then, disks, Content
  <2>2. Ops(todo') = {a, b}
    BY <1>6, <2>1
  <2>3. Untouched("tar")'
    BY <1>4, <2>2 DEF Untouched, On
  <2>4. Gone'
    BY <1>1, <2>1, <2>3 DEF Gone, Exists
  <2>5. QED
    BY <1>1, <1>6, <1>7, <1>8, <2>4, RepoFetch
<1>9. CASE GitFailed(<<a, c>>)
  <2>1. ~Has(Content("src"), want[holder])
    BY <1>1 DEF Exists, Has
  <2>2. \A w \in Ops(<<a, c>>) : ~Has(w.to, want[holder])
    BY <1>4, <1>6 DEF Has
  <2>3. QED
    BY <1>1, <1>6, <1>7, <1>9, <2>1, <2>2, RepoGitFailed
<1>10. QED
  BY <1>5, <1>8, <1>9

LEMMA RepoNothingToFetch ==
  ASSUME IInv, url = "git", NothingToFetch
  PROVE  RepoStep
<1>1. At("fetch") /\ Has(Content("src"), want[holder])
      /\ Then(<<>>, [run EXCEPT !.pc = "tarball"])
  BY DEF NothingToFetch
<1>2. /\ Typed /\ Routes /\ RepoInv /\ TarInv /\ RunTyped(run) /\ holder # NoProc
      /\ run.pc = "fetch" /\ todo = <<>> /\ Content("src") = disk["src"] /\ run.outcome = "none"
  BY <1>1, RepoAt
<1>3. run.localpath = NoFile
  BY <1>2 DEF Routes
<1>4. /\ todo' = <<>> /\ run' = [run EXCEPT !.pc = "tarball"]
      /\ UNCHANGED <<external, disks, holder, result, last, mishaps>>
  BY <1>1 DEF Then
<1>5. RunTyped(run')
  BY <1>2, <1>4, RunSteps DEF Pcs
<1>6. run'.pc = "tarball" /\ run'.outcome = "none" /\ run'.localpath = NoFile
  BY <1>2, <1>3, <1>4 DEF RunTyped
<1>7. Typed'
  BY <1>2, <1>4, <1>5, NoWrite, ControlTyped
<1>8. holder' = holder /\ url' = url
  BY <1>4 DEF external
<1>9. Routes'
  BY <1>2, <1>6, <1>8 DEF Routes
<1>10. \A w \in Ops(todo') : w.op = "stamp"
  BY <1>4, NoWrite
<1>11. Holding
  BY <1>1, <1>2, NoWrite DEF Holding, Untouched
<1>12. /\ Holding' /\ Untouched("src")' /\ Linking(todo')
       /\ Level => Level'
       /\ Gone => Gone'
  BY <1>2, <1>4, <1>10, <1>11, OnlyStamps
<1>13. RepoRun'
  BY <1>6, <1>12, Constants DEF RepoRun
<1>14. RepoInv'
  BY <1>2, <1>4, <1>12, <1>13, RepoControl, NoWrite
<1>15. TarRun => TarRun'
  <2>1. ~Lacks /\ ~Copying
    BY <1>1, <1>2 DEF Lacks, Copying
  <2>2. TarRun => Level' \/ Gone'
    BY <1>2, <1>12, <2>1 DEF TarRun
  <2>3. QED
    BY <1>2, <1>6, <1>8, <2>2, Constants DEF TarRun
<1>16. QED
  BY <1>2, <1>4, <1>7, <1>9, <1>14, <1>15, TarControl DEF RepoStep

\* git fetch; the tarball goes after it.
LEMMA RepoFetchRefs ==
  ASSUME IInv, url = "git", FetchRefs \/ FetchRefsFails
  PROVE  RepoStep
<1>1. At("fetch") /\ ~Has(Content("src"), want[holder])
  BY DEF FetchRefs, FetchRefsFails, Lacking
<1>2. /\ Typed /\ Routes /\ RepoInv /\ TarInv /\ RunTyped(run) /\ holder # NoProc
      /\ run.pc = "fetch" /\ todo = <<>> /\ Content("src") = disk["src"] /\ run.outcome = "none"
      /\ holder \in Procs /\ want[holder] \in Versions
  BY <1>1, RepoAt
<1>3. run.localpath = NoFile
  BY <1>2 DEF Routes
<1>4. CASE FetchRefsFails
  <2>1. GitFailed(<<>>)
    BY <1>4 DEF FetchRefsFails
  <2>2. QED
    BY <1>1, <2>1, NoWrite, RepoGitFailed DEF Linking
<1>5. CASE FetchRefs
  <2>1. PICK revisions : revisions = 1..upstream
    OBVIOUS
  <2>2. /\ revisions \in SUBSET Versions
        /\ want[holder] \in revisions <=> want[holder] <= upstream
    BY <1>2, <2>1, WantedVersions DEF Versions
  <2> DEFINE a == Write("src", revisions)
             b == Entry("tar", NoFile)
  <2>3. /\ a \in Op /\ a.op = "write" /\ a.to = revisions
        /\ b \in Op /\ b.op = "entry" /\ b.name = "tar" /\ b.to = NoFile
    BY <2>2, OpKinds DEF Contents
  <2>4. IF want[holder] <= upstream THEN Then(<<a, b>>, [run EXCEPT !.pc = "tarball"])
        ELSE GitFailed(<<a, b>>)
    BY <1>5, <2>1 DEF FetchRefs
  <2>5. <<a, b>> = <<Write("src", revisions), Entry("tar", NoFile)>>
    OBVIOUS
  <2> HIDE DEF a, b
  <2>6. <<a, b>> \in Seq(Op) /\ Ops(<<a, b>>) = {a, b}
    BY <2>3, TwoWrites
  <2>7. Linking(<<a, b>>)
    BY <2>3, <2>6, Constants DEF Linking
  <2>8. CASE ~(want[holder] <= upstream)
    <3>1. \A w \in Ops(<<a, b>>) : On(w, "src") => ~Has(w.to, want[holder])
      BY <2>2, <2>3, <2>6, <2>8 DEF On, Has
    <3>2. GitFailed(<<a, b>>)
      BY <2>4, <2>8
    <3>3. QED
      BY <1>1, <2>6, <2>7, <3>1, <3>2, RepoGitFailed
  <2>9. CASE want[holder] <= upstream
    <3>1. /\ todo' = <<a, b>> /\ run' = [run EXCEPT !.pc = "tarball"]
          /\ UNCHANGED <<external, disks, holder, result, last, mishaps>>
      BY <2>4, <2>9 DEF Then
    <3>2. RunTyped(run')
      BY <1>2, <3>1, RunSteps DEF Pcs
    <3>3. run'.pc = "tarball" /\ run'.outcome = "none" /\ run'.localpath = NoFile
      BY <1>2, <1>3, <3>1 DEF RunTyped
    <3>4. Typed'
      BY <1>2, <2>6, <3>1, <3>2, ControlTyped
    <3>5. holder' = holder /\ url' = url /\ want' = want
      BY <3>1 DEF external
    <3>6. Routes'
      BY <1>2, <3>3, <3>5 DEF Routes
    <3>7. Arriving' /\ Dropping'
      BY <2>2, <2>5, <2>9, <3>1, <3>5 DEF Arriving, Dropping
    <3>8. RepoRun'
      BY <3>3, <3>7, Constants DEF RepoRun
    <3>9. \A p \in Procs : ~(result[p] = "ok" /\ Agreed)
      BY <1>1, <1>2 DEF RepoInv, RepoKept, Agreed
    <3>10. RepoInv'
      BY <1>2, <2>7, <3>1, <3>8, <3>9, RepoControl
    <3>11. TarRun'
      BY <1>2, <3>3, <3>5, <3>7, Constants DEF TarRun
    <3>12. QED
      BY <1>2, <3>1, <3>4, <3>6, <3>10, <3>11, TarControl DEF RepoStep
  <2>10. QED
    BY <2>8, <2>9
<1>6. QED
  BY <1>4, <1>5

\* The tarball of a repository that holds what is wanted.
LEMMA RepoBuildMirrorData ==
  ASSUME IInv, url = "git", BuildMirrorData
  PROVE  RepoStep
<1>1. At("tarball")
  BY DEF BuildMirrorData
<1>2. /\ Typed /\ Routes /\ RepoInv /\ TarInv /\ RunTyped(run) /\ holder # NoProc
      /\ run.pc = "tarball" /\ todo = <<>> /\ Content("src") = disk["src"] /\ run.outcome = "none"
      /\ holder \in Procs
  BY <1>1, RepoAt
<1>3. run.localpath = NoFile
  BY <1>2 DEF Routes
<1>4. Has(Content("src"), want[holder])
  BY <1>2 DEF RepoInv, RepoRun, Arriving, Holding
<1> DEFINE a == Entry("tar", NoFile)
           b == Write("tar", Broken)
           c == Write("tar", Content("src"))
           d == Mark("tar", Old)
           writes == IF WriteTarballs /\ ~Exists("tar") THEN <<a, b, c, d>> ELSE <<>>
           early == [run EXCEPT !.pc = "early"]
<1>5. Content("src") \in SUBSET Versions
  BY <1>2, <1>4, ContentTyped DEF Has, Contents
<1>6. /\ a \in Op /\ a.op = "entry" /\ a.name = "tar" /\ a.to = NoFile
      /\ b \in Op /\ b.op = "write" /\ b.name = "tar"
      /\ c \in Op /\ c.op = "write" /\ c.name = "tar"
      /\ d \in Op /\ d.op = "stamp" /\ d.name = "tar"
  BY <1>5, OpKinds DEF Contents
<1>7. PICK next \in {early, Given("src")} : Then(writes, next)
  BY DEF BuildMirrorData
<1>8. RunTyped(early)
  BY <1>2, RunSteps DEF Pcs
<1>9. early.pc = "early" /\ early.outcome = "none" /\ early.localpath = NoFile
  BY <1>2, <1>3 DEF RunTyped
<1>10. /\ RunTyped(Given("src")) /\ Given("src").pc \in {"again", "end"}
       /\ Given("src").outcome = "none" /\ Given("src").localpath = "src"
  BY <1>2, RunSteps
<1>11. /\ RunTyped(next) /\ next.outcome = "none"
       /\ \/ next.pc = "early" /\ next.localpath = NoFile
          \/ next.pc \in {"again", "end"} /\ next.localpath = "src"
  BY <1>7, <1>8, <1>9, <1>10
<1>12. d # Mark("src", NoFile)
  BY DEF Mark
<1>13. <<a, b, c, d>> = <<Entry("tar", NoFile), Write("tar", Broken),
                          Write("tar", disk["src"]), Mark("tar", Old)>>
  BY <1>2
<1>14. writes = IF WriteTarballs /\ ~Exists("tar") THEN <<a, b, c, d>> ELSE <<>>
  OBVIOUS
<1> HIDE DEF a, b, c, d, early, writes
<1>15. /\ todo' = writes /\ run' = next
       /\ UNCHANGED <<external, disks, holder, result, last, mishaps>>
  BY <1>7 DEF Then
<1>16. writes \in Seq(Op) /\ Ops(writes) \subseteq {a, b, c, d}
  <2>1. <<a, b, c, d>> \in Seq(Op) /\ Ops(<<a, b, c, d>>) = {a, b, c, d}
    BY <1>6, SeqOf, OpsOf
  <2>2. QED
    BY <1>14, <2>1, NoWrite
<1>17. Typed'
  BY <1>2, <1>11, <1>15, <1>16, ControlTyped
<1>18. /\ holder' = holder /\ url' = url /\ disk' = disk /\ want' = want
       /\ Content("src")' = Content("src") /\ Content("tar")' = Content("tar")
  BY <1>15 DEF external, disks, Content
<1>19. Routes'
  <2>1. run' = next
    BY <1>15
  <2>2. QED
    BY <1>2, <1>11, <1>18, <2>1, Constants DEF Routes
<1>20. Untouched("src")'
  BY <1>6, <1>15, <1>16 DEF Untouched, On
<1>21. Holding'
  BY <1>2, <1>4, <1>18, <1>20 DEF Holding
<1>22. Linking(todo')
  BY <1>6, <1>15, <1>16, Constants DEF Linking
<1>23. RepoRun'
  BY <1>11, <1>15, <1>21 DEF RepoRun
<1>24. Mark("src", NoFile) \notin Ops(todo')
  <2>1. Mark("src", NoFile).op = "stamp" /\ Mark("src", NoFile).name = "src"
    BY DEF Mark
  <2>2. QED
    BY <1>6, <1>15, <1>16, <2>1
<1>25. RepoInv'
  BY <1>2, <1>15, <1>20, <1>22, <1>23, <1>24, RepoControl
<1>26. WriteTarballs /\ TarRun => TarRun'
  <2>1. CASE WriteTarballs /\ ~Exists("tar")
    <3>1. todo' = <<Entry("tar", NoFile), Write("tar", Broken),
                    Write("tar", disk'["src"]), Mark("tar", Old)>>
      BY <1>13, <1>14, <1>15, <1>18, <2>1
    <3>2. Packed'
      BY <3>1 DEF Packed, Packing
    <3>3. QED
      BY <1>2, <1>11, <1>15, <1>18, <3>2, Constants DEF TarRun
  <2>2. CASE WriteTarballs /\ Exists("tar") /\ TarRun
    <3>1. todo' = <<>> /\ Ops(todo') = {}
      BY <1>14, <1>15, <2>2, NoWrite
    <3>2. Level
      BY <1>2, <2>2 DEF TarRun, Gone, Dropping
    <3>3. Packed
      BY <2>2, <3>2 DEF Packed
    <3>4. \A w \in Ops(todo') : w.op = "stamp"
      BY <3>1
    <3>5. Packed'
      BY <1>2, <1>15, <3>3, <3>4, OnlyStamps
    <3>6. QED
      BY <1>2, <1>11, <1>15, <1>18, <3>5, Constants DEF TarRun
  <2>3. QED
    BY <2>1, <2>2
<1>27. QED
  BY <1>2, <1>15, <1>17, <1>19, <1>25, <1>26, TarControl DEF RepoStep

(***************************************************************************)
(* Repositories: writes.                                                   *)
(***************************************************************************)
\* What a write makes of the contents.
LEMMA RepoDisk ==
  ASSUME Typed, Links, WriteNext
  PROVE  LET w == Head(todo) IN
         /\ Links' /\ Content("src") = disk["src"] /\ Content("src")' = disk'["src"]
         /\ disk'["src"] = IF On(w, "src") THEN w.to ELSE disk["src"]
         /\ ~On(w, "tar") => Content("tar")' = Content("tar") /\ disk'["tar"] = disk["tar"]
         /\ On(w, "tar") /\ (w.op = "write" \/ w.to = NoFile) => Content("tar")' = w.to
         /\ On(w, "tar") /\ w.op = "write" /\ disk["tar"] \notin FileMirrors
              => disk'["tar"] \notin FileMirrors
         /\ w.op = "entry" /\ w.name = "tar" => disk'["tar"] = w.to
<1> DEFINE w == Head(todo)
<1>1. /\ w \in Ops(todo) /\ w \in Op /\ Ops(todo') \subseteq Ops(todo)
  BY WriteTyped
<1>2. /\ \A n \in {"src", "tar"} :
           disk'[n] = IF w.name = n /\ (w.op = "entry" \/ (w.op = "write" /\ disk[n] \notin FileMirrors))
                      THEN w.to ELSE disk[n]
      /\ \A m \in FileMirrors :
           mirror'[m] = IF \/ w.op = "mirror" /\ w.name = m
                           \/ w.op = "write" /\ disk[w.name] = m
                        THEN w.to ELSE mirror[m]
  BY WriteDone
<1> HIDE DEF w
<1>3. /\ w.op # "mirror"
      /\ w.op = "entry" /\ w.to \in FileMirrors => w.name = "tar" /\ mirror[w.to] # NoFile
      /\ disk["src"] \notin FileMirrors
      /\ disk["tar"] \in FileMirrors => mirror[disk["tar"]] # NoFile
  BY <1>1 DEF Links
<1>4. /\ w.op = "write" => w.to # NoFile /\ w.to \notin FileMirrors
      /\ w.op \in {"entry", "write"} => w.name \in {"src", "tar"}
      /\ w.op \in {"entry", "write", "stamp", "mirror"}
  <2>1. w.op = "write" => w.to \in {Broken} \cup SUBSET Versions
    BY <1>1 DEF Op
  <2>2. /\ w.op \in {"entry", "write"} => w.name \in {"src", "tar"}
        /\ w.op \in {"entry", "write", "stamp", "mirror"}
    BY <1>1 DEF Op
  <2>3. QED
    BY <2>1, <2>2, Constants
<1>5. disk'["src"] = IF On(w, "src") THEN w.to ELSE disk["src"]
  BY <1>2, <1>3 DEF On
<1>6. disk'["src"] \notin FileMirrors
  BY <1>3, <1>4, <1>5 DEF On
<1>7. \A m \in FileMirrors : mirror[m] # NoFile => mirror'[m] # NoFile
  BY <1>2, <1>3, <1>4
<1>8. disk'["tar"] \in FileMirrors => mirror'[disk'["tar"]] # NoFile
  BY <1>2, <1>3, <1>4, <1>7
<1>9. Links'
  BY <1>1, <1>6, <1>7, <1>8 DEF Links
<1>10. Content("src") = disk["src"] /\ Content("src")' = disk'["src"]
  BY <1>3, <1>6 DEF Content
<1>11. ASSUME ~On(w, "tar") PROVE Content("tar")' = Content("tar") /\ disk'["tar"] = disk["tar"]
  <2>1. disk'["tar"] = disk["tar"]
    BY <1>2, <1>11 DEF On
  <2>2. \A m \in FileMirrors : mirror'[m] = mirror[m]
    BY <1>2, <1>3, <1>4, <1>11 DEF On
  <2>3. QED
    BY <2>1, <2>2 DEF Content
<1>12. ASSUME On(w, "tar"), w.op = "write" \/ w.to = NoFile PROVE Content("tar")' = w.to
  <2>1. CASE w.op = "write" /\ disk["tar"] \in FileMirrors
    <3>1. disk'["tar"] = disk["tar"] /\ mirror'[disk["tar"]] = w.to
      BY <1>2, <1>12, <2>1 DEF On
    <3>2. QED
      BY <2>1, <3>1 DEF Content
  <2>2. CASE ~(w.op = "write" /\ disk["tar"] \in FileMirrors)
    <3>1. disk'["tar"] = w.to /\ w.to \notin FileMirrors
      BY <1>2, <1>4, <1>12, <2>2, Constants DEF On
    <3>2. QED
      BY <3>1 DEF Content
  <2>3. QED
    BY <2>1, <2>2
<1>13. /\ On(w, "tar") /\ w.op = "write" /\ disk["tar"] \notin FileMirrors
            => disk'["tar"] \notin FileMirrors
       /\ w.op = "entry" /\ w.name = "tar" => disk'["tar"] = w.to
  BY <1>2, <1>4 DEF On
<1>14. QED
  BY <1>5, <1>9, <1>10, <1>11, <1>12, <1>13 DEF w

\* What a write keeps of a repository and its tarball.
LEMMA RepoKeeps ==
  ASSUME Typed, Links, WriteNext
  PROVE  /\ Holding => Holding' /\ disk'["src"] = disk["src"]
         /\ Arriving => Holding' \/ Arriving'
         /\ Lacks => Lacks'
         /\ Gone => Gone'
         /\ Level => Level'
         /\ Level /\ Exists("tar") => Exists("tar")'
         /\ Untouched("src") => Untouched("src")' /\ disk'["src"] = disk["src"]
<1> DEFINE w == Head(todo)
<1>1. /\ w \in Ops(todo) /\ todo' = Tail(todo) /\ Ops(todo') \subseteq Ops(todo)
      /\ want' = want /\ holder' = holder
  BY WriteTyped, WriteDone DEF external
<1>2. /\ Content("src") = disk["src"] /\ Content("src")' = disk'["src"]
      /\ disk'["src"] = IF On(w, "src") THEN w.to ELSE disk["src"]
      /\ ~On(w, "tar") => Content("tar")' = Content("tar")
  BY RepoDisk
<1>3. Arriving => Holding' \/ Arriving'
  <2> SUFFICES ASSUME NEW c \in SUBSET Versions, want[holder] \in c,
                      \/ todo = <<Write("src", c)>>
                      \/ todo = <<Write("src", c), Entry("tar", NoFile)>>
               PROVE  Holding'
    BY DEF Arriving
  <2>1. w = Write("src", c) /\ todo' \in {<<>>, <<Entry("tar", NoFile)>>}
    BY <1>1, TailOf
  <2>2. On(w, "src") /\ w.to = c
    BY <2>1 DEF On, Write
  <2>3. \A x \in Ops(todo') : x = Entry("tar", NoFile)
    BY <2>1, OpsOf
  <2>4. Untouched("src")'
    BY <2>3 DEF Untouched, On, Entry
  <2>5. disk'["src"] = c
    BY <1>2, <2>2
  <2>6. c \notin {NoFile, Broken}
    BY Constants
  <2>7. QED
    BY <1>1, <2>4, <2>5, <2>6 DEF Holding, Has
<1> HIDE DEF w
<1>4. Untouched("src") => Untouched("src")' /\ disk'["src"] = disk["src"]
  BY <1>1, <1>2 DEF Untouched
<1>5. Untouched("tar") => Untouched("tar")' /\ Content("tar")' = Content("tar")
  BY <1>1, <1>2 DEF Untouched
<1>6. Holding => Holding' /\ disk'["src"] = disk["src"]
  BY <1>1, <1>4 DEF Holding
<1>7. Lacks => Lacks'
  BY <1>1, <1>2 DEF Lacks
<1>8. Gone => Gone'
  BY <1>5 DEF Gone, Exists
<1>9. Level => Level'
  BY <1>2, <1>4, <1>5 DEF Level, Covers, Exists
<1>10. Level /\ Exists("tar") => Exists("tar")'
  BY <1>5 DEF Level, Exists
<1>11. QED
  BY <1>3, <1>4, <1>6, <1>7, <1>8, <1>9, <1>10

LEMMA RepoWriteInv ==
  ASSUME IInv, url = "git", WriteNext, holder # NoProc
  PROVE  RepoInv'
<1>1. /\ Typed /\ RepoInv /\ Links /\ todo # <<>>
      /\ UNCHANGED <<external, holder, run, result, last>> /\ want' = want
  BY WriteTyped, WriteDone DEF IInv, RepoInv, external
<1>2. Head(todo) \in Ops(todo) /\ todo' = Tail(todo) /\ Ops(todo') \subseteq Ops(todo)
      /\ Head(todo) \in Op
  BY <1>1, WriteTyped
<1>3. Links'
  BY <1>1, RepoDisk
<1>4. stamp'["src"] = IF Head(todo).op = "stamp" /\ Head(todo).name = "src"
                      THEN Head(todo).to ELSE stamp["src"]
  BY <1>1, WriteDone
<1>5. RepoRun'
  <2>1. /\ Holding => Holding'
        /\ Arriving => Holding' \/ Arriving'
        /\ Lacks => Lacks'
    BY <1>1, RepoKeeps
  <2>2. ASSUME run.outcome = "ok" PROVE todo' = <<>> /\ stamp'["src"] # NoFile
    <3>1. todo = <<Mark("src", Old)>>
      BY <1>1, <2>2 DEF RepoInv, RepoRun
    <3>2. Head(todo) = Mark("src", Old) /\ todo' = <<>>
      BY <1>2, <3>1, TailOf
    <3>3. stamp'["src"] = Old
      BY <1>4, <3>2 DEF Mark
    <3>4. QED
      BY <3>2, <3>3, Constants
  <2>3. holder' = holder /\ run' = run
    BY <1>1
  <2>4. QED
    BY <1>1, <2>1, <2>2, <2>3 DEF RepoInv, RepoRun
<1>6. RepoKept'
  <2> SUFFICES ASSUME NEW p \in Procs, result[p] = "ok", Agreed
               PROVE  /\ Has(disk'["src"], want[p]) /\ Untouched("src")'
                      /\ stamp'["src"] # NoFile /\ Mark("src", NoFile) \notin Ops(todo')
    BY <1>1 DEF RepoKept, Agreed
  <2>1. /\ Has(disk["src"], want[p]) /\ Untouched("src")
        /\ stamp["src"] # NoFile /\ Mark("src", NoFile) \notin Ops(todo)
    BY <1>1 DEF RepoInv, RepoKept
  <2>2. Untouched("src")' /\ disk'["src"] = disk["src"]
    BY <1>1, <2>1, RepoKeeps
  <2>3. ASSUME Head(todo).op = "stamp", Head(todo).name = "src", Head(todo).to = NoFile PROVE FALSE
    <3>1. Head(todo) = Mark("src", NoFile)
      BY <1>2, <2>3 DEF Op, Mark
    <3>2. QED
      BY <1>2, <2>1, <3>1
  <2>4. QED
    BY <1>2, <1>4, <2>1, <2>2, <2>3
<1>7. QED
  BY <1>3, <1>5, <1>6 DEF RepoInv

LEMMA CopyingWrites ==
  ASSUME Typed, Links, WriteNext, Copying
  PROVE  Copying' \/ Level'
<1> DEFINE w == Head(todo)
<1>1. todo' = Tail(todo)
  BY WriteTyped
<1>2. /\ Content("src")' = disk'["src"]
      /\ disk'["src"] = IF On(w, "src") THEN w.to ELSE disk["src"]
      /\ ~On(w, "tar") => Content("tar")' = Content("tar")
  BY RepoDisk
<1>3. CASE todo = <<Write("src", Broken), Write("src", Content("tar"))>>
  <2>1. w = Write("src", Broken) /\ todo' = <<Write("src", Content("tar"))>>
    BY <1>1, <1>3, TailOf
  <2>2. ~On(w, "tar")
    BY <2>1 DEF On, Write
  <2>3. todo' = <<Write("src", Content("tar")')>>
    BY <1>2, <2>1, <2>2
  <2>4. QED
    BY <2>3 DEF Copying
<1>4. CASE todo = <<Write("src", Content("tar"))>>
  <2>1. w = Write("src", Content("tar")) /\ todo' = <<>>
    BY <1>1, <1>4, TailOf
  <2>2. On(w, "src") /\ ~On(w, "tar") /\ w.to = Content("tar")
    BY <2>1 DEF On, Write
  <2>3. Content("src")' = Content("tar")'
    BY <1>2, <2>2
  <2>4. Level'
    BY <2>1, <2>3, NoWrite DEF Level, Covers, Untouched
  <2>5. QED
    BY <2>4
<1>5. QED
  BY <1>3, <1>4 DEF Copying

LEMMA DroppingWrites ==
  ASSUME Typed, Links, WriteNext, Dropping
  PROVE  Dropping' \/ Gone'
<1> DEFINE w == Head(todo)
<1>1. todo' = Tail(todo)
  BY WriteTyped
<1>2. On(w, "tar") /\ w.to = NoFile => Content("tar")' = NoFile
  BY RepoDisk
<1>3. CASE todo = <<Entry("tar", NoFile)>>
  <2>1. w = Entry("tar", NoFile) /\ todo' = <<>>
    BY <1>1, <1>3, TailOf
  <2>2. Content("tar")' = NoFile
    BY <1>2, <2>1 DEF On, Entry
  <2>3. Gone'
    BY <2>1, <2>2, NoWrite DEF Gone, Exists, Untouched
  <2>4. QED
    BY <2>3
<1>4. ASSUME NEW c \in SUBSET Versions, todo = <<Write("src", c), Entry("tar", NoFile)>>
      PROVE  Dropping'
  <2>1. todo' = <<Entry("tar", NoFile)>>
    BY <1>1, <1>4, TailOf
  <2>2. QED
    BY <2>1 DEF Dropping
<1>5. QED
  BY <1>3, <1>4 DEF Dropping

LEMMA PackedWrites ==
  ASSUME Typed, Links, WriteNext, Packed, Holding
  PROVE  Packed'
<1> DEFINE w == Head(todo)
<1>1. todo' = Tail(todo)
  BY WriteTyped
<1>2. disk'["src"] = disk["src"] /\ disk["src"] # NoFile
  BY RepoKeeps DEF Holding, Has
<1>3. /\ Content("src")' = disk'["src"]
      /\ On(w, "tar") /\ (w.op = "write" \/ w.to = NoFile) => Content("tar")' = w.to
      /\ On(w, "tar") /\ w.op = "write" /\ disk["tar"] \notin FileMirrors
           => disk'["tar"] \notin FileMirrors
      /\ w.op = "entry" /\ w.name = "tar" => disk'["tar"] = w.to
  BY RepoDisk
<1>4. CASE Level /\ Exists("tar")
  BY <1>4, RepoKeeps DEF Packed
<1>5. CASE todo = <<Entry("tar", NoFile), Write("tar", Broken), Write("tar", disk["src"]), Mark("tar", Old)>>
  <2>1. w = Entry("tar", NoFile)
        /\ todo' = <<Write("tar", Broken), Write("tar", disk'["src"]), Mark("tar", Old)>>
    BY <1>1, <1>2, <1>5, TailOf
  <2>2. disk'["tar"] = NoFile
    BY <1>3, <2>1 DEF Entry
  <2>3. disk'["tar"] \notin FileMirrors
    BY <2>2, Constants
  <2>4. QED
    BY <2>1, <2>3 DEF Packed, Packing
<1>6. CASE /\ disk["tar"] \notin FileMirrors
           /\ todo = <<Write("tar", Broken), Write("tar", disk["src"]), Mark("tar", Old)>>
  <2>1. w = Write("tar", Broken)
        /\ todo' = <<Write("tar", disk'["src"]), Mark("tar", Old)>>
    BY <1>1, <1>2, <1>6, TailOf
  <2>2. disk'["tar"] \notin FileMirrors
    BY <1>3, <1>6, <2>1 DEF On, Write
  <2>3. QED
    BY <2>1, <2>2 DEF Packed, Packing
<1>7. CASE todo = <<Write("tar", disk["src"]), Mark("tar", Old)>>
  <2>1. w = Write("tar", disk["src"]) /\ todo' = <<Mark("tar", Old)>>
    BY <1>1, <1>7, TailOf
  <2>2. Content("tar")' = disk["src"]
    BY <1>3, <2>1 DEF On, Write
  <2>3. Ops(todo') = {Mark("tar", Old)} /\ Mark("tar", Old).op = "stamp"
    BY <2>1, OpsOf DEF Mark
  <2>4. Untouched("src")' /\ Untouched("tar")'
    BY <2>3 DEF Untouched, On
  <2>5. Covers' /\ Exists("tar")'
    BY <1>2, <1>3, <2>2 DEF Covers, Exists
  <2>6. QED
    BY <2>4, <2>5 DEF Packed, Level
<1>8. QED
  BY <1>4, <1>5, <1>6, <1>7 DEF Packed, Packing

LEMMA CleaningWrites ==
  ASSUME Typed, Links, WriteNext, Cleaning
  PROVE  Cleaning'
<1> DEFINE w == Head(todo)
<1>1. w \in Ops(todo) /\ Ops(todo') \subseteq Ops(todo)
  BY WriteTyped
<1>2. /\ Content("src") = disk["src"] /\ Content("src")' = disk'["src"]
      /\ disk'["src"] = IF On(w, "src") THEN w.to ELSE disk["src"]
      /\ ~On(w, "tar") => Content("tar")' = Content("tar")
      /\ On(w, "tar") /\ (w.op = "write" \/ w.to = NoFile) => Content("tar")' = w.to
  BY RepoDisk
<1> HIDE DEF w
<1>3. On(w, "src") \/ On(w, "tar") => w = Write("src", Broken) \/ (w.op = "entry" /\ w.to = NoFile)
  BY <1>1 DEF Cleaning
<1>4. Covers'
  <2>1. CASE On(w, "src")
    <3>1. w.to \in {NoFile, Broken}
      BY <1>3, <2>1 DEF Write
    <3>2. QED
      BY <1>2, <2>1, <3>1 DEF Covers, Has
  <2>2. CASE On(w, "tar")
    <3>1. w.to = NoFile
      BY <1>3, <2>2 DEF On, Write
    <3>2. QED
      BY <1>2, <2>2, <3>1 DEF Covers, Exists
  <2>3. CASE ~On(w, "src") /\ ~On(w, "tar")
    BY <1>2, <2>3 DEF Covers, Exists, Cleaning
  <2>4. QED
    BY <2>1, <2>2, <2>3
<1>5. QED
  BY <1>1, <1>4 DEF Cleaning

LEMMA RepoWrite ==
  ASSUME IInv, url = "git", WriteNext
  PROVE  RepoStep
<1>1. /\ Typed /\ Routes /\ RepoInv /\ TarInv /\ Links /\ todo # <<>>
      /\ UNCHANGED <<external, holder, run, result, last, mishaps>>
  BY WriteTyped, WriteDone DEF IInv, RepoInv
<1>2. Typed' /\ Routes' /\ holder # NoProc
  <2>1. Typed'
    BY <1>1, WriteTyped
  <2>2. holder # NoProc /\ url' = url
    BY <1>1 DEF Routes, external
  <2>3. QED
    BY <1>1, <2>1, <2>2 DEF Routes
<1>3. RepoInv'
  BY <1>1, <1>2, RepoWriteInv
<1>4. TarRun => TarRun'
  <2>1. /\ Lacks => Lacks'
        /\ Gone => Gone'
        /\ Level => Level'
    BY <1>1, RepoKeeps
  <2>2. Copying => Copying' \/ Level'
    BY <1>1, CopyingWrites
  <2>3. Dropping => Dropping' \/ Gone'
    BY <1>1, DroppingWrites
  <2>4. run.pc = "early" \/ run.localpath = "src" \/ run.outcome = "ok" => Holding
    BY <1>1, <1>2 DEF RepoInv, RepoRun
  <2>5. Packed /\ Holding => Packed'
    BY <1>1, PackedWrites
  <2>6. Cleaning => Cleaning'
    BY <1>1, CleaningWrites
  <2>7. holder' = holder /\ run' = run
    BY <1>1
  <2>8. QED
    BY <1>2, <2>1, <2>2, <2>3, <2>4, <2>5, <2>6, <2>7 DEF TarRun
<1>5. QED
  BY <1>1, <1>2, <1>3, <1>4, TarControl DEF RepoStep

(***************************************************************************)
(* Repositories: what happens outside of a fetch.                          *)
(***************************************************************************)
\* Upstream, the mirrors and unpack leave it as it is.
LEMMA RepoSame ==
  ASSUME IInv, url = "git", UNCHANGED <<want, disk, holder, run, todo, last, mishaps>>,
         stamp'["src"] = NoFile <=> stamp["src"] = NoFile,
         \A m \in FileMirrors : mirror[m] # NoFile => mirror'[m] = mirror[m],
         \A p \in Procs : result'[p] = "ok" => result[p] = "ok"
  PROVE  RepoInv' /\ TarInv'
<1>1. RepoInv /\ TarInv /\ Links
  BY DEF IInv, RepoInv
<1>2. /\ Content("src") = disk["src"] /\ Content("src")' = Content("src")
      /\ Content("tar")' = Content("tar") /\ Links'
  BY <1>1 DEF Links, Content
<1>3. /\ Agreed' <=> Agreed
      /\ Untouched("src")' <=> Untouched("src")
      /\ Untouched("tar")' <=> Untouched("tar")
      /\ Exists("tar")' <=> Exists("tar")
  BY <1>2 DEF Agreed, Untouched, Exists
<1>4. Holding' = Holding /\ Arriving' = Arriving /\ Lacks' = Lacks
  BY <1>3 DEF Holding, Arriving, Lacks
<1>5. RepoRun' /\ RepoKept'
  BY <1>1, <1>3, <1>4 DEF RepoInv, RepoRun, RepoKept
<1>6. Covers' <=> Covers
  BY <1>2, <1>3 DEF Covers
<1>7. /\ Level' <=> Level
      /\ Gone' <=> Gone
  BY <1>3, <1>6 DEF Level, Gone
<1>8. /\ Copying' <=> Copying
      /\ Dropping' <=> Dropping
      /\ Packing' <=> Packing
      /\ Cleaning' <=> Cleaning
  BY <1>2, <1>6 DEF Copying, Dropping, Packing, Cleaning
<1>9. Packed' <=> Packed
  BY <1>3, <1>7, <1>8 DEF Packed
<1>10. TarRun => TarRun'
  BY <1>4, <1>7, <1>8, <1>9 DEF TarRun
<1>11. TarKept => TarKept'
  BY <1>2 DEF TarKept
<1>12. TarInv'
  BY <1>1, <1>10, <1>11 DEF TarInv
<1>13. QED
  BY <1>2, <1>5, <1>12 DEF RepoInv

LEMMA RepoClose ==
  ASSUME IInv, url = "git", Close
  PROVE  RepoInv' /\ TarInv'
<1>1. At("close")
  BY DEF Close
<1>2. /\ Typed /\ RepoInv /\ TarInv /\ RunTyped(run) /\ holder # NoProc /\ holder \in Procs
      /\ run.pc = "close" /\ todo = <<>> /\ Ops(todo) = {} /\ Content("src") = disk["src"]
      /\ want[holder] \in Versions
  BY <1>1, RepoAt
<1>3. /\ result' = [result EXCEPT ![holder] = run.outcome] /\ last' = holder /\ holder' = NoProc
      /\ mishaps' = (IF run.outcome = "failed" THEN mishaps \cup {"failure"} ELSE mishaps)
      /\ UNCHANGED <<url, want, mirror, disk, stamp, todo>>
  BY DEF Close, external, disks
<1>4. \A p \in Procs : result'[p] = IF p = holder THEN run.outcome ELSE result[p]
  BY <1>2, <1>3 DEF Typed, TypeOK
<1>5. Links' /\ RepoRun'
  BY <1>2, <1>3 DEF RepoInv, Links, RepoRun
<1>6. run.outcome = "ok" => Has(disk["src"], want[holder]) /\ stamp["src"] # NoFile
  BY <1>2 DEF RepoInv, RepoRun, Holding
<1>7. RepoKept'
  <2> SUFFICES ASSUME NEW p \in Procs, result'[p] = "ok"
               PROVE  /\ last' = p => Has(disk["src"], want[p])
                      /\ Agreed => /\ Has(disk["src"], want[p]) /\ Untouched("src")
                                   /\ stamp["src"] # NoFile /\ Mark("src", NoFile) \notin Ops(todo)
    BY <1>3 DEF RepoKept, Agreed, Untouched
  <2>1. CASE p = holder
    BY <1>2, <1>4, <1>6, <2>1 DEF Untouched
  <2>2. CASE p # holder
    BY <1>2, <1>3, <1>4, <2>2 DEF RepoInv, RepoKept
  <2>3. QED
    BY <2>1, <2>2
<1>8. TarInv'
  <2> SUFFICES ASSUME WriteTarballs, mishaps' = {}
               PROVE  TarRun' /\ TarKept'
    BY DEF TarInv
  <2>1. TarRun /\ run.outcome \in {"none", "ok"}
    BY <1>2, <1>3 DEF TarInv, RunTyped
  <2>2. run.outcome = "ok" => Level /\ Exists("tar")
    BY <1>2, <2>1 DEF TarRun, Packed, Packing
  <2>3. Level
    <3>1. run.outcome = "none" => Covers
      BY <1>2, <2>1 DEF TarRun, Cleaning
    <3>2. QED
      BY <1>2, <2>1, <2>2, <3>1 DEF Level, Untouched
  <2>4. Level'
    BY <1>3, <2>3 DEF Level, Covers, Untouched, Content, Exists
  <2>5. TarRun'
    BY <1>3, <2>4 DEF TarRun
  <2>6. run.outcome = "ok" => Has(Content("tar"), want[holder])
    BY <1>2, <1>6, <2>2 DEF Level, Covers
  <2>7. Content("tar")' = Content("tar")
    BY <1>3 DEF Content
  <2>8. TarKept'
    BY <1>2, <1>3, <1>4, <2>6, <2>7 DEF TarKept
  <2>9. QED
    BY <2>5, <2>8
<1>9. QED
  BY <1>5, <1>7, <1>8 DEF RepoInv

LEMMA RepoElse ==
  ASSUME IInv, url = "git",
         Close \/ Crash \/ Release \/ (\E m \in FileMirrors : Publish(m))
           \/ \E p \in Procs : Start(p) \/ Unpack(p) \/ Clean(p)
  PROVE  RepoStep
<1>1. Typed /\ Routes /\ RepoInv /\ TarInv /\ Links /\ Typed' /\ Routes'
  BY ElseTyped DEF IInv, RepoInv
<1>2. CASE Close
  BY <1>1, <1>2, RepoClose DEF RepoStep
<1>3. CASE Crash
  <2>1. /\ holder \in Procs /\ todo' = <<>> /\ Ops(todo') = {} /\ holder' = NoProc /\ last' = holder
        /\ result' = [result EXCEPT ![holder] = "none"] /\ mishaps' # {}
        /\ UNCHANGED <<want, mirror, disk, stamp>>
    BY <1>1, <1>3, NoWrite DEF Crash, Typed, TypeOK, disks
  <2>2. Links' /\ RepoRun'
    BY <1>1, <2>1 DEF Links, RepoRun
  <2>3. \A p \in Procs : result'[p] = "ok" => result[p] = "ok" /\ p # holder
    BY <1>1, <2>1 DEF Typed, TypeOK
  <2>4. RepoKept'
    BY <1>1, <2>1, <2>3 DEF RepoInv, RepoKept, Agreed, Untouched
  <2>5. TarInv'
    BY <2>1 DEF TarInv
  <2>6. QED
    BY <1>1, <2>2, <2>4, <2>5 DEF RepoStep, RepoInv
<1>4. CASE Release
  <2>1. UNCHANGED <<want, mirror, disk, stamp, holder, run, todo, result, last, mishaps>>
    BY <1>4 DEF Release, disks
  <2>2. QED
    BY <1>1, <2>1, RepoSame DEF RepoStep
<1>5. ASSUME NEW m \in FileMirrors, Publish(m) PROVE RepoStep
  <2>1. /\ mirror[m] = NoFile /\ \A k \in FileMirrors : k # m => mirror'[k] = mirror[k]
        /\ stamp'["src"] = (IF disk["src"] = m /\ stamp["src"] # NoFile THEN Old ELSE stamp["src"])
        /\ UNCHANGED <<want, disk, holder, run, todo, result, last, mishaps>>
    BY <1>1, <1>5 DEF Publish, Typed, TypeOK, external
  <2>2. stamp'["src"] = NoFile <=> stamp["src"] = NoFile
    BY <2>1, Constants
  <2>3. \A k \in FileMirrors : mirror[k] # NoFile => mirror'[k] = mirror[k]
    BY <2>1
  <2>4. QED
    BY <1>1, <2>1, <2>2, <2>3, RepoSame DEF RepoStep
<1>6. ASSUME NEW p \in Procs, Unpack(p) PROVE RepoStep
  <2>1. /\ UNCHANGED <<want, mirror, disk, stamp, holder, run, todo, last, mishaps>>
        /\ \A q \in Procs : result'[q] = "ok" => result[q] = "ok"
    BY <1>1, <1>6 DEF Unpack, Typed, TypeOK, external, disks
  <2>2. QED
    BY <1>1, <2>1, RepoSame DEF RepoStep
<1>7. ASSUME NEW p \in Procs, Start(p) PROVE RepoStep
  <2>1. /\ holder = NoProc /\ holder' = p /\ p # NoProc /\ run' = [Idle EXCEPT !.pc = "verify"]
        /\ todo = <<>> /\ todo' = <<>>
        /\ UNCHANGED <<want, mirror, disk, stamp, result, last, mishaps>>
    BY <1>1, <1>7, Constants DEF Start, Routes, external, disks
  <2>2. run'.pc = "verify" /\ run'.outcome = "none" /\ run'.localpath = NoFile
    BY <2>1 DEF Idle
  <2>3. Links' /\ RepoRun'
    BY <1>1, <2>1, <2>2, Constants DEF Links, RepoRun
  <2>4. RepoKept'
    BY <1>1, <2>1 DEF RepoInv, RepoKept, Agreed, Untouched
  <2>5. TarInv'
    <3>1. TarRun => Level
      BY <2>1 DEF TarRun
    <3>2. Level => Level'
      BY <2>1 DEF Level, Covers, Untouched, Content, Exists
    <3>3. TarRun => TarRun'
      BY <2>1, <2>2, <3>1, <3>2, Constants DEF TarRun
    <3>4. TarKept'
      BY <2>1 DEF TarKept
    <3>5. QED
      BY <1>1, <2>1, <3>3, <3>4 DEF TarInv
  <2>6. QED
    BY <1>1, <2>3, <2>4, <2>5 DEF RepoStep, RepoInv
<1>8. ASSUME NEW p \in Procs, Clean(p) PROVE RepoStep
  <2>1. /\ holder = NoProc /\ holder' = p /\ p # NoProc /\ run' = [Idle EXCEPT !.pc = "close"]
        /\ todo = <<>> /\ todo' = CleanWrites \o <<Mark("src", NoFile)>>
        /\ \A q \in Procs : result'[q] # "ok"
        /\ UNCHANGED <<want, mirror, disk, stamp, last, mishaps>>
    BY <1>1, <1>8, Constants DEF Clean, Routes, Typed, TypeOK, disks
  <2>2. run'.pc = "close" /\ run'.outcome = "none" /\ run'.localpath = NoFile
    BY <2>1 DEF Idle
  <2>3. /\ CleanWrites \in Seq(Op) /\ Linking(CleanWrites)
        /\ \A w \in Ops(CleanWrites) :
             On(w, "src") \/ On(w, "tar") =>
               w = Write("src", Broken) \/ (w.op = "entry" /\ w.to = NoFile)
    BY <1>1, CleanLinking
  <2>4. Ops(todo') = Ops(CleanWrites) \cup {Mark("src", NoFile)}
    <3>1. Mark("src", NoFile) \in Op
      BY OpKinds
    <3>2. <<Mark("src", NoFile)>> \in Seq(Op)
          /\ Ops(<<Mark("src", NoFile)>>) = {Mark("src", NoFile)}
      BY <3>1, OneWrite
    <3>3. QED
      BY <2>1, <2>3, <3>2, MoreWrites
  <2>5. Mark("src", NoFile).op = "stamp"
    BY DEF Mark
  <2>6. Links'
    BY <1>1, <2>1, <2>3, <2>4, <2>5 DEF Links, Linking
  <2>7. RepoRun' /\ RepoKept'
    BY <2>1, <2>2, Constants DEF RepoRun, RepoKept
  <2>8. TarInv'
    <3>1. TarRun => Covers
      BY <2>1 DEF TarRun, Level
    <3>2. Covers => Covers'
      BY <2>1 DEF Covers, Content, Exists
    <3>3. Covers => Cleaning'
      BY <2>3, <2>4, <2>5, <3>2 DEF Cleaning, On
    <3>4. TarRun => TarRun'
      BY <2>1, <2>2, <3>1, <3>3, Constants DEF TarRun
    <3>5. TarKept'
      BY <2>1 DEF TarKept
    <3>6. QED
      BY <1>1, <2>1, <3>4, <3>5 DEF TarInv
  <2>9. QED
    BY <1>1, <2>6, <2>7, <2>8 DEF RepoStep, RepoInv
<1>9. QED
  BY <1>2, <1>3, <1>4, <1>5, <1>6, <1>7, <1>8

(***************************************************************************)
(* Every step.                                                             *)
(***************************************************************************)
LEMMA InitIInv == Init => IInv
<1> SUFFICES ASSUME Init PROVE IInv
  OBVIOUS
<1>1. /\ disk["src"] = NoFile /\ disk["tar"] = NoFile
      /\ stamp["src"] = NoFile /\ stamp["tar"] = NoFile
      /\ holder = NoProc /\ run = Idle /\ todo = <<>> /\ \A p \in Procs : result[p] # "ok"
  BY DEF Init
<1>2. \A m \in FileMirrors : mirror[m] \in Contents
  BY FetchAssumption DEF Init, Contents
<1>3. mirror \in [FileMirrors -> Contents]
  BY <1>2 DEF Init
<1>4. RunTyped(run)
  BY <1>1 DEF Idle, RunTyped, Pcs
<1>5. Typed
  <2>1. TypeOK
    BY <1>1, <1>3, Constants DEF Init, TypeOK, Contents
  <2>2. QED
    BY <1>1, <1>4, <2>1, NoWrite DEF Typed
<1>6. run.pc = "idle" /\ run.localpath = NoFile /\ run.outcome = "none"
  BY <1>1 DEF Idle
<1>7. Routes
  BY <1>1, <1>6 DEF Routes
<1>8. FileInv
  BY <1>1 DEF FileInv, StampTrue, FileRun, FileKept
<1>9. Content("src") = NoFile /\ Content("tar") = NoFile
  BY <1>1, Constants DEF Content
<1>10. RepoInv
  BY <1>1, Constants, NoWrite DEF RepoInv, Links, RepoRun, RepoKept
<1>11. TarInv
  <2>1. Level
    BY <1>1, <1>9, NoWrite DEF Level, Covers, Has, Untouched
  <2>2. QED
    BY <1>1, <2>1 DEF TarInv, TarRun, TarKept
<1>12. QED
  BY <1>5, <1>7, <1>8, <1>10, <1>11 DEF IInv

LEMMA StutterIInv == IInv /\ UNCHANGED vars => IInv'
<1> SUFFICES ASSUME IInv, UNCHANGED vars PROVE IInv'
  OBVIOUS
<1>1. /\ Typed' <=> Typed
      /\ Routes' <=> Routes
  BY DEF vars, Typed, TypeOK, RunTyped, Routes
<1>2. FileInv' <=> FileInv
  BY DEF vars, FileInv, StampTrue, FileRun, FileKept, Content, Removing, Marking, Storing, Right, Agreed
<1>3. url = "git" => RepoInv' /\ TarInv'
  BY RepoSame DEF vars
<1>4. QED
  BY <1>1, <1>2, <1>3 DEF IInv, vars

LEMMA FileNext ==
  ASSUME IInv, url = "wget", Next
  PROVE  FileStep
<1>1. run.pc \notin {"process", "extract", "fetch", "tarball"}
  BY DEF IInv, Routes
<1>2. /\ ~ProcessTarball /\ ~Extract /\ ~Clone /\ ~CloneFails /\ ~NothingToFetch
      /\ ~FetchRefs /\ ~FetchRefsFails /\ ~BuildMirrorData
      /\ \A m : ~DownloadTarball(m)
  BY <1>1 DEF ProcessTarball, Extract, Clone, CloneFails, Cloning, NothingToFetch, FetchRefs,
              FetchRefsFails, Lacking, BuildMirrorData, DownloadTarball, At
<1>3. CASE Step
  <2>1. CASE WriteNext \/ Verify \/ Again \/ End
    BY <2>1, FileWrite, FileVerify, FileAgain, FileEnd
  <2>2. CASE Early \/ UpstreamFailed
    BY <2>2, FileUpstreamEnds
  <2>3. CASE Close
    BY <2>3, FileElse
  <2>4. CASE (\E v \in Versions : UpstreamWget({v})) \/ UpstreamWget(Broken) \/ UpstreamWgetFails
    BY <2>4, FileUpstream
  <2>5. CASE NoMirrorLeft \/ CheckLink
    BY <2>5, FileNoMirrorLeft, FileCheckLink
  <2>6. ASSUME NEW m \in AllMirrors, LinkToMirror(m) \/ DownloadFromMirror(m) PROVE FileStep
    BY <2>6, FileLinkToMirror, FileDownloadFromMirror
  <2>7. QED
    BY <1>2, <1>3, <2>1, <2>2, <2>3, <2>4, <2>5, <2>6 DEF Step
<1>4. QED
  BY <1>3, FileElse DEF Next

LEMMA RepoNext ==
  ASSUME IInv, url = "git", Next
  PROVE  RepoStep
<1>1. run.pc \notin {"check link", "upstream"}
  BY DEF IInv, Routes
<1>2. /\ ~UpstreamWgetFails /\ ~CheckLink
      /\ \A c : ~UpstreamWget(c)
      /\ \A m : ~DownloadFromMirror(m)
  BY <1>1 DEF UpstreamWget, UpstreamWgetFails, CheckLink, DownloadFromMirror, At
<1>3. CASE Step
  <2>1. CASE WriteNext \/ Verify \/ Again \/ Early \/ UpstreamFailed \/ End
    BY <2>1, RepoWrite, RepoVerify, RepoAgain, RepoEarly, RepoUpstreamFailed, RepoEnd
  <2>2. CASE Close
    BY <2>2, RepoElse
  <2>3. CASE NoMirrorLeft \/ ProcessTarball
    BY <2>3, RepoNoMirrorLeft, RepoProcessTarball
  <2>4. ASSUME NEW m \in AllMirrors, LinkToMirror(m) \/ DownloadTarball(m) PROVE RepoStep
    BY <2>4, RepoLinkToMirror, RepoDownloadTarball
  <2>5. CASE Extract \/ Clone \/ CloneFails \/ NothingToFetch \/ FetchRefs \/ FetchRefsFails
               \/ BuildMirrorData
    BY <2>5, RepoExtract, RepoClone, RepoNothingToFetch, RepoFetchRefs, RepoBuildMirrorData
  <2>6. QED
    BY <1>2, <1>3, <2>1, <2>2, <2>3, <2>4, <2>5 DEF Step
<1>4. QED
  BY <1>3, RepoElse DEF Next

LEMMA UrlFixed == IInv /\ Next => url' = url
<1> SUFFICES ASSUME Next PROVE url' = url
  OBVIOUS
<1>1. WriteNext \/ Close => url' = url
  BY DEF WriteNext, Close, external
<1>2. \A writes, next : Then(writes, next) => url' = url
  BY DEF Then, external
<1>3. \A writes : GitFailed(writes) => url' = url
  BY <1>2 DEF GitFailed
<1>4. CASE Step
  <2>1. Verify \/ Again \/ Early \/ UpstreamFailed \/ End \/ NoMirrorLeft \/ CheckLink
          \/ ProcessTarball \/ NothingToFetch \/ BuildMirrorData => url' = url
    BY <1>2 DEF Verify, Again, Early, UpstreamFailed, End, NoMirrorLeft, CheckLink,
                ProcessTarball, NothingToFetch, BuildMirrorData
  <2>2. UpstreamWgetFails \/ (\E c : UpstreamWget(c)) => url' = url
    BY <1>2 DEF UpstreamWgetFails, UpstreamWget
  <2>3. (\E m : LinkToMirror(m) \/ DownloadFromMirror(m) \/ DownloadTarball(m)) => url' = url
    BY <1>2 DEF LinkToMirror, DownloadFromMirror, DownloadTarball
  <2>4. Extract \/ Clone \/ CloneFails \/ FetchRefs \/ FetchRefsFails => url' = url
    BY <1>2, <1>3 DEF Extract, Clone, CloneFails, FetchRefs, FetchRefsFails
  <2>5. QED
    BY <1>1, <1>4, <2>1, <2>2, <2>3, <2>4 DEF Step
<1>5. Crash \/ Release \/ (\E m : Publish(m)) \/ (\E p : Start(p) \/ Unpack(p) \/ Clean(p))
        => url' = url
  BY DEF Crash, Release, Publish, Start, Unpack, Clean, external
<1>6. QED
  BY <1>4, <1>5 DEF Next

LEMMA NextIInv == IInv /\ [Next]_vars => IInv'
<1> SUFFICES ASSUME IInv, Next PROVE IInv'
  BY StutterIInv
<1>1. url' = url /\ url \in {"wget", "git"}
  BY UrlFixed DEF IInv, Typed, TypeOK
<1>2. CASE url = "wget"
  <2>1. FileStep
    BY <1>2, FileNext
  <2>2. QED
    BY <1>1, <1>2, <2>1 DEF FileStep, IInv
<1>3. CASE url = "git"
  <2>1. RepoStep
    BY <1>3, RepoNext
  <2>2. QED
    BY <1>1, <1>3, <2>1 DEF RepoStep, IInv
<1>4. QED
  BY <1>1, <1>2, <1>3

(***************************************************************************)
(* Theorems.                                                               *)
(***************************************************************************)
(* Stamps, links and tarballs stay as described above: over every fetch,   *)
(* clean, death of a build and change of a mirror.                         *)
THEOREM Invariance == Spec => []IInv
<1>1. Init => IInv
  BY InitIInv
<1>2. IInv /\ [Next]_vars => IInv'
  BY NextIInv
<1>3. QED
  BY <1>1, <1>2, PTL DEF Spec

(* DL_DIR, the stamps, the mirrors and the fetches have their types.       *)
THEOREM TypeCorrect == Spec => []TypeOK
<1>1. IInv => TypeOK
  BY DEF IInv, Typed
<1>2. QED
  BY <1>1, Invariance, PTL

(* What download reports as fetched has the checksum, or holds the         *)
(* revision, its recipe names: when it returns, whatever another build or  *)
(* one that died has left in DL_DIR, and until unpack if all recipes that  *)
(* name the URL want the same.                                             *)
THEOREM StandsHolds == Spec => []Stands
<1>1. IInv => Stands
  <2> SUFFICES ASSUME IInv, NEW p \in Procs, result[p] = "ok",
                      (last = p /\ holder = NoProc) \/ \A q \in Procs : want[q] = want[p]
               PROVE  Good(p)
    BY DEF Stands
  <2>1. (last = p /\ holder = NoProc) \/ Agreed
    BY DEF Agreed
  <2>2. CASE url = "wget"
    BY <2>1, <2>2 DEF IInv, FileInv, FileKept, Good
  <2>3. CASE url = "git"
    <3>1. Content("src") = disk["src"]
      BY <2>3 DEF IInv, RepoInv, Links, Content
    <3>2. QED
      BY <2>1, <2>3, <3>1 DEF IInv, RepoInv, RepoKept, Good
  <2>4. QED
    BY <2>2, <2>3 DEF IInv, Typed, TypeOK
<1>2. QED
  BY <1>1, Invariance, PTL

(* As long as no fetch has died or failed, build_mirror_data, git fetch    *)
(* and extraction leave a tarball that has the revision just fetched.      *)
THEOREM TarballCurrentHolds == Spec => []TarballCurrent
<1>1. IInv => TarballCurrent
  BY DEF IInv, TarInv, TarKept, TarballCurrent
<1>2. QED
  BY <1>1, Invariance, PTL
=============================================================================
