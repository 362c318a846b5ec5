-------------------------------- MODULE Fetch --------------------------------
(***************************************************************************)
(* bb.fetch2: Fetch.download, unpack and clean of one URL by the builds    *)
(* that share a DL_DIR, with the wget, git and file:// methods, PREMIRRORS *)
(* and MIRRORS, the checksums, the done stamps and the tarballs made of    *)
(* git repositories.                                                       *)
(*                                                                         *)
(* Everything between lock and unlock is done by the one process that      *)
(* holds the URL's lock file (see LockFile), so one record `run` is its    *)
(* program counter and locals.  What it writes to the disk is queued in    *)
(* `todo` and done one write at a time: a process that dies loses the rest.*)
(***************************************************************************)
EXTENDS Integers, Sequences

CONSTANTS
  Procs,           \* builds that fetch the URL
  LastVersion,     \* versions of a file, or revisions of a repository: 1..LastVersion
  Premirrors,      \* url -> PREMIRRORS that apply to it, in order
  Mirrors,         \* url -> MIRRORS that apply to it, in order
  FileMirrors,     \* those of them that are file:// URLs; the others are http://
  Serves,          \* mirror -> contents it may answer with
  WriteTarballs,   \* BB_GENERATE_MIRROR_TARBALLS
  MaxCrashes, MaxCleans,   \* bounds
  NoProc, NoFile, Broken, Old

Versions == 1..LastVersion

ASSUME FetchAssumption ==
  /\ LastVersion \in Nat \ {0} /\ MaxCrashes \in Nat /\ MaxCleans \in Nat
  /\ WriteTarballs \in BOOLEAN
  /\ FileMirrors \subseteq DOMAIN Serves
  /\ \A m \in DOMAIN Serves : Serves[m] \subseteq SUBSET Versions
  /\ NoProc \notin Procs /\ {NoFile, Broken, Old, "src"} \cap FileMirrors = {}
  /\ NoFile \notin {Broken, Old, "src"}
  /\ \A c \in SUBSET Versions : c \notin {NoFile, Broken, Old} \cup FileMirrors

VARIABLES
  url,        \* "wget" or "git": the method of the URL
  want,       \* want[p]: the checksum or the revision p's recipe names
  upstream,   \* upstream has published the versions 1..upstream
  mirror,     \* mirror[m]: the file in a file:// mirror
  disk,       \* disk[n]: a file of DL_DIR, "src" the localpath, "tar" the mirrortarball;
              \* a file:// mirror stands for a symbolic link to its file
  stamp,      \* stamp[n]: the done stamp of that file
  holder,     \* who holds the lock
  run,        \* its program counter and locals
  todo,       \* what it has yet to write
  result,     \* result[p]: how p's last fetch ended
  last,       \* who last let go of the lock
  crashes, cleans,
  mishaps     \* what has gone wrong: "crash", "failure", "torn" (a clean cut short)

vars == <<url, want, upstream, mirror, disk, stamp, holder, run, todo, result,
          last, crashes, cleans, mishaps>>
disks    == <<mirror, disk, stamp>>
external == <<url, want, upstream, crashes, cleans>>

(* The content of a file is the set of its versions: one for a file, the   *)
(* revisions its branches contain for a repository or its tarball.  Broken *)
(* is a part of a file, or a directory git does not take for a repository. *)
Content(n) == IF disk[n] \in FileMirrors THEN mirror[disk[n]] ELSE disk[n]
Exists(n)  == Content(n) # NoFile
Has(c, v)  == c \notin {NoFile, Broken} /\ v \in c

Contents == {NoFile, Broken} \cup SUBSET Versions

(* Type invariant: DL_DIR, the stamps, the mirrors and the fetches.        *)
TypeOK ==
  /\ url \in {"wget", "git"} /\ want \in [Procs -> Versions]
  /\ upstream \in Versions
  /\ mirror \in [FileMirrors -> Contents]
  /\ disk \in [{"src", "tar"} -> Contents \cup FileMirrors]
  /\ stamp \in [{"src", "tar"} -> {NoFile, Old} \cup SUBSET Versions]
  /\ holder \in Procs \cup {NoProc} /\ last \in Procs \cup {NoProc}
  /\ result \in [Procs -> {"none", "ok", "failed"}]

(***************************************************************************)
(* Writes.                                                                 *)
(***************************************************************************)
Entry(n, c) == [op |-> "entry", name |-> n, to |-> c]    \* unlink, rename away, symlink
Write(n, c) == [op |-> "write", name |-> n, to |-> c]    \* follows a link
Mark(n, s)  == [op |-> "stamp", name |-> n, to |-> s]
Move(m)     == [op |-> "mirror", name |-> m, to |-> NoFile]

WriteNext ==
  /\ todo # <<>>
  /\ todo' = Tail(todo)
  /\ LET w == Head(todo)
         through == w.op = "write" /\ disk[w.name] \in FileMirrors IN
     /\ disk'   = IF w.op \in {"entry", "write"} /\ ~through
                  THEN [disk EXCEPT ![w.name] = w.to] ELSE disk
     /\ mirror' = IF through THEN [mirror EXCEPT ![disk[w.name]] = w.to]
                  ELSE IF w.op = "mirror" THEN [mirror EXCEPT ![w.name] = w.to] ELSE mirror
     /\ stamp'  = IF w.op = "stamp" THEN [stamp EXCEPT ![w.name] = w.to] ELSE stamp
  /\ UNCHANGED <<external, holder, run, result, last, mishaps>>

At(pc) == holder # NoProc /\ todo = <<>> /\ run.pc = pc

(* The control step: what is queued for writing and where to go on.        *)
Then(writes, next) ==
  /\ todo' = writes
  /\ run' = next
  /\ UNCHANGED <<external, disks, holder, result, last, mishaps>>

(***************************************************************************)
(* Stamps and checksums.                                                   *)
(***************************************************************************)
Checked  == url = "wget"                       \* supports_checksum
Match(c) == c = {want[holder]}

(* Opening the stamp empties it, before the sums are written.              *)
StoreSums == <<Mark("src", Old), Mark("src", Content("src"))>>

(* verify_donestamp: what it answers and what it writes.  Old is a stamp   *)
(* without sums or older than the file, whose sums it takes anew.          *)
Verified_by_stamp == stamp["src"] # NoFile /\ (Checked => Exists("src"))
Verified ==
  /\ stamp["src"] # NoFile
  /\ Checked => /\ Exists("src")
                /\ Match(IF stamp["src"] = Old THEN Content("src") ELSE stamp["src"])
VerifyWrites ==
  IF ~Checked \/ stamp["src"] = NoFile THEN <<>>
  ELSE IF Verified
  THEN IF stamp["src"] = Old THEN StoreSums ELSE <<>>
  ELSE (IF Exists("src") THEN <<Entry("src", NoFile)>> ELSE <<>>) \o <<Mark("src", NoFile)>>

(* update_stamp: whether it returns, and what it writes.  A stamp that is  *)
(* there is touched.                                                       *)
StampGood == stamp["src"] # NoFile \/ ~Checked \/ Match(Content("src"))
StampWrites ==
  IF stamp["src"] # NoFile THEN <<>>
  ELSE IF StampGood THEN IF Checked THEN StoreSums ELSE <<Mark("src", Old)>>
  ELSE <<Entry("src", NoFile), Mark("src", NoFile)>>

NeedUpdate ==
  \/ ~Exists("src")
  \/ /\ url = "git"
     /\ ~Has(Content("src"), want[holder]) \/ (WriteTarballs /\ ~Exists("tar"))

(* What m.clean removes; rm -rf takes a repository away bit by bit.        *)
CleanWrites ==
  IF url = "wget" THEN <<Entry("src", NoFile)>>
  ELSE (IF Exists("src") THEN <<Write("src", Broken)>> ELSE <<>>)
       \o <<Entry("src", NoFile), Entry("tar", NoFile), Mark("tar", NoFile)>>

(***************************************************************************)
(* Fetch.download.                                                         *)
(***************************************************************************)
Idle == [pc |-> "idle", verified |-> FALSE, localpath |-> NoFile, left |-> <<>>,
         pre |-> TRUE, outcome |-> "none"]

Start(p) ==
  /\ holder = NoProc
  /\ result[p] \in {"none", "failed"}
  /\ holder' = p
  /\ run' = [Idle EXCEPT !.pc = "verify"]
  /\ UNCHANGED <<external, disks, todo, result, last, mishaps>>

TryPremirror == url = "git" => ~Exists("src")

Verify ==
  /\ At("verify")
  /\ Then(VerifyWrites,
          IF Verified /\ ~NeedUpdate
          THEN [run EXCEPT !.pc = "again", !.localpath = "src"]
          ELSE IF TryPremirror
          THEN [run EXCEPT !.pc = "mirror", !.left = Premirrors[url]]
          ELSE [run EXCEPT !.pc = "again"])

Again ==
  /\ At("again")
  /\ Then(VerifyWrites,
          [run EXCEPT !.verified = Verified,
                      !.pc = IF run.localpath = NoFile /\ (~Verified \/ NeedUpdate)
                             THEN IF url = "git" THEN "extract" ELSE "upstream"
                             ELSE "end"])

(* The early update_stamp, after which a mirror may still be tried.        *)
Early ==
  /\ At("early")
  /\ Then(StampWrites,
          IF StampGood THEN [run EXCEPT !.pc = "end", !.localpath = "src"]
          ELSE [run EXCEPT !.pc = "upstream failed"])

(* Remove any incomplete fetch and turn to the MIRRORS.                    *)
UpstreamFailed_cleans_verified ==
  /\ At("upstream failed")
  /\ Then(IF run.verified THEN CleanWrites ELSE <<>>,
          [run EXCEPT !.pc = "mirror", !.pre = FALSE, !.left = Mirrors[url]])
UpstreamFailed ==
  /\ At("upstream failed")
  /\ Then(IF run.verified THEN <<>> ELSE CleanWrites,
          [run EXCEPT !.pc = "mirror", !.pre = FALSE, !.left = Mirrors[url]])

End ==
  /\ At("end")
  /\ LET found == \/ run.localpath = "src" /\ Exists("src")
                  \/ run.localpath \in FileMirrors /\ mirror[run.localpath] # NoFile
     IN Then(IF found THEN StampWrites ELSE <<>>,
             [run EXCEPT !.pc = "close",
                         !.outcome = IF found /\ StampGood THEN "ok" ELSE "failed"])

Close ==
  /\ At("close")
  /\ result' = [result EXCEPT ![holder] = run.outcome]
  /\ last' = holder
  /\ holder' = NoProc
  /\ run' = Idle
  /\ mishaps' = IF run.outcome = "failed" THEN mishaps \cup {"failure"} ELSE mishaps
  /\ UNCHANGED <<external, disks, todo>>

(***************************************************************************)
(* Downloads of a file with wget.  -c goes on with a file that is there:   *)
(* one that is whole stays or is appended to.                              *)
(***************************************************************************)
Downloads(n, served) ==
  CASE ~Exists(n)               -> {served}
    [] Content(n) = served      -> {served}
    [] Content(n) = Broken      -> {served, Broken}
    [] OTHER                    -> {Content(n), Broken}
DownloadWrites(n, c) ==
  IF c = Content(n) THEN <<>> ELSE <<Write(n, Broken), Write(n, c)>>
PartWrites(n) == {<<>>} \cup IF Exists(n) THEN {} ELSE {<<Write(n, Broken)>>}

UpstreamWget(c) ==
  /\ At("upstream")
  /\ \E v \in 1..upstream : c \in Downloads("src", {v})
  /\ Then(DownloadWrites("src", c), [run EXCEPT !.pc = "early"])

UpstreamWgetFails ==
  /\ At("upstream")
  /\ \E writes \in PartWrites("src") :
       Then(writes, [run EXCEPT !.pc = "upstream failed"])

(***************************************************************************)
(* try_mirrors and try_mirror_url.                                         *)
(***************************************************************************)
NextMirror == [run EXCEPT !.pc = "mirror", !.left = Tail(run.left)]
Given(path) == [run EXCEPT !.pc = IF run.pre THEN "again" ELSE "end",
                           !.localpath = path, !.left = <<>>]

NoMirrorLeft ==
  /\ At("mirror")
  /\ run.left = <<>>
  /\ Then(<<>>, [run EXCEPT !.pc = IF run.pre THEN "again" ELSE "end"])

(* A file:// mirror is linked to, unless the file is there already; what   *)
(* is there is then checked, and if it is not right, both are moved aside. *)
LinkToMirror(m) ==
  /\ At("mirror") /\ run.left # <<>> /\ m = Head(run.left) /\ m \in FileMirrors
  /\ LET n == IF url = "wget" THEN "src" ELSE "tar" IN
     IF mirror[m] = NoFile THEN Then(<<>>, NextMirror)
     ELSE IF Exists(n)
     THEN Then(<<>>, [run EXCEPT !.pc = IF url = "wget" THEN "check link" ELSE "process"])
     ELSE IF url = "git" /\ disk["tar"] # NoFile     \* os.symlink raises
     THEN Then(<<>>, [run EXCEPT !.pc = "close", !.outcome = "failed"])
     ELSE Then((IF disk[n] # NoFile THEN <<Entry(n, NoFile)>> ELSE <<>>) \o <<Entry(n, m)>>,
               [run EXCEPT !.pc = IF url = "wget" THEN "check link" ELSE "process"])

CheckLink ==
  /\ At("check link")
  /\ IF StampGood THEN Then(StampWrites, Given(Head(run.left)))
     ELSE Then(StampWrites \o <<Move(Head(run.left))>>, NextMirror)

(* An http:// mirror of a file has the file's own name, lock and stamp; no *)
(* stamp is left by the time mirrors are tried.                            *)
DownloadFromMirror(m) ==
  /\ At("mirror") /\ run.left # <<>> /\ m = Head(run.left) /\ m \notin FileMirrors
  /\ url = "wget"
  /\ \/ \E s \in Serves[m] : \E c \in Downloads("src", s) :
           Then(DownloadWrites("src", c), Given("src"))
     \/ \E writes \in PartWrites("src") :
           Then(writes \o <<Entry("src", NoFile)>>, NextMirror)

(* For a git URL it has the tarball, which the git method goes on with.    *)
DownloadTarball(m) ==
  /\ At("mirror") /\ run.left # <<>> /\ m = Head(run.left) /\ m \notin FileMirrors
  /\ url = "git"
  /\ LET process == [run EXCEPT !.pc = "process"] IN
     \/ /\ stamp["tar"] # NoFile /\ Exists("tar")
        /\ Then(<<Mark("tar", Old)>>, process)
     \/ /\ stamp["tar"] = NoFile \/ ~Exists("tar")
        /\ \/ \E s \in Serves[m] : \E c \in Downloads("tar", s) :
                Then(DownloadWrites("tar", c) \o <<Mark("tar", Old)>>, process)
           \/ \E writes \in PartWrites("tar") :
                Then(writes \o <<Entry("tar", NoFile)>>, NextMirror)

ProcessTarball ==
  /\ At("process")
  /\ Then(<<>>, IF ~Verified \/ NeedUpdate THEN [run EXCEPT !.pc = "extract"]
                ELSE Given("src"))

(***************************************************************************)
(* Git.download and build_mirror_data.                                     *)
(***************************************************************************)
ForMirror == run.left # <<>>

GitFailed(writes) ==
  IF ~ForMirror THEN Then(writes, [run EXCEPT !.pc = "upstream failed"])
  ELSE Then(IF Head(run.left) \in FileMirrors THEN writes
            ELSE writes \o <<Entry("tar", NoFile)>>, NextMirror)

Extract ==
  /\ At("extract")
  /\ LET fetch == [run EXCEPT !.pc = "fetch"] IN
     \/ Exists("src") /\ Then(<<>>, fetch)
     \/ /\ ~Exists("src") /\ Exists("tar")
        /\ IF Content("tar") = Broken THEN GitFailed(<<Write("src", Broken)>>)
           ELSE Then(<<Write("src", Broken), Write("src", Content("tar"))>>, fetch)

Cloning == At("extract") /\ ~Exists("src") /\ ~Exists("tar")

Clone == Cloning /\ Then(<<Write("src", {}), Write("src", 1..upstream)>>,
                         [run EXCEPT !.pc = "fetch"])
CloneFails == Cloning /\ GitFailed(<<Write("src", {}), Entry("src", NoFile)>>)

Lacking == At("fetch") /\ ~Has(Content("src"), want[holder])

NothingToFetch ==
  /\ At("fetch") /\ Has(Content("src"), want[holder])
  /\ Then(<<>>, [run EXCEPT !.pc = "tarball"])

(* git fetch -f --prune; the tarball is out of date after it.              *)
FetchRefs_keeps_tarball ==
  /\ Lacking /\ Content("src") # Broken
  /\ LET writes == <<Write("src", 1..upstream)>> IN
     IF want[holder] <= upstream THEN Then(writes, [run EXCEPT !.pc = "tarball"])
     ELSE GitFailed(writes)
FetchRefs ==
  /\ Lacking /\ Content("src") # Broken
  /\ LET writes == <<Write("src", 1..upstream), Entry("tar", NoFile)>> IN
     IF want[holder] <= upstream THEN Then(writes, [run EXCEPT !.pc = "tarball"])
     ELSE GitFailed(writes)
FetchRefsFails == Lacking /\ GitFailed(<<>>)

BuildMirrorData ==
  /\ At("tarball")
  /\ Then(IF WriteTarballs /\ ~Exists("tar")
          THEN <<Entry("tar", NoFile), Write("tar", Broken), Write("tar", Content("src")),
                 Mark("tar", Old)>>
          ELSE <<>>,
          IF ForMirror THEN Given("src") ELSE [run EXCEPT !.pc = "early"])

(***************************************************************************)
(* Unpacking and cleaning.                                                 *)
(***************************************************************************)
Unpack(p) ==
  /\ holder = NoProc /\ result[p] = "ok"
  /\ result' = [result EXCEPT ![p] = "none"]
  /\ UNCHANGED <<external, disks, holder, run, todo, last, mishaps>>

Clean(p) ==
  /\ holder = NoProc /\ cleans < MaxCleans
  /\ cleans' = cleans + 1
  /\ holder' = p
  /\ run' = [Idle EXCEPT !.pc = "close"]
  /\ todo' = CleanWrites \o <<Mark("src", NoFile)>>
  /\ result' = [q \in Procs |-> IF result[q] = "ok" THEN "none" ELSE result[q]]
  /\ UNCHANGED <<url, want, upstream, disks, last, crashes, mishaps>>

(***************************************************************************)
(* The world: processes die, upstream and the mirrors get new files.       *)
(***************************************************************************)
Crash ==
  /\ holder # NoProc /\ crashes < MaxCrashes
  /\ crashes' = crashes + 1
  /\ mishaps' = mishaps \cup {"crash"}
                \cup IF run.pc = "close" /\ run.outcome = "none" /\ todo # <<>>
                     THEN {"torn"} ELSE {}
  /\ holder' = NoProc /\ run' = Idle /\ todo' = <<>>
  /\ result' = [result EXCEPT ![holder] = "none"] /\ last' = holder
  /\ UNCHANGED <<url, want, upstream, disks, cleans>>

Release ==
  /\ upstream < LastVersion
  /\ upstream' = upstream + 1
  /\ UNCHANGED <<url, want, disks, holder, run, todo, result, last, crashes, cleans, mishaps>>

(* The mirror's own copy; it is newer than any stamp over a link to it.    *)
Publish(m) ==
  /\ mirror[m] = NoFile
  /\ \E c \in Serves[m] : mirror' = [mirror EXCEPT ![m] = c]
  /\ stamp' = [n \in {"src", "tar"} |->
                 IF disk[n] = m /\ stamp[n] # NoFile THEN Old ELSE stamp[n]]
  /\ UNCHANGED <<external, disk, holder, run, todo, result, last, mishaps>>

Init ==
  /\ url \in {"wget", "git"}
  /\ want \in [Procs -> Versions]
  /\ upstream \in Versions
  /\ mirror \in [FileMirrors -> {NoFile} \cup UNION {Serves[m] : m \in FileMirrors}]
  /\ \A m \in FileMirrors : mirror[m] \in {NoFile} \cup Serves[m]
  /\ disk = [n \in {"src", "tar"} |-> NoFile]
  /\ stamp = [n \in {"src", "tar"} |-> NoFile]
  /\ holder = NoProc /\ run = Idle /\ todo = <<>>
  /\ result = [p \in Procs |-> "none"] /\ last = NoProc
  /\ crashes = 0 /\ cleans = 0 /\ mishaps = {}

AllMirrors == DOMAIN Serves

Step ==
  \/ WriteNext \/ Verify \/ Again \/ Early \/ UpstreamFailed \/ End \/ Close
  \/ \E v \in Versions : UpstreamWget({v})
  \/ UpstreamWget(Broken) \/ UpstreamWgetFails
  \/ NoMirrorLeft \/ CheckLink \/ ProcessTarball
  \/ \E m \in AllMirrors : LinkToMirror(m) \/ DownloadFromMirror(m) \/ DownloadTarball(m)
  \/ Extract \/ Clone \/ CloneFails \/ NothingToFetch \/ FetchRefs \/ FetchRefsFails
  \/ BuildMirrorData

Next ==
  \/ Step
  \/ \E p \in Procs : Start(p) \/ Unpack(p) \/ Clean(p)
  \/ Crash
  \/ Release
  \/ \E m \in FileMirrors : Publish(m)

(* Upstream does not fail p for ever.                                      *)
UpstreamAnswers(p) ==
  /\ holder = p
  /\ \/ UpstreamWget({want[p]})
     \/ want[p] <= upstream /\ (Clone \/ FetchRefs)

Spec ==
  /\ Init /\ [][Next]_vars
  /\ WF_vars(Step) /\ WF_vars(Release)
  /\ \A p \in Procs : SF_vars(UpstreamAnswers(p)) /\ WF_vars(Unpack(p))

(***************************************************************************)
(* Properties.                                                             *)
(***************************************************************************)
Good(p) == IF url = "wget" THEN Content("src") = {want[p]} ELSE Has(Content("src"), want[p])

(* What a fetch that ended well has left in DL_DIR (download returned) has *)
(* the checksum, or holds the revision, of the recipe: at once, whatever   *)
(* stamp or partial file another build or a dead one left there; and until *)
(* it is unpacked, if all recipes that name the file want the same of it.  *)
Stands ==
  \A p \in Procs :
    result[p] = "ok" /\ ((last = p /\ holder = NoProc) \/ \A q \in Procs : want[q] = want[p])
      => Good(p)

(* As long as no fetch has died or failed, the tarball of a repository     *)
(* (build_mirror_data), which other builds take from a mirror instead of   *)
(* the repository, has the revision just fetched.                          *)
TarballCurrent ==
  \A p \in Procs :
    url = "git" /\ WriteTarballs /\ mishaps = {}
      /\ result[p] = "ok" /\ last = p /\ holder = NoProc
      => Has(Content("tar"), want[p])

(* A build that fetches again and again is not stuck with what a fetch     *)
(* that died, or a source with the wrong file, has left: its fetches end   *)
(* well again and again, unless a clean was cut short.                     *)
FetchRecovers ==
  \A p \in Procs :
    []<>(holder = p /\ run.pc = "verify") => []<>(result[p] = "ok") \/ <>("torn" \in mishaps)

(* What the comment "Remove any incomplete fetch" in download promises:    *)
(* the same with cleans cut short.  Does not hold, see the findings.       *)
IncompleteRemoved ==
  \A p \in Procs : []<>(holder = p /\ run.pc = "verify") => []<>(result[p] = "ok")

(* try_mirror_url moves a mirror's file aside for a bad checksum only if   *)
(* that file's checksum is bad.  Does not hold, see the findings.          *)
MirrorKept ==
  [][\A m \in FileMirrors :
       mirror[m] # NoFile /\ mirror'[m] = NoFile => ~Match(mirror[m])]_vars

(* After a good fetch the tarball is not a part of one, whatever died      *)
(* before.  Does not hold, see the findings.                               *)
TarballWhole ==
  \A p \in Procs : url = "git" /\ result[p] = "ok" /\ last = p /\ holder = NoProc
                     => Content("tar") # Broken

(* No fetch fails before upstream and the MIRRORS were tried.  Holds while *)
(* no http:// PREMIRRORS serves a wrong file, see the findings.            *)
EverySourceAsked ==
  At("close") /\ run.outcome = "failed" => ~run.pre
=============================================================================
