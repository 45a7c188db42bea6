------------------------------ MODULE ImageCache ------------------------------
(***************************************************************************)
(* internal/image: the signed prebuilt image under <root>\cache\images.     *)
(* Four files make an entry: the tarball, its checksum, the signature of    *)
(* the checksum, and the metadata.  Downloads go to .part files whose names *)
(* are the same in every dockup process.  A file's content is the build it  *)
(* belongs to, Torn when it is no build's file, or Absent.  Hashes and      *)
(* signatures are perfect: a checksum and a signature verify exactly when   *)
(* they belong to the same build, and a tarball matches its own checksum.   *)
(***************************************************************************)
EXTENDS Naturals

CONSTANTS
  Proc,       \* dockup processes that may run Ensure
  MaxTag,     \* bound: release tags, numbered in order
  MaxRev,     \* bound: revisions published under a tag
  MaxRuns,    \* bound: calls of Ensure
  None, Torn, Absent

Tags  == 1..MaxTag
Build == Tags \X (1..MaxRev)

ASSUME ImageAssumption ==
  /\ MaxTag \in Nat \ {0}
  /\ MaxRev \in Nat \ {0}
  /\ MaxRuns \in Nat
  /\ {None, Torn, Absent} \cap Build = {}
  /\ Torn # Absent

VARIABLES
  pc,       \* where each process is inside EnsureWithKey
  refresh,  \* its argument
  known,    \* the build a valid cache was found to hold, or None
  want,     \* the build of the verified remote checksum
  got,      \* content of the tarball when a call returned success, or None
  result,   \* of the last call
  hit,      \* history: the environment interfered with the current call
  disk,     \* the four files of the entry
  part,     \* the .part files
  tmp,      \* the temporary file of the metadata, of one name too
  writers,  \* processes with the tarball's .part file open
  latest,   \* last revision published under each tag
  tag,      \* the running binary's tag
  runs,     \* calls so far
  met       \* history: calls that met another call or a prune

vars == <<pc, refresh, known, want, got, result, hit, disk, part, tmp, writers, latest,
          tag, runs, met>>

Payload == {"tar", "sum", "sig"}
Remote  == <<tag, latest[tag]>>

Init ==
  /\ pc = [p \in Proc |-> "idle"]
  /\ refresh = [p \in Proc |-> FALSE]
  /\ known = [p \in Proc |-> None]
  /\ want = [p \in Proc |-> None]
  /\ got = [p \in Proc |-> None]
  /\ result = [p \in Proc |-> "none"]
  /\ hit = [p \in Proc |-> FALSE]
  /\ disk = [f \in Payload \cup {"meta"} |-> Absent]
  /\ part = [f \in Payload |-> Absent]
  /\ tmp = Absent
  /\ writers = {}
  /\ latest = [t \in Tags |-> 1]
  /\ tag = 1
  /\ runs = 0
  /\ met = {}

-----------------------------------------------------------------------------
\* Mutant of RecordsAgree: the tag of the metadata is not compared.
RecordsAgreeAnyTag ==
  /\ disk["tar"] # Absent
  /\ disk["meta"] \in Build
  /\ disk["sig"] = disk["sum"]
  /\ disk["sum"] = disk["meta"]

\* Mutant of TarMatches: the tarball only has to be there.
TarPresent(tar, sum) == sum \in Build /\ tar # Absent

\* verifyCache, but for the tarball: all files are there, the metadata is of
\* this binary's tag, the signature is the checksum's, both are the metadata's.
RecordsAgree ==
  /\ disk["tar"] # Absent
  /\ disk["meta"] \in {tag} \X (1..MaxRev)
  /\ disk["sig"] = disk["sum"]
  /\ disk["sum"] = disk["meta"]

TarMatches(tar, sum) == sum \in Build /\ tar = sum

CacheValid == RecordsAgree /\ TarMatches(disk["tar"], disk["sum"])

Goto(p, label) == pc' = [pc EXCEPT ![p] = label]
Hit(P) == hit' = [p \in Proc |-> hit[p] \/ p \in P]
Active == {p \in Proc : pc[p] # "idle"}

\* The locals of a call are gone when it ends.
Leave(p) ==
  /\ Goto(p, "idle")
  /\ refresh' = [refresh EXCEPT ![p] = FALSE]
  /\ known' = [known EXCEPT ![p] = None]
  /\ want' = [want EXCEPT ![p] = None]

\* The deferred removals of a call at p's label; a file that another process
\* has open stays.
Cleaned(p) ==
  [f \in Payload |->
     IF \/ pc[p] \in {"verify", "hash"}
        \/ f = "tar" /\ pc[p] \in {"fetchSum", "fetchSig", "checkSig"}
        \/ f = "tar" /\ writers \ {p} # {}
     THEN part[f] ELSE Absent]

Abort(p) ==
  /\ Leave(p)
  /\ result' = [result EXCEPT ![p] = "error"]
  /\ part' = Cleaned(p)
  /\ tmp' \in {tmp} \cup (IF pc[p] = "rmMeta" THEN {Absent} ELSE {})
  /\ writers' = writers \ {p}
  /\ UNCHANGED <<got, disk, latest, tag, runs, met>>

Succeed(p) ==
  /\ Leave(p)
  /\ result' = [result EXCEPT ![p] = "ok"]
  /\ got' = [got EXCEPT ![p] = disk["tar"]]
  /\ part' = Cleaned(p)
  /\ hit' = [hit EXCEPT ![p] = FALSE]
  /\ UNCHANGED <<writers, latest, tag, runs, met>>

-----------------------------------------------------------------------------
Ensure(p, r) ==
  /\ pc[p] = "idle"
  /\ runs < MaxRuns
  /\ runs' = runs + 1
  /\ met' = IF Active = {} THEN met \ {p} ELSE met \cup Active \cup {p}
  /\ Goto(p, "verify")
  /\ refresh' = [refresh EXCEPT ![p] = r]
  /\ got' = [got EXCEPT ![p] = None]
  /\ result' = [result EXCEPT ![p] = "none"]
  /\ hit' = [hit EXCEPT ![p] = FALSE]
  /\ UNCHANGED <<known, want, disk, part, tmp, writers, latest, tag>>

VerifyRecords(p) ==
  /\ pc[p] = "verify"
  /\ Goto(p, IF RecordsAgree THEN "hash" ELSE "fetchSum")
  /\ known' = [known EXCEPT ![p] = IF RecordsAgree THEN disk["meta"] ELSE None]
  /\ UNCHANGED <<refresh, want, got, result, hit, disk, part, tmp, writers, latest, tag,
                 runs, met>>

\* Hashing the tarball takes seconds.  A valid cache is the answer unless the
\* caller asked for a refresh.
VerifyTar(p) ==
  /\ pc[p] = "hash"
  /\ LET valid == TarMatches(disk["tar"], disk["sum"]) IN
     IF valid /\ ~refresh[p]
     THEN Succeed(p)
     ELSE /\ known' = [known EXCEPT ![p] = IF valid THEN @ ELSE None]
          /\ Goto(p, "fetchSum")
          /\ UNCHANGED <<refresh, want, got, result, hit, part, writers, latest, tag,
                         runs, met>>
  /\ UNCHANGED <<disk, tmp>>

\* Mutant of Fetch: a .part file that is there already is taken as it is.
FetchResumed(p, f, next) ==
  /\ \E c \in (IF part[f] # Absent THEN {part[f]} ELSE {Remote, Torn}) :
       /\ part' = [part EXCEPT ![f] = c]
       /\ Hit(IF c = Torn /\ part[f] = Absent THEN {p} ELSE {})
  /\ Goto(p, next)
  /\ UNCHANGED <<refresh, known, want, got, result, disk, tmp, writers, latest, tag,
                 runs, met>>

\* fetchVerifiedChecksum: what is downloaded is the release's current file, or
\* damaged without an error.
Fetch(p, f, next) ==
  /\ \E c \in {Remote, Torn} :
       /\ part' = [part EXCEPT ![f] = c]
       /\ Hit(IF c = Torn THEN {p} ELSE {})
  /\ Goto(p, next)
  /\ UNCHANGED <<refresh, known, want, got, result, disk, tmp, writers, latest, tag,
                 runs, met>>

FetchSum(p) == pc[p] = "fetchSum" /\ Fetch(p, "sum", "fetchSig")
FetchSig(p) == pc[p] = "fetchSig" /\ Fetch(p, "sig", "checkSig")

CheckSig(p) ==
  /\ pc[p] = "checkSig"
  /\ part["sum"] \in Build
  /\ part["sig"] = part["sum"]
  /\ IF refresh[p] /\ known[p] = part["sum"]
     THEN Succeed(p) /\ UNCHANGED <<disk, tmp>>
     ELSE /\ want' = [want EXCEPT ![p] = part["sum"]]
          /\ Goto(p, "openTar")
          /\ UNCHANGED <<refresh, known, got, result, hit, disk, part, tmp, writers,
                         latest,
                         tag, runs, met>>

\* download.Fetch of the tarball: create or truncate the .part file ...
OpenTar(p) ==
  /\ pc[p] = "openTar"
  /\ part' = [part EXCEPT !["tar"] = Torn]
  /\ writers' = writers \cup {p}
  /\ Goto(p, "body")
  /\ UNCHANGED <<refresh, known, want, got, result, hit, disk, tmp, latest, tag, runs,
                 met>>

\* ... and copy the body into it.
BodyTar(p) ==
  /\ pc[p] = "body"
  /\ \E c \in {Remote, Torn} :
       /\ part' = [part EXCEPT !["tar"] = c]
       /\ Hit(IF c = Torn THEN {p} ELSE {})
  /\ writers' = writers \ {p}
  /\ Goto(p, "check")
  /\ UNCHANGED <<refresh, known, want, got, result, disk, tmp, latest, tag, runs, met>>

\* Mutant of CheckTar: the downloaded tarball is not hashed.
CheckNothing(p) ==
  /\ pc[p] = "check"
  /\ Goto(p, "rmTar")
  /\ UNCHANGED <<refresh, known, want, got, result, hit, disk, part, tmp, writers, latest,
                 tag, runs, met>>

CheckTar(p) ==
  /\ pc[p] = "check"
  /\ TarMatches(part["tar"], part["sum"])
  /\ Goto(p, "rmTar")
  /\ UNCHANGED <<refresh, known, want, got, result, hit, disk, part, tmp, writers, latest,
                 tag, runs, met>>

\* A verification that fails ends the call.
Reject(p) ==
  /\ \/ pc[p] = "checkSig" /\ ~(part["sum"] \in Build /\ part["sig"] = part["sum"])
     \/ pc[p] = "check" /\ ~TarMatches(part["tar"], part["sum"])
  /\ Abort(p)
  /\ UNCHANGED hit

Rm == [tar |-> "rmTar", sum |-> "rmSum", sig |-> "rmSig"]
Mv == [tar |-> "mvTar", sum |-> "mvSum", sig |-> "mvSig"]
After == [tar |-> "rmSum", sum |-> "rmSig", sig |-> "openMeta"]

\* installFile: remove the old file, then rename the new one to its place.
InstallRemove(p, f) ==
  /\ pc[p] = Rm[f]
  /\ disk' = [disk EXCEPT ![f] = Absent]
  /\ Goto(p, Mv[f])
  /\ UNCHANGED <<refresh, known, want, got, result, hit, part, tmp, writers, latest,
                 tag, runs, met>>

InstallRename(p, f) ==
  /\ pc[p] = Mv[f]
  /\ part[f] # Absent
  /\ f = "tar" => writers = {}
  /\ disk' = [disk EXCEPT ![f] = part[f]]
  /\ part' = [part EXCEPT ![f] = Absent]
  /\ Goto(p, After[f])
  /\ UNCHANGED <<refresh, known, want, got, result, hit, tmp, writers, latest, tag,
                 runs, met>>

\* writeMeta: create or truncate the temporary file ...
OpenMeta(p) ==
  /\ pc[p] = "openMeta"
  /\ tmp' = Torn
  /\ Goto(p, "writeMeta")
  /\ UNCHANGED <<refresh, known, want, got, result, hit, disk, part, writers, latest, tag,
                 runs, met>>

\* ... write it, remove the old metadata ...
WriteMeta(p) ==
  /\ pc[p] = "writeMeta"
  /\ tmp' = want[p]
  /\ Goto(p, "rmMeta")
  /\ UNCHANGED <<refresh, known, want, got, result, hit, disk, part, writers, latest, tag,
                 runs, met>>

RemoveMeta(p) ==
  /\ pc[p] = "rmMeta"
  /\ disk' = [disk EXCEPT !["meta"] = Absent]
  /\ Goto(p, "mvMeta")
  /\ UNCHANGED <<refresh, known, want, got, result, hit, part, tmp, writers, latest, tag,
                 runs, met>>

\* Mutant of RenameMeta: the old metadata is written back.
RenameOldMeta(p) ==
  /\ pc[p] = "mvMeta"
  /\ disk' = [disk EXCEPT !["meta"] = known[p]]
  /\ tmp' = Absent
  /\ Succeed(p)

\* ... and rename what is in the temporary file, whoever wrote it.
RenameMeta(p) ==
  /\ pc[p] = "mvMeta"
  /\ tmp # Absent
  /\ \A q \in Proc : pc[q] # "writeMeta"
  /\ disk' = [disk EXCEPT !["meta"] = tmp]
  /\ tmp' = Absent
  /\ Succeed(p)

-----------------------------------------------------------------------------
\* The network or a file operation fails; the rename also fails because another
\* process took the .part file or has it open.
IoError(p) ==
  /\ pc[p] \notin {"idle", "verify", "hash"}
  /\ Abort(p)
  /\ Hit({p})

\* Handles close, files stay.
Crash(p) ==
  /\ pc[p] # "idle"
  /\ Leave(p)
  /\ hit' = [hit EXCEPT ![p] = FALSE]
  /\ writers' = writers \ {p}
  /\ UNCHANGED <<got, result, disk, part, tmp, latest, tag, runs, met>>

\* dockup prune: RemoveAll on the cache directory takes the files one by one, but
\* not one that is open, and may stop at any of them.
Clear ==
  /\ met' = met \cup Active
  /\ \/ /\ \E f \in DOMAIN disk : disk' = [disk EXCEPT ![f] = Absent]
        /\ UNCHANGED <<part, tmp>>
     \/ /\ \E f \in Payload :
             (f = "tar" => writers = {}) /\ part' = [part EXCEPT ![f] = Absent]
        /\ UNCHANGED <<disk, tmp>>
     \/ /\ tmp' = Absent /\ \A p \in Proc : pc[p] # "writeMeta"
        /\ UNCHANGED <<disk, part>>
  /\ Hit(Active)
  /\ UNCHANGED <<pc, refresh, known, want, got, result, writers, latest, tag, runs>>

\* The project replaces the files of a release.
Publish ==
  /\ \E t \in Tags : latest[t] < MaxRev /\ latest' = [latest EXCEPT ![t] = @ + 1]
  /\ Hit(Active)
  /\ UNCHANGED <<pc, refresh, known, want, got, result, disk, part, tmp, writers, tag,
                 runs, met>>

\* The user installs a newer dockup.
NewBinary ==
  /\ Active = {}
  /\ tag < MaxTag
  /\ tag' = tag + 1
  /\ got' = [p \in Proc |-> None]
  /\ UNCHANGED <<pc, refresh, known, want, result, hit, disk, part, tmp, writers,
                 latest, runs, met>>

Next ==
  \/ \E p \in Proc, r \in BOOLEAN : Ensure(p, r)
  \/ \E p \in Proc :
       \/ VerifyRecords(p) \/ VerifyTar(p) \/ FetchSum(p) \/ FetchSig(p) \/ CheckSig(p)
       \/ OpenTar(p) \/ BodyTar(p) \/ CheckTar(p) \/ Reject(p)
       \/ \E f \in Payload : InstallRemove(p, f) \/ InstallRename(p, f)
       \/ OpenMeta(p) \/ WriteMeta(p) \/ RemoveMeta(p) \/ RenameMeta(p)
       \/ IoError(p) \/ Crash(p)
  \/ Clear \/ Publish \/ NewBinary

Spec == Init /\ [][Next]_vars

-----------------------------------------------------------------------------
Content == Build \cup {Torn, Absent}

TypeOK ==
  /\ pc \in [Proc -> {"idle", "verify", "hash", "fetchSum", "fetchSig", "checkSig",
                      "openTar", "body", "check", "rmTar", "mvTar", "rmSum", "mvSum",
                      "rmSig", "mvSig", "openMeta", "writeMeta", "rmMeta", "mvMeta"}]
  /\ refresh \in [Proc -> BOOLEAN]
  /\ known \in [Proc -> Build \cup {None}]
  /\ want \in [Proc -> Build \cup {None}]
  /\ got \in [Proc -> Content \cup {None}]
  /\ result \in [Proc -> {"none", "ok", "error"}]
  /\ hit \in [Proc -> BOOLEAN]
  /\ disk \in [Payload \cup {"meta"} -> Content]
  /\ part \in [Payload -> Content]
  /\ tmp \in Content
  /\ writers \in SUBSET Proc
  /\ latest \in [Tags -> 1..MaxRev]
  /\ tag \in Tags
  /\ runs \in 0..MaxRuns
  /\ met \in SUBSET Proc

\* "Ensure returns a verified image": the tarball that setup goes on to import is a
\* whole published build of the binary's own tag, whatever an earlier crash, a damaged
\* download or a half-done prune left behind, unless the call met another one.
ReturnsVerified ==
  \A p \in Proc \ met : got[p] # None =>
    got[p] \in Build /\ got[p][1] = tag /\ got[p][2] <= latest[tag]

\* Left-over files never make a call fail: an error means that the network, the
\* release or another process got in its way during that very call.
FailsOnlyWhenHit == \A p \in Proc : result[p] = "error" => hit[p] \/ p \in met

\* What a call answers, a path or an error, is justified.
AnswersHonest == ReturnsVerified /\ FailsOnlyWhenHit

\* A good cache is given up only for a verified replacement at hand: a failed
\* refresh (no network, bad signature, bad tarball) leaves it in place.  Only a call
\* that met another one can break the cache otherwise.
KeepsGoodCache ==
  [][CacheValid /\ ~CacheValid' /\ tag' = tag =>
       \/ Clear
       \/ \E p \in Proc : pc[p] # pc'[p] /\ p \in met
       \/ \E p \in Proc : pc[p] \in {"rmSum", "rmSig", "rmMeta"}
       \/ \E p \in Proc : pc[p] = "rmTar" /\ TarMatches(part["tar"], part["sum"])]_vars

\* Implements the abstract store: seen through verifyCache, the four files are
\* one published build of the current tag or nothing, at every moment.
Store == INSTANCE ImageStore WITH entry <- IF CacheValid THEN disk["tar"] ELSE None
StoreSpec == Store!Spec
=============================================================================
