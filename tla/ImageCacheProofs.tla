---------------------------- MODULE ImageCacheProofs ----------------------------
(* Proofs about ImageCache, for any number of processes, calls, tags and revisions. *)
EXTENDS ImageCache, TLAPS

\* What a file holds, if it is a build, was published, and not for a later binary.
Published(c) == c \in Build => c[1] <= tag /\ c[2] <= latest[c[1]]

Genuine ==
  /\ \A f \in Payload \cup {"meta"} : Published(disk[f])
  /\ \A f \in Payload : Published(part[f])
  /\ Published(tmp)
  /\ \A p \in Proc : Published(known[p]) /\ Published(want[p])

\* Calls that run side by side know they meet.
Meets == \A p, q \in Proc : pc[p] # "idle" /\ pc[q] # "idle" /\ p # q => p \in met

\* A published build of the tag that the binary has.
Ours(c) == c \in Build /\ c[1] = tag

Sought    == {"openTar", "body", "check", "rmTar", "mvTar", "rmSum", "mvSum"}
Installed == {"rmSum", "mvSum", "rmSig", "mvSig", "openMeta", "writeMeta", "rmMeta",
              "mvMeta"}

\* A call that met no other one relies on what it has found out so far.
Relied ==
  \A p \in Proc \ met :
    /\ pc[p] = "hash" => RecordsAgree
    /\ pc[p] \in {"fetchSum", "fetchSig", "checkSig"} /\ known[p] # None => CacheValid
    /\ pc[p] \in {"fetchSig", "checkSig"} /\ part["sum"] \in Build => Ours(part["sum"])
    /\ pc[p] \in Sought \cup Installed => Ours(want[p])
    /\ pc[p] \in Sought => part["sum"] = want[p]
    /\ pc[p] \in {"rmTar", "mvTar"} => part["tar"] = want[p]
    /\ pc[p] \in Installed => disk["tar"] = want[p]

\* Between the removal and the rename of installFile a file is gone.
Removed ==
  \A p \in Proc \ met :
    /\ \A f \in Payload : pc[p] = Mv[f] => disk[f] = Absent
    /\ pc[p] = "mvMeta" => disk["meta"] = Absent

\* What a call that nothing has hit downloaded is the release.
Downloaded ==
  \A p \in Proc \ met : ~hit[p] =>
    /\ pc[p] \in {"fetchSig", "checkSig", "openTar", "body", "check"} => part["sum"] = Remote
    /\ pc[p] = "checkSig" => part["sig"] = Remote
    /\ pc[p] = "check" => part["tar"] = Remote

\* A call that has not ended has no result yet, and knows which build it installs.
Pending ==
  \A p \in Proc :
    /\ pc[p] # "idle" => result[p] = "none"
    /\ pc[p] \in Sought \cup Installed => want[p] \in Build

IInv ==
  /\ TypeOK
  /\ Pending
  /\ Genuine
  /\ Meets
  /\ Relied
  /\ Removed
  /\ Downloaded
  /\ AnswersHonest

\* The steps that may end a good cache.
GivenUp ==
  \/ Clear
  \/ \E p \in Proc : pc[p] # pc'[p] /\ p \in met
  \/ \E p \in Proc : pc[p] \in {"rmSum", "rmSig", "rmMeta"}
  \/ \E p \in Proc : pc[p] = "rmTar" /\ TarMatches(part["tar"], part["sum"])

\* How a step moves what the abstract store sees.
Moves ==
  \/ UNCHANGED <<disk, latest, tag>>
  \/ /\ \E g \in Payload \cup {"meta"} : \E x \in Content : disk' = [disk EXCEPT ![g] = x]
     /\ UNCHANGED <<latest, tag>>
  \/ Publish
  \/ NewBinary

\* The release's current build is one of this binary's tag.
LEMMA RemoteIsOurs ==
  ASSUME TypeOK
  PROVE  /\ Remote \in Build /\ Remote[1] = tag /\ Remote[2] = latest[tag]
         /\ tag <= tag /\ latest[tag] <= latest[tag]
         /\ Torn \notin Build /\ Absent \notin Build
<1>1. tag \in Tags /\ latest[tag] \in 1..MaxRev
  BY DEF TypeOK
<1>2. Remote \in Build /\ Remote[1] = tag /\ Remote[2] = latest[tag]
  BY <1>1 DEF Remote, Build
<1> QED
  BY <1>1, <1>2, ImageAssumption DEF Tags

LEMMA RemoteStays ==
  ASSUME UNCHANGED <<tag, latest>>
  PROVE  Remote' = Remote
BY DEF Remote

\* The parts of a build, and the order of revisions.
LEMMA BuildParts ==
  ASSUME ImageAssumption
  PROVE  /\ \A c \in Build : c[1] \in Tags /\ c[2] \in Nat
         /\ Tags \subseteq Nat /\ 1..MaxRev \subseteq Nat
BY DEF Build, Tags

LEMMA CleanedType ==
  ASSUME TypeOK, NEW p \in Proc
  PROVE  Cleaned(p) \in [Payload -> Content]
BY DEF TypeOK, Cleaned, Content

\* Metadata that agree with the binary's tag name a build of it.
LEMMA RecordsName ==
  ASSUME TypeOK, RecordsAgree
  PROVE  disk["meta"] \in Build /\ disk["meta"][1] = tag
<1>1. tag \in Tags
  BY DEF TypeOK
<1> QED
  BY <1>1 DEF RecordsAgree, Build

LEMMA TypeStep ==
  ASSUME TypeOK, Pending, [Next]_vars
  PROVE  TypeOK'
<1> USE ImageAssumption DEF TypeOK, Goto, Payload, Content, Active
<1>1. ASSUME NEW p \in Proc, NEW r \in BOOLEAN, Ensure(p, r)
      PROVE  TypeOK'
  BY <1>1 DEF Ensure
<1>2. ASSUME NEW p \in Proc, VerifyRecords(p)
      PROVE  TypeOK'
  BY <1>2, RecordsName DEF VerifyRecords
<1>3. ASSUME NEW p \in Proc, VerifyTar(p)
      PROVE  TypeOK'
  <2>1. Cleaned(p) \in [Payload -> Content]
    BY CleanedType
  <2>2. CASE TarMatches(disk["tar"], disk["sum"]) /\ ~refresh[p]
    <3>1. Succeed(p) /\ UNCHANGED <<disk, tmp>>
      BY <1>3, <2>2 DEF VerifyTar
    <3> QED
      BY <2>1, <3>1 DEF Succeed, Leave
  <2>3. CASE ~(TarMatches(disk["tar"], disk["sum"]) /\ ~refresh[p])
    BY <1>3, <2>3 DEF VerifyTar
  <2> QED
    BY <2>2, <2>3
<1>4. ASSUME NEW p \in Proc, FetchSum(p)
      PROVE  TypeOK'
  BY <1>4, RemoteIsOurs DEF FetchSum, Fetch, Hit
<1>5. ASSUME NEW p \in Proc, FetchSig(p)
      PROVE  TypeOK'
  BY <1>5, RemoteIsOurs DEF FetchSig, Fetch, Hit
<1>6. ASSUME NEW p \in Proc, CheckSig(p)
      PROVE  TypeOK'
  <2>1. Cleaned(p) \in [Payload -> Content]
    BY CleanedType
  <2>2. CASE refresh[p] /\ known[p] = part["sum"]
    <3>1. Succeed(p) /\ UNCHANGED <<disk, tmp>>
      BY <1>6, <2>2 DEF CheckSig
    <3> QED
      BY <2>1, <3>1 DEF Succeed, Leave
  <2>3. CASE ~(refresh[p] /\ known[p] = part["sum"])
    BY <1>6, <2>3 DEF CheckSig
  <2> QED
    BY <2>2, <2>3
<1>7. ASSUME NEW p \in Proc, OpenTar(p)
      PROVE  TypeOK'
  BY <1>7 DEF OpenTar
<1>8. ASSUME NEW p \in Proc, BodyTar(p)
      PROVE  TypeOK'
  BY <1>8, RemoteIsOurs DEF BodyTar, Hit
<1>9. ASSUME NEW p \in Proc, CheckTar(p)
      PROVE  TypeOK'
  BY <1>9 DEF CheckTar
<1>10. ASSUME NEW p \in Proc, Reject(p)
      PROVE  TypeOK'
  <2>1. Cleaned(p) \in [Payload -> Content]
    BY CleanedType
  <2> QED
    BY <1>10, <2>1 DEF Reject, Abort, Leave
<1>11. ASSUME NEW p \in Proc, NEW f \in Payload, InstallRemove(p, f)
      PROVE  TypeOK'
  BY <1>11 DEF InstallRemove, Rm, Mv
<1>12. ASSUME NEW p \in Proc, NEW f \in Payload, InstallRename(p, f)
      PROVE  TypeOK'
  BY <1>12 DEF InstallRename, Mv, After
<1>13. ASSUME NEW p \in Proc, RemoveMeta(p)
      PROVE  TypeOK'
  BY <1>13 DEF RemoveMeta
<1>14. ASSUME NEW p \in Proc, RenameMeta(p)
      PROVE  TypeOK'
  <2>1. Cleaned(p) \in [Payload -> Content]
    BY CleanedType
  <2> QED
    BY <1>14, <2>1 DEF RenameMeta, Succeed, Leave
<1>15. ASSUME NEW p \in Proc, IoError(p)
      PROVE  TypeOK'
  <2>1. Cleaned(p) \in [Payload -> Content]
    BY CleanedType
  <2> QED
    BY <1>15, <2>1 DEF IoError, Abort, Leave, Hit
<1>16. ASSUME NEW p \in Proc, Crash(p)
      PROVE  TypeOK'
  BY <1>16 DEF Crash, Leave
<1>17. CASE Clear
  BY <1>17 DEF Clear, Hit
<1>18. CASE Publish
  BY <1>18 DEF Publish, Hit
<1>19. CASE NewBinary
  BY <1>19 DEF NewBinary, Tags
<1>20. CASE UNCHANGED vars
  BY <1>20 DEF vars
<1>21. ASSUME NEW p \in Proc, OpenMeta(p)
      PROVE  TypeOK'
  BY <1>21 DEF OpenMeta
<1>22. ASSUME NEW p \in Proc, WriteMeta(p)
      PROVE  TypeOK'
  <2>1. want[p] \in Build
    BY <1>22 DEF WriteMeta, Pending, Sought, Installed
  <2> QED
    BY <1>22, <2>1 DEF WriteMeta
<1> QED
  BY <1>1, <1>2, <1>3, <1>4, <1>5, <1>6, <1>7, <1>8, <1>9, <1>10, <1>11, <1>12, <1>13,
     <1>14, <1>15, <1>16, <1>17, <1>18, <1>19, <1>20, <1>21, <1>22 DEF Next

LEMMA GenuineStep ==
  ASSUME TypeOK, Genuine, [Next]_vars
  PROVE  Genuine'
<1> USE ImageAssumption DEF TypeOK, Goto, Payload, Content, Genuine, Published
<1>1. ASSUME NEW p \in Proc, NEW r \in BOOLEAN, Ensure(p, r)
      PROVE  Genuine'
  BY <1>1 DEF Ensure
<1>2. ASSUME NEW p \in Proc, VerifyRecords(p)
      PROVE  Genuine'
  BY <1>2 DEF VerifyRecords
<1>3. ASSUME NEW p \in Proc, VerifyTar(p)
      PROVE  Genuine'
  BY <1>3 DEF VerifyTar, Succeed, Leave, Cleaned
<1>4. ASSUME NEW p \in Proc, FetchSum(p)
      PROVE  Genuine'
  BY <1>4, RemoteIsOurs DEF FetchSum, Fetch, Hit
<1>5. ASSUME NEW p \in Proc, FetchSig(p)
      PROVE  Genuine'
  BY <1>5, RemoteIsOurs DEF FetchSig, Fetch, Hit
<1>6. ASSUME NEW p \in Proc, CheckSig(p)
      PROVE  Genuine'
  BY <1>6 DEF CheckSig, Succeed, Leave, Cleaned
<1>7. ASSUME NEW p \in Proc, OpenTar(p)
      PROVE  Genuine'
  BY <1>7 DEF OpenTar
<1>8. ASSUME NEW p \in Proc, BodyTar(p)
      PROVE  Genuine'
  BY <1>8, RemoteIsOurs DEF BodyTar, Hit
<1>9. ASSUME NEW p \in Proc, CheckTar(p)
      PROVE  Genuine'
  BY <1>9 DEF CheckTar
<1>10. ASSUME NEW p \in Proc, Reject(p)
      PROVE  Genuine'
  BY <1>10 DEF Reject, Abort, Leave, Cleaned
<1>11. ASSUME NEW p \in Proc, NEW f \in Payload, InstallRemove(p, f)
      PROVE  Genuine'
  BY <1>11 DEF InstallRemove, Rm, Mv
<1>12. ASSUME NEW p \in Proc, NEW f \in Payload, InstallRename(p, f)
      PROVE  Genuine'
  BY <1>12 DEF InstallRename, Mv, After
<1>13. ASSUME NEW p \in Proc, RemoveMeta(p)
      PROVE  Genuine'
  BY <1>13 DEF RemoveMeta
<1>14. ASSUME NEW p \in Proc, RenameMeta(p)
      PROVE  Genuine'
  BY <1>14 DEF RenameMeta, Succeed, Leave, Cleaned
<1>15. ASSUME NEW p \in Proc, IoError(p)
      PROVE  Genuine'
  BY <1>15 DEF IoError, Abort, Leave, Cleaned, Hit
<1>16. ASSUME NEW p \in Proc, Crash(p)
      PROVE  Genuine'
  BY <1>16 DEF Crash, Leave
<1>17. CASE Clear
  BY <1>17 DEF Clear, Hit
<1>18. CASE Publish
  BY <1>18, BuildParts DEF Publish, Hit
<1>19. CASE NewBinary
  BY <1>19, BuildParts DEF NewBinary
<1>20. CASE UNCHANGED vars
  BY <1>20 DEF vars
<1>21. ASSUME NEW p \in Proc, OpenMeta(p)
      PROVE  Genuine'
  BY <1>21 DEF OpenMeta
<1>22. ASSUME NEW p \in Proc, WriteMeta(p)
      PROVE  Genuine'
  BY <1>22 DEF WriteMeta
<1> HIDE DEF TypeOK, Goto, Payload, Content, Genuine, Published
<1> QED
  BY <1>1, <1>2, <1>3, <1>4, <1>5, <1>6, <1>7, <1>8, <1>9, <1>10, <1>11, <1>12, <1>13,
     <1>14, <1>15, <1>16, <1>17, <1>18, <1>19, <1>20, <1>21, <1>22 DEF Next

LEMMA MeetsStep ==
  ASSUME TypeOK, Meets, [Next]_vars
  PROVE  Meets'
<1> USE ImageAssumption DEF TypeOK, Goto, Payload, Meets, Active
<1>1. ASSUME NEW p \in Proc, NEW r \in BOOLEAN, Ensure(p, r)
      PROVE  Meets'
  BY <1>1 DEF Ensure
<1>2. ASSUME NEW p \in Proc, VerifyRecords(p)
      PROVE  Meets'
  BY <1>2 DEF VerifyRecords
<1>3. ASSUME NEW p \in Proc, VerifyTar(p)
      PROVE  Meets'
  BY <1>3 DEF VerifyTar, Succeed, Leave, Cleaned
<1>4. ASSUME NEW p \in Proc, FetchSum(p)
      PROVE  Meets'
  BY <1>4 DEF FetchSum, Fetch, Hit
<1>5. ASSUME NEW p \in Proc, FetchSig(p)
      PROVE  Meets'
  BY <1>5 DEF FetchSig, Fetch, Hit
<1>6. ASSUME NEW p \in Proc, CheckSig(p)
      PROVE  Meets'
  BY <1>6 DEF CheckSig, Succeed, Leave, Cleaned
<1>7. ASSUME NEW p \in Proc, OpenTar(p)
      PROVE  Meets'
  BY <1>7 DEF OpenTar
<1>8. ASSUME NEW p \in Proc, BodyTar(p)
      PROVE  Meets'
  BY <1>8 DEF BodyTar, Hit
<1>9. ASSUME NEW p \in Proc, CheckTar(p)
      PROVE  Meets'
  BY <1>9 DEF CheckTar
<1>10. ASSUME NEW p \in Proc, Reject(p)
      PROVE  Meets'
  BY <1>10 DEF Reject, Abort, Leave, Cleaned
<1>11. ASSUME NEW p \in Proc, NEW f \in Payload, InstallRemove(p, f)
      PROVE  Meets'
  BY <1>11 DEF InstallRemove, Rm, Mv
<1>12. ASSUME NEW p \in Proc, NEW f \in Payload, InstallRename(p, f)
      PROVE  Meets'
  BY <1>12 DEF InstallRename, Mv, After
<1>13. ASSUME NEW p \in Proc, RemoveMeta(p)
      PROVE  Meets'
  BY <1>13 DEF RemoveMeta
<1>14. ASSUME NEW p \in Proc, RenameMeta(p)
      PROVE  Meets'
  BY <1>14 DEF RenameMeta, Succeed, Leave, Cleaned
<1>15. ASSUME NEW p \in Proc, IoError(p)
      PROVE  Meets'
  BY <1>15 DEF IoError, Abort, Leave, Cleaned, Hit
<1>16. ASSUME NEW p \in Proc, Crash(p)
      PROVE  Meets'
  BY <1>16 DEF Crash, Leave
<1>17. CASE Clear
  BY <1>17 DEF Clear, Hit
<1>18. CASE Publish
  BY <1>18 DEF Publish, Hit
<1>19. CASE NewBinary
  BY <1>19 DEF NewBinary
<1>20. CASE UNCHANGED vars
  BY <1>20 DEF vars
<1>21. ASSUME NEW p \in Proc, OpenMeta(p)
      PROVE  Meets'
  BY <1>21 DEF OpenMeta
<1>22. ASSUME NEW p \in Proc, WriteMeta(p)
      PROVE  Meets'
  BY <1>22 DEF WriteMeta
<1> QED
  BY <1>1, <1>2, <1>3, <1>4, <1>5, <1>6, <1>7, <1>8, <1>9, <1>10, <1>11, <1>12, <1>13,
     <1>14, <1>15, <1>16, <1>17, <1>18, <1>19, <1>20, <1>21, <1>22 DEF Next

LEMMA ReliedStep ==
  ASSUME TypeOK, Meets, Relied, [Next]_vars
  PROVE  Relied'
<1> USE ImageAssumption DEF TypeOK, Goto, Payload, Meets, Active, Relied, Ours,
   RecordsAgree, CacheValid, TarMatches, Sought, Installed, Content
<1>1. ASSUME NEW p \in Proc, NEW r \in BOOLEAN, Ensure(p, r)
      PROVE  Relied'
  BY <1>1 DEF Ensure
<1>2. ASSUME NEW p \in Proc, VerifyRecords(p)
      PROVE  Relied'
  BY <1>2 DEF VerifyRecords
<1>3. ASSUME NEW p \in Proc, VerifyTar(p)
      PROVE  Relied'
  BY <1>3 DEF VerifyTar, Succeed, Leave, Cleaned
<1>4. ASSUME NEW p \in Proc, FetchSum(p)
      PROVE  Relied'
  BY <1>4, RemoteIsOurs DEF FetchSum, Fetch, Hit
<1>5. ASSUME NEW p \in Proc, FetchSig(p)
      PROVE  Relied'
  BY <1>5, RemoteIsOurs DEF FetchSig, Fetch, Hit
<1>6. ASSUME NEW p \in Proc, CheckSig(p)
      PROVE  Relied'
  BY <1>6 DEF CheckSig, Succeed, Leave, Cleaned
<1>7. ASSUME NEW p \in Proc, OpenTar(p)
      PROVE  Relied'
  BY <1>7 DEF OpenTar
<1>8. ASSUME NEW p \in Proc, BodyTar(p)
      PROVE  Relied'
  BY <1>8, RemoteIsOurs DEF BodyTar, Hit
<1>9. ASSUME NEW p \in Proc, CheckTar(p)
      PROVE  Relied'
  BY <1>9 DEF CheckTar
<1>10. ASSUME NEW p \in Proc, Reject(p)
      PROVE  Relied'
  BY <1>10 DEF Reject, Abort, Leave, Cleaned
<1>11. ASSUME NEW p \in Proc, NEW f \in Payload, InstallRemove(p, f)
      PROVE  Relied'
  BY <1>11 DEF InstallRemove, Rm, Mv
<1>12. ASSUME NEW p \in Proc, NEW f \in Payload, InstallRename(p, f)
      PROVE  Relied'
  BY <1>12 DEF InstallRename, Mv, After
<1>13. ASSUME NEW p \in Proc, RemoveMeta(p)
      PROVE  Relied'
  BY <1>13 DEF RemoveMeta
<1>14. ASSUME NEW p \in Proc, RenameMeta(p)
      PROVE  Relied'
  BY <1>14 DEF RenameMeta, Succeed, Leave, Cleaned
<1>15. ASSUME NEW p \in Proc, IoError(p)
      PROVE  Relied'
  BY <1>15 DEF IoError, Abort, Leave, Cleaned, Hit
<1>16. ASSUME NEW p \in Proc, Crash(p)
      PROVE  Relied'
  BY <1>16 DEF Crash, Leave
<1>17. CASE Clear
  BY <1>17 DEF Clear, Hit
<1>18. CASE Publish
  BY <1>18 DEF Publish, Hit
<1>19. CASE NewBinary
  BY <1>19 DEF NewBinary
<1>20. CASE UNCHANGED vars
  BY <1>20 DEF vars
<1>21. ASSUME NEW p \in Proc, OpenMeta(p)
      PROVE  Relied'
  BY <1>21 DEF OpenMeta
<1>22. ASSUME NEW p \in Proc, WriteMeta(p)
      PROVE  Relied'
  BY <1>22 DEF WriteMeta
<1> HIDE DEF TypeOK, Goto, Payload, Meets, Active, Relied, Ours, RecordsAgree, CacheValid,
   TarMatches, Sought, Installed, Content
<1> QED
  BY <1>1, <1>2, <1>3, <1>4, <1>5, <1>6, <1>7, <1>8, <1>9, <1>10, <1>11, <1>12, <1>13,
     <1>14, <1>15, <1>16, <1>17, <1>18, <1>19, <1>20, <1>21, <1>22 DEF Next

LEMMA RemovedStep ==
  ASSUME TypeOK, Meets, Removed, [Next]_vars
  PROVE  Removed'
<1> USE ImageAssumption DEF TypeOK, Goto, Payload, Meets, Active, Removed, Mv
<1>1. ASSUME NEW p \in Proc, NEW r \in BOOLEAN, Ensure(p, r)
      PROVE  Removed'
  BY <1>1 DEF Ensure
<1>2. ASSUME NEW p \in Proc, VerifyRecords(p)
      PROVE  Removed'
  BY <1>2 DEF VerifyRecords
<1>3. ASSUME NEW p \in Proc, VerifyTar(p)
      PROVE  Removed'
  BY <1>3 DEF VerifyTar, Succeed, Leave, Cleaned
<1>4. ASSUME NEW p \in Proc, FetchSum(p)
      PROVE  Removed'
  BY <1>4 DEF FetchSum, Fetch, Hit
<1>5. ASSUME NEW p \in Proc, FetchSig(p)
      PROVE  Removed'
  BY <1>5 DEF FetchSig, Fetch, Hit
<1>6. ASSUME NEW p \in Proc, CheckSig(p)
      PROVE  Removed'
  BY <1>6 DEF CheckSig, Succeed, Leave, Cleaned
<1>7. ASSUME NEW p \in Proc, OpenTar(p)
      PROVE  Removed'
  BY <1>7 DEF OpenTar
<1>8. ASSUME NEW p \in Proc, BodyTar(p)
      PROVE  Removed'
  BY <1>8 DEF BodyTar, Hit
<1>9. ASSUME NEW p \in Proc, CheckTar(p)
      PROVE  Removed'
  BY <1>9 DEF CheckTar
<1>10. ASSUME NEW p \in Proc, Reject(p)
      PROVE  Removed'
  BY <1>10 DEF Reject, Abort, Leave, Cleaned
<1>11. ASSUME NEW p \in Proc, NEW f \in Payload, InstallRemove(p, f)
      PROVE  Removed'
  BY <1>11 DEF InstallRemove, Rm, Mv
<1>12. ASSUME NEW p \in Proc, NEW f \in Payload, InstallRename(p, f)
      PROVE  Removed'
  BY <1>12 DEF InstallRename, Mv, After
<1>13. ASSUME NEW p \in Proc, RemoveMeta(p)
      PROVE  Removed'
  BY <1>13 DEF RemoveMeta
<1>14. ASSUME NEW p \in Proc, RenameMeta(p)
      PROVE  Removed'
  BY <1>14 DEF RenameMeta, Succeed, Leave, Cleaned
<1>15. ASSUME NEW p \in Proc, IoError(p)
      PROVE  Removed'
  BY <1>15 DEF IoError, Abort, Leave, Cleaned, Hit
<1>16. ASSUME NEW p \in Proc, Crash(p)
      PROVE  Removed'
  BY <1>16 DEF Crash, Leave
<1>17. CASE Clear
  BY <1>17 DEF Clear, Hit
<1>18. CASE Publish
  BY <1>18 DEF Publish, Hit
<1>19. CASE NewBinary
  BY <1>19 DEF NewBinary
<1>20. CASE UNCHANGED vars
  BY <1>20 DEF vars
<1>21. ASSUME NEW p \in Proc, OpenMeta(p)
      PROVE  Removed'
  BY <1>21 DEF OpenMeta
<1>22. ASSUME NEW p \in Proc, WriteMeta(p)
      PROVE  Removed'
  BY <1>22 DEF WriteMeta
<1> QED
  BY <1>1, <1>2, <1>3, <1>4, <1>5, <1>6, <1>7, <1>8, <1>9, <1>10, <1>11, <1>12, <1>13,
     <1>14, <1>15, <1>16, <1>17, <1>18, <1>19, <1>20, <1>21, <1>22 DEF Next

LEMMA DownloadedStep ==
  ASSUME TypeOK, Meets, Downloaded, [Next]_vars
  PROVE  Downloaded'
<1> USE ImageAssumption DEF TypeOK, Goto, Payload, Meets, Active, Downloaded
<1>1. ASSUME NEW p \in Proc, NEW r \in BOOLEAN, Ensure(p, r)
      PROVE  Downloaded'
  BY <1>1, RemoteStays DEF Ensure
<1>2. ASSUME NEW p \in Proc, VerifyRecords(p)
      PROVE  Downloaded'
  BY <1>2, RemoteStays DEF VerifyRecords
<1>3. ASSUME NEW p \in Proc, VerifyTar(p)
      PROVE  Downloaded'
  BY <1>3, RemoteStays DEF VerifyTar, Succeed, Leave, Cleaned
<1>4. ASSUME NEW p \in Proc, FetchSum(p)
      PROVE  Downloaded'
  <2>1. PICK c \in {Remote, Torn} :
          /\ part' = [part EXCEPT !["sum"] = c]
          /\ Hit(IF c = Torn THEN {p} ELSE {})
    BY <1>4 DEF Fetch, FetchSum
  <2>2. Remote' = Remote /\ UNCHANGED met
    BY <1>4, RemoteStays DEF Fetch, FetchSum
  <2>3. ASSUME NEW q \in Proc \ met, ~hit'[q]
        PROVE  /\ pc'[q] \in {"fetchSig", "checkSig", "openTar", "body", "check"}
                    => part'["sum"] = Remote
               /\ pc'[q] = "checkSig" => part'["sig"] = Remote
               /\ pc'[q] = "check" => part'["tar"] = Remote
    <3>1. CASE q = p
      <4>1. c = Remote
        BY <2>1, <2>3, <3>1 DEF Hit
      <4> QED
        BY <1>4, <2>1, <2>3, <3>1, <4>1 DEF Fetch, FetchSum, Hit
    <3>2. CASE q # p
      BY <1>4, <2>1, <2>3, <3>2 DEF Fetch, FetchSum, Hit
    <3> QED
      BY <3>1, <3>2
  <2> QED
    BY <2>2, <2>3
<1>5. ASSUME NEW p \in Proc, FetchSig(p)
      PROVE  Downloaded'
  <2>1. PICK c \in {Remote, Torn} :
          /\ part' = [part EXCEPT !["sig"] = c]
          /\ Hit(IF c = Torn THEN {p} ELSE {})
    BY <1>5 DEF Fetch, FetchSig
  <2>2. Remote' = Remote /\ UNCHANGED met
    BY <1>5, RemoteStays DEF Fetch, FetchSig
  <2>3. ASSUME NEW q \in Proc \ met, ~hit'[q]
        PROVE  /\ pc'[q] \in {"fetchSig", "checkSig", "openTar", "body", "check"}
                    => part'["sum"] = Remote
               /\ pc'[q] = "checkSig" => part'["sig"] = Remote
               /\ pc'[q] = "check" => part'["tar"] = Remote
    <3>1. CASE q = p
      <4>1. c = Remote
        BY <2>1, <2>3, <3>1 DEF Hit
      <4> QED
        BY <1>5, <2>1, <2>3, <3>1, <4>1 DEF Fetch, FetchSig, Hit
    <3>2. CASE q # p
      BY <1>5, <2>1, <2>3, <3>2 DEF Fetch, FetchSig, Hit
    <3> QED
      BY <3>1, <3>2
  <2> QED
    BY <2>2, <2>3
<1>6. ASSUME NEW p \in Proc, CheckSig(p)
      PROVE  Downloaded'
  BY <1>6, RemoteStays DEF CheckSig, Succeed, Leave, Cleaned
<1>7. ASSUME NEW p \in Proc, OpenTar(p)
      PROVE  Downloaded'
  BY <1>7, RemoteStays DEF OpenTar
<1>8. ASSUME NEW p \in Proc, BodyTar(p)
      PROVE  Downloaded'
  <2>1. PICK c \in {Remote, Torn} :
          /\ part' = [part EXCEPT !["tar"] = c]
          /\ Hit(IF c = Torn THEN {p} ELSE {})
    BY <1>8 DEF BodyTar
  <2>2. Remote' = Remote /\ UNCHANGED met
    BY <1>8, RemoteStays DEF BodyTar
  <2>3. ASSUME NEW q \in Proc \ met, ~hit'[q]
        PROVE  /\ pc'[q] \in {"fetchSig", "checkSig", "openTar", "body", "check"}
                    => part'["sum"] = Remote
               /\ pc'[q] = "checkSig" => part'["sig"] = Remote
               /\ pc'[q] = "check" => part'["tar"] = Remote
    <3>1. CASE q = p
      <4>1. c = Remote
        BY <2>1, <2>3, <3>1 DEF Hit
      <4> QED
        BY <1>8, <2>1, <2>3, <3>1, <4>1 DEF BodyTar, Hit
    <3>2. CASE q # p
      BY <1>8, <2>1, <2>3, <3>2 DEF BodyTar, Hit
    <3> QED
      BY <3>1, <3>2
  <2> QED
    BY <2>2, <2>3
<1>9. ASSUME NEW p \in Proc, CheckTar(p)
      PROVE  Downloaded'
  BY <1>9, RemoteStays DEF CheckTar
<1>10. ASSUME NEW p \in Proc, Reject(p)
      PROVE  Downloaded'
  BY <1>10, RemoteStays DEF Reject, Abort, Leave, Cleaned
<1>11. ASSUME NEW p \in Proc, NEW f \in Payload, InstallRemove(p, f)
      PROVE  Downloaded'
  BY <1>11, RemoteStays DEF InstallRemove, Rm, Mv
<1>12. ASSUME NEW p \in Proc, NEW f \in Payload, InstallRename(p, f)
      PROVE  Downloaded'
  BY <1>12, RemoteStays DEF InstallRename, Mv, After
<1>13. ASSUME NEW p \in Proc, RemoveMeta(p)
      PROVE  Downloaded'
  BY <1>13, RemoteStays DEF RemoveMeta
<1>14. ASSUME NEW p \in Proc, RenameMeta(p)
      PROVE  Downloaded'
  BY <1>14, RemoteStays DEF RenameMeta, Succeed, Leave, Cleaned
<1>15. ASSUME NEW p \in Proc, IoError(p)
      PROVE  Downloaded'
  BY <1>15, RemoteStays DEF IoError, Abort, Leave, Cleaned, Hit
<1>16. ASSUME NEW p \in Proc, Crash(p)
      PROVE  Downloaded'
  BY <1>16, RemoteStays DEF Crash, Leave
<1>17. CASE Clear
  BY <1>17, RemoteStays DEF Clear, Hit
<1>18. CASE Publish
  BY <1>18 DEF Publish, Hit
<1>19. CASE NewBinary
  BY <1>19 DEF NewBinary
<1>20. CASE UNCHANGED vars
  BY <1>20, RemoteStays DEF vars
<1>21. ASSUME NEW p \in Proc, OpenMeta(p)
      PROVE  Downloaded'
  BY <1>21 DEF OpenMeta
<1>22. ASSUME NEW p \in Proc, WriteMeta(p)
      PROVE  Downloaded'
  BY <1>22 DEF WriteMeta
<1> QED
  BY <1>1, <1>2, <1>3, <1>4, <1>5, <1>6, <1>7, <1>8, <1>9, <1>10, <1>11, <1>12, <1>13,
     <1>14, <1>15, <1>16, <1>17, <1>18, <1>19, <1>20, <1>21, <1>22 DEF Next

LEMMA VerifiedStep ==
  ASSUME IInv, [Next]_vars
  PROVE  ReturnsVerified'
<1> USE ImageAssumption DEF TypeOK, Goto, Payload, IInv, Relied, ReturnsVerified,
   AnswersHonest, Genuine, Published, Ours, RecordsAgree, CacheValid, TarMatches,
   Sought, Installed, Content, Active
<1>1. ASSUME NEW p \in Proc, NEW r \in BOOLEAN, Ensure(p, r)
      PROVE  ReturnsVerified'
  BY <1>1 DEF Ensure
<1>2. ASSUME NEW p \in Proc, VerifyRecords(p)
      PROVE  ReturnsVerified'
  BY <1>2 DEF VerifyRecords
<1>3. ASSUME NEW p \in Proc, VerifyTar(p)
      PROVE  ReturnsVerified'
  BY <1>3 DEF VerifyTar, Succeed, Leave, Cleaned
<1>4. ASSUME NEW p \in Proc, FetchSum(p)
      PROVE  ReturnsVerified'
  BY <1>4 DEF FetchSum, Fetch, Hit
<1>5. ASSUME NEW p \in Proc, FetchSig(p)
      PROVE  ReturnsVerified'
  BY <1>5 DEF FetchSig, Fetch, Hit
<1>6. ASSUME NEW p \in Proc, CheckSig(p)
      PROVE  ReturnsVerified'
  BY <1>6 DEF CheckSig, Succeed, Leave, Cleaned
<1>7. ASSUME NEW p \in Proc, OpenTar(p)
      PROVE  ReturnsVerified'
  BY <1>7 DEF OpenTar
<1>8. ASSUME NEW p \in Proc, BodyTar(p)
      PROVE  ReturnsVerified'
  BY <1>8 DEF BodyTar, Hit
<1>9. ASSUME NEW p \in Proc, CheckTar(p)
      PROVE  ReturnsVerified'
  BY <1>9 DEF CheckTar
<1>10. ASSUME NEW p \in Proc, Reject(p)
      PROVE  ReturnsVerified'
  BY <1>10 DEF Reject, Abort, Leave, Cleaned
<1>11. ASSUME NEW p \in Proc, NEW f \in Payload, InstallRemove(p, f)
      PROVE  ReturnsVerified'
  BY <1>11 DEF InstallRemove, Rm, Mv
<1>12. ASSUME NEW p \in Proc, NEW f \in Payload, InstallRename(p, f)
      PROVE  ReturnsVerified'
  BY <1>12 DEF InstallRename, Mv, After
<1>13. ASSUME NEW p \in Proc, RemoveMeta(p)
      PROVE  ReturnsVerified'
  BY <1>13 DEF RemoveMeta
<1>14. ASSUME NEW p \in Proc, RenameMeta(p)
      PROVE  ReturnsVerified'
  BY <1>14 DEF RenameMeta, Succeed, Leave, Cleaned
<1>15. ASSUME NEW p \in Proc, IoError(p)
      PROVE  ReturnsVerified'
  BY <1>15 DEF IoError, Abort, Leave, Cleaned, Hit
<1>16. ASSUME NEW p \in Proc, Crash(p)
      PROVE  ReturnsVerified'
  BY <1>16 DEF Crash, Leave
<1>17. CASE Clear
  BY <1>17 DEF Clear, Hit
<1>18. CASE Publish
  BY <1>18, BuildParts DEF Publish, Hit
<1>19. CASE NewBinary
  BY <1>19 DEF NewBinary
<1>20. CASE UNCHANGED vars
  BY <1>20 DEF vars
<1>21. ASSUME NEW p \in Proc, OpenMeta(p)
      PROVE  ReturnsVerified'
  BY <1>21 DEF OpenMeta
<1>22. ASSUME NEW p \in Proc, WriteMeta(p)
      PROVE  ReturnsVerified'
  BY <1>22 DEF WriteMeta
<1> QED
  BY <1>1, <1>2, <1>3, <1>4, <1>5, <1>6, <1>7, <1>8, <1>9, <1>10, <1>11, <1>12, <1>13,
     <1>14, <1>15, <1>16, <1>17, <1>18, <1>19, <1>20, <1>21, <1>22 DEF Next

LEMMA PendingStep ==
  ASSUME TypeOK, Pending, [Next]_vars
  PROVE  Pending'
<1> USE ImageAssumption DEF TypeOK, Goto, Payload, Pending, Active, Sought, Installed
<1>1. ASSUME NEW p \in Proc, NEW r \in BOOLEAN, Ensure(p, r)
      PROVE  Pending'
  BY <1>1 DEF Ensure
<1>2. ASSUME NEW p \in Proc, VerifyRecords(p)
      PROVE  Pending'
  BY <1>2 DEF VerifyRecords
<1>3. ASSUME NEW p \in Proc, VerifyTar(p)
      PROVE  Pending'
  BY <1>3 DEF VerifyTar, Succeed, Leave, Cleaned
<1>4. ASSUME NEW p \in Proc, FetchSum(p)
      PROVE  Pending'
  BY <1>4 DEF FetchSum, Fetch, Hit
<1>5. ASSUME NEW p \in Proc, FetchSig(p)
      PROVE  Pending'
  BY <1>5 DEF FetchSig, Fetch, Hit
<1>6. ASSUME NEW p \in Proc, CheckSig(p)
      PROVE  Pending'
  BY <1>6 DEF CheckSig, Succeed, Leave, Cleaned
<1>7. ASSUME NEW p \in Proc, OpenTar(p)
      PROVE  Pending'
  BY <1>7 DEF OpenTar
<1>8. ASSUME NEW p \in Proc, BodyTar(p)
      PROVE  Pending'
  BY <1>8 DEF BodyTar, Hit
<1>9. ASSUME NEW p \in Proc, CheckTar(p)
      PROVE  Pending'
  BY <1>9 DEF CheckTar
<1>10. ASSUME NEW p \in Proc, Reject(p)
      PROVE  Pending'
  BY <1>10 DEF Reject, Abort, Leave, Cleaned
<1>11. ASSUME NEW p \in Proc, NEW f \in Payload, InstallRemove(p, f)
      PROVE  Pending'
  BY <1>11 DEF InstallRemove, Rm, Mv
<1>12. ASSUME NEW p \in Proc, NEW f \in Payload, InstallRename(p, f)
      PROVE  Pending'
  BY <1>12 DEF InstallRename, Mv, After
<1>13. ASSUME NEW p \in Proc, RemoveMeta(p)
      PROVE  Pending'
  BY <1>13 DEF RemoveMeta
<1>14. ASSUME NEW p \in Proc, RenameMeta(p)
      PROVE  Pending'
  BY <1>14 DEF RenameMeta, Succeed, Leave, Cleaned
<1>15. ASSUME NEW p \in Proc, IoError(p)
      PROVE  Pending'
  BY <1>15 DEF IoError, Abort, Leave, Cleaned, Hit
<1>16. ASSUME NEW p \in Proc, Crash(p)
      PROVE  Pending'
  BY <1>16 DEF Crash, Leave
<1>17. CASE Clear
  BY <1>17 DEF Clear, Hit
<1>18. CASE Publish
  BY <1>18 DEF Publish, Hit
<1>19. CASE NewBinary
  BY <1>19 DEF NewBinary
<1>20. CASE UNCHANGED vars
  BY <1>20 DEF vars
<1>21. ASSUME NEW p \in Proc, OpenMeta(p)
      PROVE  Pending'
  BY <1>21 DEF OpenMeta
<1>22. ASSUME NEW p \in Proc, WriteMeta(p)
      PROVE  Pending'
  BY <1>22 DEF WriteMeta
<1> QED
  BY <1>1, <1>2, <1>3, <1>4, <1>5, <1>6, <1>7, <1>8, <1>9, <1>10, <1>11, <1>12, <1>13,
     <1>14, <1>15, <1>16, <1>17, <1>18, <1>19, <1>20, <1>21, <1>22 DEF Next

LEMMA FailsStep ==
  ASSUME IInv, [Next]_vars
  PROVE  FailsOnlyWhenHit'
<1> USE ImageAssumption DEF TypeOK, Goto, Payload, IInv, FailsOnlyWhenHit,
   AnswersHonest, Downloaded, TarMatches, Active, Pending
<1>1. ASSUME NEW p \in Proc, NEW r \in BOOLEAN, Ensure(p, r)
      PROVE  FailsOnlyWhenHit'
  BY <1>1 DEF Ensure
<1>2. ASSUME NEW p \in Proc, VerifyRecords(p)
      PROVE  FailsOnlyWhenHit'
  BY <1>2 DEF VerifyRecords
<1>3. ASSUME NEW p \in Proc, VerifyTar(p)
      PROVE  FailsOnlyWhenHit'
  BY <1>3 DEF VerifyTar, Succeed, Leave, Cleaned
<1>4. ASSUME NEW p \in Proc, FetchSum(p)
      PROVE  FailsOnlyWhenHit'
  BY <1>4 DEF FetchSum, Fetch, Hit
<1>5. ASSUME NEW p \in Proc, FetchSig(p)
      PROVE  FailsOnlyWhenHit'
  BY <1>5 DEF FetchSig, Fetch, Hit
<1>6. ASSUME NEW p \in Proc, CheckSig(p)
      PROVE  FailsOnlyWhenHit'
  BY <1>6 DEF CheckSig, Succeed, Leave, Cleaned
<1>7. ASSUME NEW p \in Proc, OpenTar(p)
      PROVE  FailsOnlyWhenHit'
  BY <1>7 DEF OpenTar
<1>8. ASSUME NEW p \in Proc, BodyTar(p)
      PROVE  FailsOnlyWhenHit'
  BY <1>8 DEF BodyTar, Hit
<1>9. ASSUME NEW p \in Proc, CheckTar(p)
      PROVE  FailsOnlyWhenHit'
  BY <1>9 DEF CheckTar
<1>10. ASSUME NEW p \in Proc, Reject(p)
      PROVE  FailsOnlyWhenHit'
  BY <1>10, RemoteIsOurs DEF Reject, Abort, Leave, Cleaned
<1>11. ASSUME NEW p \in Proc, NEW f \in Payload, InstallRemove(p, f)
      PROVE  FailsOnlyWhenHit'
  BY <1>11 DEF InstallRemove, Rm, Mv
<1>12. ASSUME NEW p \in Proc, NEW f \in Payload, InstallRename(p, f)
      PROVE  FailsOnlyWhenHit'
  BY <1>12 DEF InstallRename, Mv, After
<1>13. ASSUME NEW p \in Proc, RemoveMeta(p)
      PROVE  FailsOnlyWhenHit'
  BY <1>13 DEF RemoveMeta
<1>14. ASSUME NEW p \in Proc, RenameMeta(p)
      PROVE  FailsOnlyWhenHit'
  BY <1>14 DEF RenameMeta, Succeed, Leave, Cleaned
<1>15. ASSUME NEW p \in Proc, IoError(p)
      PROVE  FailsOnlyWhenHit'
  BY <1>15 DEF IoError, Abort, Leave, Cleaned, Hit
<1>16. ASSUME NEW p \in Proc, Crash(p)
      PROVE  FailsOnlyWhenHit'
  BY <1>16 DEF Crash, Leave
<1>17. CASE Clear
  BY <1>17 DEF Clear, Hit
<1>18. CASE Publish
  BY <1>18 DEF Publish, Hit
<1>19. CASE NewBinary
  BY <1>19 DEF NewBinary
<1>20. CASE UNCHANGED vars
  BY <1>20 DEF vars
<1>21. ASSUME NEW p \in Proc, OpenMeta(p)
      PROVE  FailsOnlyWhenHit'
  BY <1>21 DEF OpenMeta
<1>22. ASSUME NEW p \in Proc, WriteMeta(p)
      PROVE  FailsOnlyWhenHit'
  BY <1>22 DEF WriteMeta
<1> QED
  BY <1>1, <1>2, <1>3, <1>4, <1>5, <1>6, <1>7, <1>8, <1>9, <1>10, <1>11, <1>12, <1>13,
     <1>14, <1>15, <1>16, <1>17, <1>18, <1>19, <1>20, <1>21, <1>22 DEF Next

\* What the steps of a program leave alone, the test of the cache does not see.
LEMMA SameCache ==
  ASSUME UNCHANGED <<disk, tag>>
  PROVE  CacheValid' = CacheValid
BY DEF CacheValid, RecordsAgree, TarMatches

LEMMA KeepsStep ==
  ASSUME TypeOK, Relied, Removed, [Next]_vars
  PROVE  CacheValid /\ ~CacheValid' /\ tag' = tag => GivenUp
<1> USE ImageAssumption DEF TypeOK, Goto, Payload
<1>1. ASSUME NEW p \in Proc, NEW r \in BOOLEAN, Ensure(p, r)
      PROVE  CacheValid /\ ~CacheValid' /\ tag' = tag => GivenUp
  BY <1>1, SameCache DEF Ensure
<1>2. ASSUME NEW p \in Proc, VerifyRecords(p)
      PROVE  CacheValid /\ ~CacheValid' /\ tag' = tag => GivenUp
  BY <1>2, SameCache DEF VerifyRecords
<1>3. ASSUME NEW p \in Proc, VerifyTar(p)
      PROVE  CacheValid /\ ~CacheValid' /\ tag' = tag => GivenUp
  BY <1>3, SameCache DEF VerifyTar, Succeed, Leave, Cleaned
<1>4. ASSUME NEW p \in Proc, FetchSum(p)
      PROVE  CacheValid /\ ~CacheValid' /\ tag' = tag => GivenUp
  BY <1>4, SameCache DEF FetchSum, Fetch, Hit
<1>5. ASSUME NEW p \in Proc, FetchSig(p)
      PROVE  CacheValid /\ ~CacheValid' /\ tag' = tag => GivenUp
  BY <1>5, SameCache DEF FetchSig, Fetch, Hit
<1>6. ASSUME NEW p \in Proc, CheckSig(p)
      PROVE  CacheValid /\ ~CacheValid' /\ tag' = tag => GivenUp
  BY <1>6, SameCache DEF CheckSig, Succeed, Leave, Cleaned
<1>7. ASSUME NEW p \in Proc, OpenTar(p)
      PROVE  CacheValid /\ ~CacheValid' /\ tag' = tag => GivenUp
  BY <1>7, SameCache DEF OpenTar
<1>8. ASSUME NEW p \in Proc, BodyTar(p)
      PROVE  CacheValid /\ ~CacheValid' /\ tag' = tag => GivenUp
  BY <1>8, SameCache DEF BodyTar, Hit
<1>9. ASSUME NEW p \in Proc, CheckTar(p)
      PROVE  CacheValid /\ ~CacheValid' /\ tag' = tag => GivenUp
  BY <1>9, SameCache DEF CheckTar
<1>10. ASSUME NEW p \in Proc, Reject(p)
      PROVE  CacheValid /\ ~CacheValid' /\ tag' = tag => GivenUp
  BY <1>10, SameCache DEF Reject, Abort, Leave, Cleaned
<1>11. ASSUME NEW p \in Proc, NEW f \in Payload, InstallRemove(p, f)
      PROVE  CacheValid /\ ~CacheValid' /\ tag' = tag => GivenUp
  <2>1. CASE p \in met
    BY <1>11, <2>1 DEF InstallRemove, Rm, Mv, GivenUp
  <2>2. CASE p \notin met /\ f = "tar"
    <3>1. TarMatches(part["tar"], part["sum"])
      BY <1>11, <2>2 DEF InstallRemove, Rm, Relied, Sought, Ours, TarMatches
    <3> QED
      BY <1>11, <2>2, <3>1 DEF InstallRemove, Rm, GivenUp
  <2>3. CASE f \in {"sum", "sig"}
    BY <1>11, <2>3 DEF InstallRemove, Rm, GivenUp
  <2> QED
    BY <2>1, <2>2, <2>3
<1>12. ASSUME NEW p \in Proc, NEW f \in Payload, InstallRename(p, f)
      PROVE  CacheValid /\ ~CacheValid' /\ tag' = tag => GivenUp
  <2>1. CASE p \in met
    BY <1>12, <2>1 DEF InstallRename, Mv, After, GivenUp
  <2>2. CASE p \notin met
    <3>1. disk[f] = Absent
      BY <1>12, <2>2 DEF InstallRename, Removed
    <3> QED
      BY <3>1 DEF CacheValid, RecordsAgree, TarMatches
  <2> QED
    BY <2>1, <2>2
<1>13. ASSUME NEW p \in Proc, RemoveMeta(p)
      PROVE  CacheValid /\ ~CacheValid' /\ tag' = tag => GivenUp
  BY <1>13 DEF RemoveMeta, GivenUp
<1>14. ASSUME NEW p \in Proc, RenameMeta(p)
      PROVE  CacheValid /\ ~CacheValid' /\ tag' = tag => GivenUp
  <2>1. CASE p \in met
    BY <1>14, <2>1 DEF RenameMeta, Succeed, Leave, GivenUp
  <2>2. CASE p \notin met
    <3>1. disk["meta"] = Absent
      BY <1>14, <2>2 DEF RenameMeta, Removed
    <3> QED
      BY <3>1, RecordsName, ImageAssumption DEF CacheValid
  <2> QED
    BY <2>1, <2>2
<1>15. ASSUME NEW p \in Proc, IoError(p)
      PROVE  CacheValid /\ ~CacheValid' /\ tag' = tag => GivenUp
  BY <1>15, SameCache DEF IoError, Abort, Leave, Cleaned, Hit
<1>16. ASSUME NEW p \in Proc, Crash(p)
      PROVE  CacheValid /\ ~CacheValid' /\ tag' = tag => GivenUp
  BY <1>16, SameCache DEF Crash, Leave
<1>17. CASE Clear
  BY <1>17 DEF Clear, Hit, GivenUp
<1>18. CASE Publish
  BY <1>18, SameCache DEF Publish, Hit
<1>19. CASE NewBinary
  BY <1>19 DEF NewBinary, Tags
<1>20. CASE UNCHANGED vars
  BY <1>20, SameCache DEF vars
<1>21. ASSUME NEW p \in Proc, OpenMeta(p)
      PROVE  CacheValid /\ ~CacheValid' /\ tag' = tag => GivenUp
  BY <1>21, SameCache DEF OpenMeta
<1>22. ASSUME NEW p \in Proc, WriteMeta(p)
      PROVE  CacheValid /\ ~CacheValid' /\ tag' = tag => GivenUp
  BY <1>22, SameCache DEF WriteMeta
<1> QED
  BY <1>1, <1>2, <1>3, <1>4, <1>5, <1>6, <1>7, <1>8, <1>9, <1>10, <1>11, <1>12, <1>13,
     <1>14, <1>15, <1>16, <1>17, <1>18, <1>19, <1>20, <1>21, <1>22 DEF Next

-----------------------------------------------------------------------------
\* The refinement.

LEMMA MovesStep ==
  ASSUME TypeOK, Pending, [Next]_vars
  PROVE  Moves
<1> USE ImageAssumption DEF TypeOK, Goto, Payload, Content, Moves
<1>1. ASSUME NEW p \in Proc, NEW r \in BOOLEAN, Ensure(p, r)
      PROVE  Moves
  BY <1>1 DEF Ensure
<1>2. ASSUME NEW p \in Proc, VerifyRecords(p)
      PROVE  Moves
  BY <1>2 DEF VerifyRecords
<1>3. ASSUME NEW p \in Proc, VerifyTar(p)
      PROVE  Moves
  BY <1>3 DEF VerifyTar, Succeed, Leave, Cleaned
<1>4. ASSUME NEW p \in Proc, FetchSum(p)
      PROVE  Moves
  BY <1>4 DEF FetchSum, Fetch, Hit
<1>5. ASSUME NEW p \in Proc, FetchSig(p)
      PROVE  Moves
  BY <1>5 DEF FetchSig, Fetch, Hit
<1>6. ASSUME NEW p \in Proc, CheckSig(p)
      PROVE  Moves
  BY <1>6 DEF CheckSig, Succeed, Leave, Cleaned
<1>7. ASSUME NEW p \in Proc, OpenTar(p)
      PROVE  Moves
  BY <1>7 DEF OpenTar
<1>8. ASSUME NEW p \in Proc, BodyTar(p)
      PROVE  Moves
  BY <1>8 DEF BodyTar, Hit
<1>9. ASSUME NEW p \in Proc, CheckTar(p)
      PROVE  Moves
  BY <1>9 DEF CheckTar
<1>10. ASSUME NEW p \in Proc, Reject(p)
      PROVE  Moves
  BY <1>10 DEF Reject, Abort, Leave, Cleaned
<1>11. ASSUME NEW p \in Proc, NEW f \in Payload, InstallRemove(p, f)
      PROVE  Moves
  BY <1>11 DEF InstallRemove, Rm, Mv
<1>12. ASSUME NEW p \in Proc, NEW f \in Payload, InstallRename(p, f)
      PROVE  Moves
  BY <1>12 DEF InstallRename, Mv, After
<1>13. ASSUME NEW p \in Proc, RemoveMeta(p)
      PROVE  Moves
  BY <1>13 DEF RemoveMeta
<1>14. ASSUME NEW p \in Proc, RenameMeta(p)
      PROVE  Moves
  BY <1>14 DEF RenameMeta, Succeed
<1>15. ASSUME NEW p \in Proc, IoError(p)
      PROVE  Moves
  BY <1>15 DEF IoError, Abort, Leave, Cleaned, Hit
<1>16. ASSUME NEW p \in Proc, Crash(p)
      PROVE  Moves
  BY <1>16 DEF Crash, Leave
<1>17. CASE Clear
  BY <1>17 DEF Clear, Hit
<1>18. CASE Publish
  BY <1>18 DEF Moves
<1>19. CASE NewBinary
  BY <1>19 DEF Moves
<1>20. CASE UNCHANGED vars
  BY <1>20 DEF vars
<1>21. ASSUME NEW p \in Proc, OpenMeta(p)
      PROVE  Moves
  BY <1>21 DEF OpenMeta
<1>22. ASSUME NEW p \in Proc, WriteMeta(p)
      PROVE  Moves
  BY <1>22 DEF WriteMeta
<1> QED
  BY <1>1, <1>2, <1>3, <1>4, <1>5, <1>6, <1>7, <1>8, <1>9, <1>10, <1>11, <1>12, <1>13,
     <1>14, <1>15, <1>16, <1>17, <1>18, <1>19, <1>20, <1>21, <1>22 DEF Next

\* What verifyCache accepts is a published build of the tag.
LEMMA EntryKnown ==
  ASSUME TypeOK, Genuine, CacheValid
  PROVE  \E r \in 1..latest[tag] : disk["tar"] = <<tag, r>>
<1>1. disk["tar"] = disk["meta"] /\ disk["meta"] \in {tag} \X (1..MaxRev)
  BY DEF CacheValid, RecordsAgree, TarMatches
<1>2. PICK r \in 1..MaxRev : disk["tar"] = <<tag, r>>
  BY <1>1
<1>3. tag \in Tags /\ latest[tag] \in 1..MaxRev
  BY DEF TypeOK
<1>4. disk["tar"] \in Build /\ disk["tar"][1] = tag /\ disk["tar"][2] = r
  BY <1>2, <1>3 DEF Build
<1>5. Published(disk["tar"])
  BY DEF Genuine, Payload
<1>6. r <= latest[tag]
  BY <1>4, <1>5 DEF Published
<1> QED
  BY <1>2, <1>3, <1>6, ImageAssumption

\* One file that changes fills the entry, drops it, or leaves it.
LEMMA OneFile ==
  ASSUME TypeOK, TypeOK', Genuine', UNCHANGED <<latest, tag>>,
         NEW g \in Payload \cup {"meta"}, NEW x \in Content,
         disk' = [disk EXCEPT ![g] = x]
  PROVE  [Store!Next]_<<IF CacheValid THEN disk["tar"] ELSE None, latest, tag>>
<1>1. CASE CacheValid /\ CacheValid'
  <2>1. disk["tar"] = disk["sum"] /\ disk["sig"] = disk["sum"] /\ disk["meta"] = disk["sum"]
    BY <1>1 DEF CacheValid, RecordsAgree, TarMatches
  <2>2. disk'["tar"] = disk'["sum"] /\ disk'["sig"] = disk'["sum"] /\ disk'["meta"] = disk'["sum"]
    BY <1>1 DEF CacheValid, RecordsAgree, TarMatches
  <2>3. disk'["tar"] = disk["tar"]
    BY <2>1, <2>2 DEF TypeOK, Payload
  <2> QED
    BY <1>1, <2>3
<1>2. CASE CacheValid /\ ~CacheValid'
  BY <1>2 DEF Store!Next, Store!Drop
<1>3. CASE ~CacheValid /\ CacheValid'
  <2>1. (\E r \in 1..latest[tag] : disk["tar"] = <<tag, r>>)'
    BY <1>3, EntryKnown, PTL
  <2> QED
    BY <1>3, <2>1 DEF Store!Next, Store!Fill
<1>4. CASE ~CacheValid /\ ~CacheValid'
  BY <1>4
<1> QED
  BY <1>1, <1>2, <1>3, <1>4

\* Every step of the cache is a step of the abstract store, or a stutter.
LEMMA StoreStep ==
  ASSUME TypeOK, TypeOK', Pending, Genuine, Genuine', [Next]_vars
  PROVE  [Store!Next]_<<IF CacheValid THEN disk["tar"] ELSE None, latest, tag>>
<1>1. CASE UNCHANGED <<disk, latest, tag>>
  BY <1>1, SameCache
<1>2. CASE /\ \E g \in Payload \cup {"meta"} : \E x \in Content : disk' = [disk EXCEPT ![g] = x]
           /\ UNCHANGED <<latest, tag>>
  BY <1>2, OneFile
<1>3. CASE Publish
  <2>1. UNCHANGED <<disk, tag>>
    BY <1>3 DEF Publish
  <2>2. CacheValid' = CacheValid
    BY <2>1, SameCache
  <2>3. \E t \in Tags : latest' = [latest EXCEPT ![t] = @ + 1]
    BY <1>3 DEF Publish
  <2> QED
    BY <2>1, <2>2, <2>3 DEF Store!Next, Store!Publish
<1>4. CASE NewBinary
  <2>1. tag \in Nat /\ tag' = tag + 1 /\ UNCHANGED <<disk, latest>>
    BY <1>4, ImageAssumption DEF NewBinary, TypeOK, Tags
  <2>2. disk["meta"] \in Build => disk["meta"][1] <= tag
    BY DEF Genuine, Published
  <2>3. tag' \in Tags
    BY DEF TypeOK
  <2>4. CacheValid' => disk["meta"] \in Build /\ disk["meta"][1] = tag + 1
    BY <2>1, <2>3 DEF CacheValid, RecordsAgree, Build
  <2>5. ~CacheValid'
    BY <2>1, <2>2, <2>4
  <2> QED
    BY <2>1, <2>5, <2>3 DEF Store!Next, Store!NewBinary
<1> QED
  BY <1>1, <1>2, <1>3, <1>4, MovesStep DEF Moves

-----------------------------------------------------------------------------
LEMMA InitHolds ==
  ASSUME Init
  PROVE  IInv
<1> USE ImageAssumption DEF Init, Payload
<1>1. TypeOK
  BY DEF TypeOK, Content, Tags
<1>2. Pending /\ Meets /\ Relied /\ Removed /\ Downloaded
  BY DEF Pending, Meets, Relied, Removed, Downloaded, Sought, Installed, Mv
<1>3. Genuine
  BY DEF Genuine, Published
<1>4. AnswersHonest
  BY DEF AnswersHonest, ReturnsVerified, FailsOnlyWhenHit
<1> QED
  BY <1>1, <1>2, <1>3, <1>4 DEF IInv

LEMMA NextHolds ==
  ASSUME IInv, [Next]_vars
  PROVE  IInv'
<1>1. TypeOK' /\ Pending' /\ Genuine' /\ Meets' /\ Relied' /\ Removed' /\ Downloaded'
  BY TypeStep, PendingStep, GenuineStep, MeetsStep, ReliedStep, RemovedStep,
     DownloadedStep DEF IInv
<1>2. AnswersHonest'
  BY VerifiedStep, FailsStep DEF AnswersHonest
<1> QED
  BY <1>1, <1>2 DEF IInv

\* The invariant of every reachable state.
LEMMA Inductive == Spec => []IInv
<1>1. Init => IInv
  BY InitHolds
<1>2. IInv /\ [Next]_vars => IInv'
  BY NextHolds
<1> QED
  BY <1>1, <1>2, PTL DEF Spec

\* Every variable of EnsureWithKey, the files and the release keeps its type.
THEOREM TypeCorrect == Spec => []TypeOK
<1>1. IInv => TypeOK
  BY DEF IInv
<1> QED
  BY <1>1, Inductive, PTL

\* A call of Ensure that met no other one returns a whole published build of the
\* binary's own tag, and fails only when something interfered with it.
THEOREM AnswersAreHonest == Spec => []AnswersHonest
<1>1. IInv => AnswersHonest
  BY DEF IInv
<1> QED
  BY <1>1, Inductive, PTL

\* A refresh gives up a good cache only for a verified replacement at hand.
THEOREM KeepsGood == Spec => KeepsGoodCache
<1>1. IInv /\ [Next]_vars =>
        [CacheValid /\ ~CacheValid' /\ tag' = tag =>
           \/ Clear
           \/ \E p \in Proc : pc[p] # pc'[p] /\ p \in met
           \/ \E p \in Proc : pc[p] \in {"rmSum", "rmSig", "rmMeta"}
           \/ \E p \in Proc : pc[p] = "rmTar" /\ TarMatches(part["tar"], part["sum"])]_vars
  BY KeepsStep DEF IInv, GivenUp
<1> QED
  BY <1>1, Inductive, PTL DEF Spec, KeepsGoodCache

\* The four files, seen through verifyCache, are one published build of the current
\* tag or nothing, at every moment.
THEOREM ImplementsStore == Spec => StoreSpec
<1>1. Init => Store!Init
  BY ImageAssumption DEF Init, Store!Init, CacheValid, RecordsAgree, Payload, Tags
<1>2. IInv /\ IInv' /\ [Next]_vars =>
        [Store!Next]_<<IF CacheValid THEN disk["tar"] ELSE None, latest, tag>>
  BY StoreStep DEF IInv
<1> QED
  BY <1>1, <1>2, Inductive, PTL DEF Spec, StoreSpec, Store!Spec
=============================================================================
