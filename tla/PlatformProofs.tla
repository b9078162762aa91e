--------------------------- MODULE PlatformProofs ---------------------------
(***************************************************************************)
(* The packages of the marketplace, the two chats and six services of the  *)
(* platform, for any values of their constants: profiles of models and     *)
(* providers, token quotas, the cache, sandbox sessions, reloads of the    *)
(* configuration and backup jobs.  Each part is on its own, with the       *)
(* inductive invariant it needs.                                           *)
(*                                                                         *)
(* In Packages a call of dfs() that is under way answers for the           *)
(* dependencies it has gone through (Answered): each is met by what was    *)
(* resolved or installed, is what the next call on the path resolves, or   *)
(* is what dfs() is about to be called with.  When the last call ends the  *)
(* first is all that is left, and its release may follow the resolved      *)
(* ones.  A release that is entered is never the version that is           *)
(* installed, because that one would have met the requirement: an update   *)
(* always replaces another version, and the backups list what it replaced. *)
(***************************************************************************)
EXTENDS Packages, BackupJobs, ConfigReload, SandboxSessions, TokenQuotas, FallbackCache,
        ModelProfiles, DocumentChat, ChatHistory, SequenceTheorems, TLAPS

---------------------------------------------------------------------------
(* Packages                                                                *)

Root == [package |-> target.package, versions |-> {target.version}]

Met(d) == MetByResolved(d) \/ MetByInstalled(d)

Matches(r, d) == r.package = d.package /\ r.version \in d.versions

Differs(r) == installed[r.package] # NotInstalled => installed[r.package].version # r.version

Answered(i, d) ==
    \/ Met(d)
    \/ i < Len(path) /\ Matches(path[i + 1].release, d)
    \/ i = Len(path) /\ wanted = d

PathInv ==
    /\ \A i, j \in 1..Len(path) : path[i].release.package = path[j].release.package => i = j
    /\ \A i \in 1..Len(path) : ~IsResolved(path[i].release.package) /\ Differs(path[i].release)
    /\ \A i \in 1..Len(path), d \in Requirement :
          d \in path[i].release.requires \ path[i].left => Answered(i, d)

OrderInv ==
    /\ \A i \in 1..Len(resolved), d \in Requirement :
          d \in resolved[i].requires =>
              (\E j \in 1..(i - 1) : Matches(resolved[j], d)) \/ MetByInstalled(d)
    /\ \A i, j \in 1..Len(resolved) : resolved[i].package = resolved[j].package => i = j
    /\ \A i \in 1..Len(resolved) : Differs(resolved[i])

\* Where a resolution stands with what it was called for.
RootInv ==
    IF target = NoRelease THEN wanted = NoCall /\ path = <<>> /\ resolved = <<>>
    ELSE \/ wanted = Root /\ path = <<>> /\ resolved = <<>>
         \/ path # <<>> /\ Matches(path[1].release, Root)
         \/ /\ path = <<>> /\ wanted = NoCall
            /\ (resolved = <<>> /\ MetByInstalled(Root)) \/ MetByResolved(Root)

BackupInv ==
    \A p \in PackageIds :
        IF installed[p] = NotInstalled THEN replaced[p] = <<>> /\ p \notin cameBack
        ELSE p \notin cameBack =>
                /\ installed[p].backups = replaced[p]
                /\ \A i \in 1..Len(replaced[p]) : replaced[p][i] # installed[p].version
                /\ \A i, j \in 1..Len(replaced[p]) : replaced[p][i] = replaced[p][j] => i = j

PackagesInv == PackagesTypeOK /\ PathInv /\ OrderInv /\ RootInv /\ BackupInv

LEMMA PackagesStart == PackagesInit => PackagesInv
BY PackagesAssumption DEF PackagesInit, PackagesInv, PackagesTypeOK, PathInv, OrderInv, RootInv, BackupInv

LEMMA RequirementIsNoCall ==
    ASSUME NEW r \in Releases
    PROVE  /\ [package |-> r.package, versions |-> {r.version}] \in Requirement
           /\ [package |-> r.package, versions |-> {r.version}] # NoCall
           /\ r # NoRelease
           /\ r.package \in PackageIds /\ r.version \in Versions /\ r.requires \subseteq Requirement
BY PackagesAssumption DEF Requirement

\* A sequence without its last element.
LEMMA ShorterFacts ==
    ASSUME NEW S, NEW s \in Seq(S), s # <<>>
    PROVE  /\ Shorter(s) \in Seq(S) /\ Len(Shorter(s)) = Len(s) - 1
           /\ \A i \in 1..(Len(s) - 1) : Shorter(s)[i] = s[i]
           /\ Len(s) \in Nat \ {0} /\ Len(s) \in 1..Len(s) /\ s[Len(s)] \in S
<1> DEFINE n == Len(s)
           m == n - 1
<1>1. n \in Nat /\ n # 0
  OBVIOUS
<1>2. \A i \in 1..n : s[i] \in S
  OBVIOUS
<1>3. n \in 1..n /\ m \in Int /\ m >= 0 /\ m - 1 + 1 = m /\ 1..m \subseteq 1..n /\ \A i \in 1..m : 1 + i - 1 = i
  <2> HIDE DEF n
  <2> QED BY <1>1
<1>4. \A i \in 1..m : s[i] \in S
  BY <1>2, <1>3
<1> HIDE DEF m
<1>5. /\ SubSeq(s, 1, m) \in Seq(S)
      /\ Len(SubSeq(s, 1, m)) = IF 1 <= m THEN m - 1 + 1 ELSE 0
      /\ \A i \in 1..(m - 1 + 1) : SubSeq(s, 1, m)[i] = s[1 + i - 1]
  BY <1>3, <1>4, SubSeqProperties
<1>6. ~(1 <= m) => m = 0
  BY <1>3
<1>7. Len(SubSeq(s, 1, m)) = m
  BY <1>3, <1>5, <1>6
<1>8. \A i \in 1..m : SubSeq(s, 1, m)[i] = s[i]
  BY <1>3, <1>5
<1>9. Shorter(s) = SubSeq(s, 1, m)
  BY DEF Shorter, m
<1> QED BY <1>1, <1>2, <1>3, <1>5, <1>7, <1>8, <1>9 DEF m
\* A sequence with one element replaced.
LEMMA ReplaceFacts ==
    ASSUME NEW S, NEW s \in Seq(S), NEW i \in 1..Len(s), NEW x \in S
    PROVE  /\ [s EXCEPT ![i] = x] \in Seq(S) /\ Len([s EXCEPT ![i] = x]) = Len(s)
           /\ [s EXCEPT ![i] = x][i] = x
           /\ \A j \in 1..Len(s) : j # i => [s EXCEPT ![i] = x][j] = s[j]
OBVIOUS

\* What the steps of a resolution but LeaveRelease leave alone.
LEMMA ResolutionFrame ==
    ASSUME PackagesInv, UNCHANGED <<installed, resolved, replaced, cameBack>>
    PROVE  /\ OrderInv' /\ BackupInv'
           /\ \A d \in Requirement : Met(d)' = Met(d) /\ MetByInstalled(d)' = MetByInstalled(d)
                                     /\ MetByResolved(d)' = MetByResolved(d)
           /\ \A p \in PackageIds : IsResolved(p)' = IsResolved(p)
           /\ \A r \in Releases : Differs(r)' = Differs(r)
<1>1. \A d \in Requirement : MetByInstalled(d)' = MetByInstalled(d)
                             /\ MetByResolved(d)' = MetByResolved(d)
  BY DEF MetByInstalled, MetByResolved
<1>2. \A p \in PackageIds : IsResolved(p)' = IsResolved(p)
  BY DEF IsResolved
<1>3. \A r \in Releases : Differs(r)' = Differs(r)
  BY DEF Differs
<1>4. BackupInv'
  BY DEF PackagesInv, BackupInv
<1>5. \A i \in 1..Len(resolved) : resolved[i] \in Releases
  BY DEF PackagesInv, PackagesTypeOK
<1>6. OrderInv'
  BY <1>1, <1>3, <1>5 DEF PackagesInv, OrderInv, Matches
<1>7. \A d \in Requirement : Met(d)' = Met(d)
  BY <1>1 DEF Met
<1> QED BY <1>1, <1>2, <1>3, <1>4, <1>6, <1>7

LEMMA RegisterKeeps == ASSUME PackagesInv, NEW r \in Releases, RegisterPackage(r) PROVE PackagesInv'
<1>1. UNCHANGED <<installed, target, wanted, path, resolved, replaced, cameBack>>
  BY DEF RegisterPackage, resolutionVars
<1>2. PackagesTypeOK'
  BY <1>1 DEF RegisterPackage, PackagesInv, PackagesTypeOK
<1>3. PathInv' /\ OrderInv' /\ RootInv' /\ BackupInv'
  BY <1>1 DEF PackagesInv, PathInv, OrderInv, RootInv, BackupInv, Answered, Met, Matches, Differs,
              MetByResolved, MetByInstalled, IsResolved, Root
<1> QED BY <1>2, <1>3 DEF PackagesInv

LEMMA InstallKeeps == ASSUME PackagesInv, NEW r \in Releases, InstallPackage(r) PROVE PackagesInv'
<1> USE DEF InstallPackage
<1>1. /\ path = <<>> /\ path' = <<>> /\ resolved' = <<>> /\ target' = r
      /\ UNCHANGED <<installed, resolved, replaced, cameBack>>
  BY DEF PackagesInv, RootInv
<1>2. PackagesTypeOK'
  BY RequirementIsNoCall DEF PackagesInv, PackagesTypeOK
<1>3. OrderInv' /\ BackupInv'
  BY <1>1, ResolutionFrame
<1>4. PathInv'
  BY <1>1 DEF PathInv
<1>5. RootInv'
  BY <1>1, RequirementIsNoCall DEF RootInv, Root
<1> QED BY <1>2, <1>3, <1>4, <1>5 DEF PackagesInv

LEMMA FailKeeps == ASSUME PackagesInv, ResolutionFails PROVE PackagesInv'
<1>1. /\ path' = <<>> /\ resolved' = <<>> /\ target' = NoRelease /\ wanted' = NoCall
      /\ UNCHANGED <<catalogue, installed, replaced, cameBack>>
  BY DEF ResolutionFails, Abandon
<1>2. PackagesTypeOK'
  BY <1>1 DEF PackagesInv, PackagesTypeOK
<1>3. OrderInv' /\ PathInv' /\ RootInv'
  BY <1>1 DEF OrderInv, PathInv, RootInv
<1>4. BackupInv'
  BY <1>1 DEF PackagesInv, BackupInv
<1> QED BY <1>2, <1>3, <1>4 DEF PackagesInv

\* A call that is about to be made: something is being installed, and the call
\* is for it or for a dependency of the last release on the path.
LEMMA PendingCall ==
    ASSUME PackagesInv, wanted # NoCall
    PROVE  /\ wanted \in Requirement /\ wanted.package \in PackageIds
           /\ target \in Releases /\ target # NoRelease /\ Root \in Requirement
           /\ \/ wanted = Root /\ path = <<>> /\ resolved = <<>>
              \/ path # <<>> /\ Matches(path[1].release, Root)
<1>1. wanted \in Requirement /\ target # NoRelease /\ target \in Releases
  BY DEF PackagesInv, PackagesTypeOK, RootInv
<1>2. wanted.package \in PackageIds
  BY <1>1 DEF Requirement
<1>3. Root \in Requirement
  BY <1>1, RequirementIsNoCall DEF Root
<1> QED BY <1>1, <1>2, <1>3 DEF PackagesInv, RootInv

LEMMA PathTypes ==
    ASSUME PackagesInv, NEW i \in 1..Len(path)
    PROVE  /\ path[i] \in [release : Releases, left : SUBSET Requirement]
           /\ path[i].release \in Releases /\ path[i].release.package \in PackageIds
<1> DEFINE Frames == [release : Releases, left : SUBSET Requirement]
<1>0. path \in Seq(Frames)
  BY DEF PackagesInv, PackagesTypeOK
<1>1. path[i] \in Frames
  <2> HIDE DEF Frames
  <2> QED BY <1>0
<1>2. path[i].release \in Releases
  BY <1>1
<1> QED BY <1>1, <1>2, RequirementIsNoCall

LEMMA MetKeeps == ASSUME PackagesInv, RequirementMet PROVE PackagesInv'
<1>1. /\ wanted # NoCall /\ wanted' = NoCall
      /\ UNCHANGED <<catalogue, installed, target, path, resolved, replaced, cameBack>>
  BY DEF RequirementMet
<1>2. Met(wanted) /\ (resolved = <<>> => MetByInstalled(wanted))
  BY DEF RequirementMet, Passes, Met, IsResolved
<1>3. OrderInv' /\ BackupInv'
  BY <1>1, ResolutionFrame
<1>4. PackagesTypeOK'
  BY <1>1 DEF PackagesInv, PackagesTypeOK
<1>5. \A i \in 1..Len(path) : path[i].release \in Releases /\ path[i].release.package \in PackageIds
  BY PathTypes
<1>6. PathInv'
  <2>1. ASSUME NEW i \in 1..Len(path), NEW d \in Requirement, Answered(i, d) PROVE Answered(i, d)'
    BY <2>1, <1>1, <1>2, ResolutionFrame, PendingCall DEF Answered, Matches
  <2> QED BY <2>1, <1>1, <1>5, ResolutionFrame DEF PackagesInv, PathInv
<1>7. RootInv'
  <2>1. Root' = Root /\ (MetByInstalled(Root)' = MetByInstalled(Root))
    BY <1>1 DEF Root, MetByInstalled
  <2>2. CASE wanted = Root /\ path = <<>> /\ resolved = <<>>
    BY <2>1, <2>2, <1>1, <1>2, PendingCall DEF RootInv
  <2>3. CASE path # <<>> /\ Matches(path[1].release, Root)
    BY <2>1, <2>3, <1>1, PendingCall DEF RootInv, Matches
  <2> QED BY <2>2, <2>3, <1>1, PendingCall
<1> QED BY <1>3, <1>4, <1>6, <1>7 DEF PackagesInv

LEMMA EnterKeeps == ASSUME PackagesInv, NEW r \in Releases, EnterRelease(r) PROVE PackagesInv'
<1> DEFINE n == Len(path)
           f == [release |-> r, left |-> r.requires]
<1>1. /\ wanted # NoCall /\ wanted' = NoCall /\ path' = Append(path, f)
      /\ UNCHANGED <<catalogue, installed, target, resolved, replaced, cameBack>>
      /\ r.package = wanted.package /\ r.version \in wanted.versions
      /\ ~OnPath(r.package) /\ ~IsResolved(r.package) /\ ~MetByInstalled(wanted)
  BY DEF EnterRelease, Candidates, Passes
<1>2. Matches(r, wanted) /\ Differs(r)
  BY <1>1 DEF Matches, Differs, MetByInstalled
<1>3. OrderInv' /\ BackupInv'
  BY <1>1, ResolutionFrame
<1>4. f \in [release : Releases, left : SUBSET Requirement] /\ r.package \in PackageIds
  BY RequirementIsNoCall
<1>5. /\ path \in Seq([release : Releases, left : SUBSET Requirement]) /\ n \in Nat
      /\ path' \in Seq([release : Releases, left : SUBSET Requirement])
      /\ Len(path') = n + 1 /\ path'[n + 1] = f /\ path' # <<>>
      /\ \A i \in 1..n : path'[i] = path[i]
  BY <1>1, <1>4 DEF PackagesInv, PackagesTypeOK
<1>6. \A i \in 1..n : path[i].release \in Releases /\ path[i].release.package \in PackageIds
  BY PathTypes
<1>7. PackagesTypeOK'
  BY <1>1, <1>5 DEF PackagesInv, PackagesTypeOK
<1>8. PathInv'
  <2>1. \A i, j \in 1..(n + 1) : path'[i].release.package = path'[j].release.package => i = j
    <3>1. \A i \in 1..n : path[i].release.package # r.package
      BY <1>1 DEF OnPath
    <3> QED BY <3>1, <1>5 DEF PackagesInv, PathInv
  <2>2. \A i \in 1..(n + 1) : ~IsResolved(path'[i].release.package) /\ Differs(path'[i].release)
    <3> TAKE i \in 1..(n + 1)
    <3>1. CASE i = n + 1
      BY <3>1, <1>1, <1>2, <1>5
    <3>2. CASE i # n + 1
      BY <3>2, <1>5 DEF PackagesInv, PathInv
    <3> QED BY <3>1, <3>2
  <2>3. \A i \in 1..(n + 1) : (~IsResolved(path[i].release.package) /\ Differs(path[i].release))'
    BY <2>2, <1>1 DEF IsResolved, Differs
  <2>4. ASSUME NEW i \in 1..(n + 1), NEW d \in Requirement,
               d \in path'[i].release.requires \ path'[i].left
        PROVE  Answered(i, d)'
    <3>1. i \in 1..n
      BY <2>4, <1>5
    <3>2. Answered(i, d)
      BY <2>4, <3>1, <1>5 DEF PackagesInv, PathInv
    <3>3. CASE Met(d)
      BY <3>3, <1>1, ResolutionFrame DEF Answered
    <3>4. CASE i < n /\ Matches(path[i + 1].release, d)
      <4>1. i + 1 \in 1..n /\ i < n + 1
        BY <3>1, <3>4, <1>5
      <4> QED BY <3>4, <4>1, <1>5 DEF Answered, Matches
    <3>5. CASE i = n /\ wanted = d
      BY <3>5, <1>2, <1>5 DEF Answered, Matches
    <3> QED BY <3>2, <3>3, <3>4, <3>5 DEF Answered
  <2> QED BY <2>1, <2>3, <2>4, <1>5 DEF PathInv
<1>9. RootInv'
  <2>1. Root' = Root
    BY <1>1 DEF Root
  <2>2. CASE wanted = Root /\ path = <<>>
    <3>1. path'[1] = f
      BY <2>2, <1>5
    <3> QED BY <2>1, <2>2, <3>1, <1>1, <1>2, <1>5, PendingCall DEF RootInv, Matches
  <2>3. CASE path # <<>> /\ Matches(path[1].release, Root)
    <3>1. path'[1] = path[1]
      BY <2>3, <1>5
    <3> QED BY <2>1, <2>3, <3>1, <1>1, <1>5, PendingCall DEF RootInv, Matches
  <2> QED BY <2>2, <2>3, <1>1, PendingCall
<1> QED BY <1>3, <1>7, <1>8, <1>9 DEF PackagesInv
LEMMA NextDependencyKeeps ==
    ASSUME PackagesInv, NEW e \in Requirement, NextDependency(e) PROVE PackagesInv'
<1> DEFINE n == Len(path)
           Frames == [release : Releases, left : SUBSET Requirement]
<1>1. /\ wanted = NoCall /\ wanted' = e /\ e # NoCall /\ path # <<>> /\ e \in path[n].left
      /\ path' = [path EXCEPT ![n] = [release |-> path[n].release, left |-> path[n].left \ {e}]]
      /\ UNCHANGED <<catalogue, installed, target, resolved, replaced, cameBack>>
  BY PackagesAssumption DEF NextDependency, LastCall
<1>2. path \in Seq(Frames) /\ n \in Nat \ {0} /\ n \in 1..n
  BY <1>1 DEF PackagesInv, PackagesTypeOK
<1>3. \A i \in 1..n : path[i] \in Frames
  BY PathTypes
<1>4. /\ Len(path') = n /\ path' # <<>>
      /\ \A i \in 1..n : i # n => path'[i] = path[i]
      /\ path'[n] = [release |-> path[n].release, left |-> path[n].left \ {e}]
  <2> DEFINE g == [release |-> path[n].release, left |-> path[n].left \ {e}]
  <2>1. path' = [path EXCEPT ![n] = g]
    BY <1>1
  <2>2. g \in Frames
    BY <1>2, <1>3
  <2> HIDE DEF Frames, g
  <2>3. Len(path') = n /\ path'[n] = g /\ \A i \in 1..n : i # n => path'[i] = path[i]
    BY <2>1, <2>2, <1>2, ReplaceFacts
  <2> QED BY <2>3, <1>2 DEF g
<1>5. \A i \in 1..n : path'[i] \in Frames /\ path'[i].release = path[i].release
  BY <1>2, <1>3, <1>4
<1>6. path' \in Seq(Frames)
  <2> DEFINE g == [release |-> path[n].release, left |-> path[n].left \ {e}]
  <2>1. path' = [path EXCEPT ![n] = g]
    BY <1>1
  <2>2. g \in Frames
    BY <1>2, <1>3
  <2> HIDE DEF Frames, g
  <2> QED BY <2>1, <2>2, <1>2, ReplaceFacts
<1>7. PackagesTypeOK'
  BY <1>1, <1>6 DEF PackagesInv, PackagesTypeOK
<1>8. OrderInv' /\ BackupInv'
  BY <1>1, ResolutionFrame
<1>9. PathInv'
  <2>1. \A i \in 1..n : (~IsResolved(path[i].release.package) /\ Differs(path[i].release))'
    BY <1>1, <1>4, <1>5 DEF PackagesInv, PathInv, IsResolved, Differs
  <2>2. ASSUME NEW i \in 1..n, NEW d \in Requirement,
               d \in path'[i].release.requires \ path'[i].left
        PROVE  Answered(i, d)'
    <3>1. CASE i = n /\ d = e
      BY <3>1, <1>1, <1>4 DEF Answered
    <3>2. CASE ~(i = n /\ d = e)
      <4>1. d \in path[i].release.requires \ path[i].left
        BY <2>2, <3>2, <1>4, <1>5
      <4>2. Met(d) \/ (i < n /\ Matches(path[i + 1].release, d))
        BY <4>1, <1>1, PackagesAssumption DEF PackagesInv, PathInv, Answered
      <4>3. CASE Met(d)
        BY <4>3, <1>1, ResolutionFrame DEF Answered
      <4>4. CASE i < n /\ Matches(path[i + 1].release, d)
        <5>1. i + 1 \in 1..n
          BY <4>4, <1>2
        <5> QED BY <4>4, <5>1, <1>4, <1>5 DEF Answered, Matches
      <4> QED BY <4>2, <4>3, <4>4
    <3> QED BY <3>1, <3>2
  <2> QED BY <2>1, <2>2, <1>4, <1>5 DEF PackagesInv, PathInv
<1>10. RootInv'
  <2>1. target \in Releases => Root # NoCall
    BY RequirementIsNoCall DEF Root
  <2>2. target # NoRelease /\ Matches(path[1].release, Root)
    BY <2>1, <1>1 DEF PackagesInv, PackagesTypeOK, RootInv
  <2>3. Root' = Root /\ 1 \in 1..n
    BY <1>1, <1>2 DEF Root
  <2> QED BY <2>2, <2>3, <1>1, <1>4, <1>5 DEF RootInv, Matches
<1> QED BY <1>7, <1>8, <1>9, <1>10 DEF PackagesInv

LEMMA LeaveKeeps == ASSUME PackagesInv, LeaveRelease PROVE PackagesInv'
<1> DEFINE n == Len(path)
           k == Len(resolved)
           r == path[n].release
           Frames == [release : Releases, left : SUBSET Requirement]
<1>1. /\ wanted = NoCall /\ wanted' = NoCall /\ path # <<>> /\ path[n].left = {}
      /\ resolved' = Append(resolved, r) /\ path' = Shorter(path)
      /\ UNCHANGED <<catalogue, installed, target, replaced, cameBack>>
  BY DEF LeaveRelease, LastCall, Shorter
<1>2. path \in Seq(Frames) /\ resolved \in Seq(Releases) /\ k \in Nat
  BY DEF PackagesInv, PackagesTypeOK
<1>3. /\ path' \in Seq(Frames) /\ Len(path') = n - 1
      /\ \A i \in 1..(n - 1) : path'[i] = path[i]
      /\ n \in Nat \ {0} /\ n \in 1..n
  <2> HIDE DEF Frames
  <2> QED BY <1>1, <1>2, ShorterFacts
<1>4. /\ r \in Releases /\ r.package \in PackageIds /\ r.requires \subseteq Requirement
      /\ \A i \in 1..n : path[i].release \in Releases /\ path[i].release.package \in PackageIds
  BY <1>3, PathTypes, RequirementIsNoCall
<1> HIDE DEF r
<1>5. /\ resolved' \in Seq(Releases) /\ Len(resolved') = k + 1 /\ resolved'[k + 1] = r
      /\ \A i \in 1..k : resolved'[i] = resolved[i] /\ resolved[i] \in Releases
  BY <1>1, <1>2, <1>4
<1>6. PackagesTypeOK'
  BY <1>1, <1>3, <1>5 DEF PackagesInv, PackagesTypeOK
<1>7. \A d \in Requirement : /\ MetByInstalled(d)' = MetByInstalled(d)
                             /\ MetByResolved(d) => MetByResolved(d)'
                             /\ Matches(r, d) => MetByResolved(d)'
  <2>1. \A d \in Requirement : MetByInstalled(d)' = MetByInstalled(d)
    BY <1>1 DEF MetByInstalled
  <2>2. \A d \in Requirement : MetByResolved(d) => MetByResolved(d)'
    BY <1>2, <1>5 DEF MetByResolved
  <2>3. k + 1 \in 1..(k + 1)
    BY <1>2
  <2>4. \A d \in Requirement : Matches(r, d) => MetByResolved(d)'
    BY <2>3, <1>5 DEF MetByResolved, Matches
  <2> QED BY <2>1, <2>2, <2>4
<1>8. OrderInv'
  <2>1. ASSUME NEW i \in 1..(k + 1), NEW d \in Requirement, d \in resolved'[i].requires
        PROVE  (\E j \in 1..(i - 1) : Matches(resolved'[j], d)) \/ MetByInstalled(d)
    <3>1. CASE i = k + 1
      <4>1. d \in path[n].release.requires \ path[n].left
        BY <2>1, <3>1, <1>1, <1>5 DEF r
      <4>2. Met(d)
        <5>1. Answered(n, d)
          BY <4>1, <1>3 DEF PackagesInv, PathInv
        <5>2. ~(n < n) /\ wanted # d
          BY <1>1, <1>3, PackagesAssumption
        <5> QED BY <5>1, <5>2 DEF Answered
      <4>3. CASE MetByResolved(d)
        <5>1. PICK j \in 1..k : Matches(resolved[j], d)
          BY <4>3 DEF MetByResolved, Matches
        <5>2. j \in 1..(i - 1)
          BY <5>1, <3>1, <1>2
        <5> QED BY <5>1, <5>2, <1>5 DEF Matches
      <4> QED BY <4>2, <4>3 DEF Met
    <3>2. CASE i # k + 1
      <4>1. i \in 1..k /\ \A j \in 1..(i - 1) : j \in 1..k
        BY <3>2, <1>2
      <4> QED BY <2>1, <4>1, <1>5 DEF PackagesInv, OrderInv, Matches
    <3> QED BY <3>1, <3>2
  <2>2. \A i \in 1..k : resolved[i].package # r.package
    BY <1>3 DEF PackagesInv, PathInv, IsResolved, r
  <2>3. \A i, j \in 1..(k + 1) : resolved'[i].package = resolved'[j].package => i = j
    BY <2>2, <1>2, <1>5 DEF PackagesInv, OrderInv
  <2>4. Differs(r)
    BY <1>3 DEF PackagesInv, PathInv, r
  <2>5. \A i \in 1..(k + 1) : Differs(resolved'[i])
    <3> TAKE i \in 1..(k + 1)
    <3>1. CASE i = k + 1
      BY <3>1, <2>4, <1>5
    <3>2. CASE i # k + 1
      BY <3>2, <1>2, <1>5 DEF PackagesInv, OrderInv
    <3> QED BY <3>1, <3>2
  <2>6. \A i \in 1..(k + 1) : Differs(resolved[i])'
    BY <2>5, <1>1 DEF Differs
  <2> QED BY <2>1, <2>3, <2>6, <1>5, <1>7 DEF OrderInv, Matches
<1>9. BackupInv'
  BY <1>1 DEF PackagesInv, BackupInv
<1>10. PathInv'
  <2>1. \A i \in 1..(n - 1) : path[i].release.package # r.package
    BY <1>3 DEF PackagesInv, PathInv, r
  <2>2. ASSUME NEW i \in 1..(n - 1) PROVE (~IsResolved(path[i].release.package))'
    <3>1. ~IsResolved(path[i].release.package)
      BY <1>3 DEF PackagesInv, PathInv
    <3>2. \A j \in 1..(k + 1) : resolved'[j].package # path[i].release.package
      <4> TAKE j \in 1..(k + 1)
      <4>1. CASE j = k + 1
        BY <4>1, <2>1, <1>5
      <4>2. CASE j # k + 1
        <5>1. j \in 1..k
          BY <4>2, <1>2
        <5> QED BY <5>1, <3>1, <1>5 DEF IsResolved
      <4> QED BY <4>1, <4>2
    <3> QED BY <3>2, <1>3, <1>5 DEF IsResolved
  <2>3. \A i \in 1..(n - 1) : Differs(path[i].release)'
    BY <1>1, <1>3 DEF PackagesInv, PathInv, Differs
  <2>4. ASSUME NEW i \in 1..(n - 1), NEW d \in Requirement,
               d \in path[i].release.requires \ path[i].left
        PROVE  Answered(i, d)'
    <3>1. Met(d) \/ Matches(path[i + 1].release, d)
      <4>1. i \in 1..Len(path) /\ i # Len(path)
        BY <1>3
      <4>2. PathInv
        BY DEF PackagesInv
      <4>3. d \in path[i].release.requires \ path[i].left
        BY <2>4
      <4>4. Answered(i, d)
        BY <4>1, <4>2, <4>3 DEF PathInv
      <4> QED BY <4>1, <4>4 DEF Answered
    <3>2. CASE Met(d)
      BY <3>2, <1>7 DEF Answered, Met
    <3>3. CASE Matches(path[i + 1].release, d) /\ i + 1 = n
      BY <3>3, <1>7 DEF Answered, Met, r
    <3>4. CASE Matches(path[i + 1].release, d) /\ i + 1 # n
      <4>1. i + 1 \in 1..(n - 1) /\ i < n - 1
        BY <3>4, <1>3
      <4> QED BY <3>4, <4>1, <1>3 DEF Answered, Matches
    <3> QED BY <3>1, <3>2, <3>3, <3>4
  <2> QED BY <2>2, <2>3, <2>4, <1>3 DEF PackagesInv, PathInv
<1>11. RootInv'
  <2>1. target \in Releases => Root # NoCall /\ Root \in Requirement
    BY RequirementIsNoCall DEF Root
  <2>2. target # NoRelease /\ Root \in Requirement /\ Matches(path[1].release, Root)
    BY <2>1, <1>1 DEF PackagesInv, PackagesTypeOK, RootInv
  <2>3. Root' = Root
    BY <1>1 DEF Root
  <2>4. CASE n = 1
    <3>1. path' = <<>>
      BY <2>4, <1>3
    <3>2. MetByResolved(Root)'
      <4>1. Matches(r, Root)
        BY <2>2, <2>4 DEF r
      <4> QED BY <4>1, <2>2, <2>3, <1>5 DEF MetByResolved, Matches
    <3> QED BY <3>1, <3>2, <2>2, <1>1 DEF RootInv
  <2>5. CASE n # 1
    <3>1. path' # <<>> /\ path'[1] = path[1]
      BY <2>5, <1>3
    <3> QED BY <3>1, <2>2, <2>3, <1>1 DEF RootInv, Matches
  <2> QED BY <2>4, <2>5
<1> QED BY <1>6, <1>8, <1>9, <1>10, <1>11 DEF PackagesInv
LEMMA ReplaceTypes ==
    ASSUME NEW old \in Record \cup {NotInstalled}, NEW v \in Versions
    PROVE  Replace(old, v) \in Record
<1>1. CASE old = NotInstalled
  BY <1>1 DEF Replace, Record
<1>2. CASE old \in Record /\ old # NotInstalled
  <2>1. old.version \in Versions /\ old.backups \in Seq(Versions)
    BY <1>2 DEF Record
  <2>2. Append(old.backups, old.version) \in Seq(Versions)
    BY <2>1
  <2> QED BY <2>1, <2>2, <1>2 DEF Replace, Record
<1> QED BY <1>1, <1>2

LEMMA ResolvedVersionFacts ==
    ASSUME PackagesInv, NEW p \in PackageIds, IsResolved(p)
    PROVE  /\ ResolvedVersion(p) \in Versions
           /\ installed[p] # NotInstalled => installed[p].version # ResolvedVersion(p)
<1> DEFINE i == CHOOSE i \in 1..Len(resolved) : resolved[i].package = p
<1>1. i \in 1..Len(resolved) /\ resolved[i].package = p
  BY DEF IsResolved
<1>2. resolved[i] \in Releases
  BY <1>1 DEF PackagesInv, PackagesTypeOK
<1>3. Differs(resolved[i])
  BY <1>1 DEF PackagesInv, OrderInv
<1>4. ResolvedVersion(p) = resolved[i].version
  BY DEF ResolvedVersion
<1> HIDE DEF i
<1> QED BY <1>1, <1>2, <1>3, <1>4, RequirementIsNoCall DEF Differs

LEMMA InstallResolvedKeeps == ASSUME PackagesInv, InstallResolved PROVE PackagesInv'
<1> DEFINE Updated(p) == IsResolved(p) /\ installed[p] # NotInstalled
           Back(p) == Updated(p) /\ In(ResolvedVersion(p), replaced[p])
<1>1. /\ target' = NoRelease /\ wanted' = NoCall /\ path' = <<>> /\ resolved' = <<>>
      /\ catalogue' = catalogue
      /\ installed' = [p \in PackageIds |->
            IF IsResolved(p) THEN Replace(installed[p], ResolvedVersion(p)) ELSE installed[p]]
      /\ cameBack' = cameBack \cup {p \in PackageIds : Back(p)}
      /\ replaced' = [p \in PackageIds |->
            IF p \in cameBack' THEN <<>>
            ELSE IF Updated(p) THEN Append(replaced[p], installed[p].version) ELSE replaced[p]]
  BY DEF InstallResolved, Abandon
<1>2. /\ installed \in [PackageIds -> Record \cup {NotInstalled}]
      /\ replaced \in [PackageIds -> Seq(Versions)] /\ cameBack \subseteq PackageIds
      /\ catalogue \subseteq Releases
  BY DEF PackagesInv, PackagesTypeOK
<1>3. \A p \in PackageIds : installed[p] # NotInstalled =>
          installed[p].version \in Versions /\ installed[p].backups \in Seq(Versions)
  BY <1>2 DEF Record
<1>4. PackagesTypeOK'
  <2>1. \A p \in PackageIds : installed'[p] \in Record \cup {NotInstalled}
    BY <1>1, <1>2, ReplaceTypes, ResolvedVersionFacts
  <2>2. \A p \in PackageIds : replaced'[p] \in Seq(Versions)
    BY <1>1, <1>2, <1>3
  <2>3. cameBack' \subseteq PackageIds
    BY <1>1, <1>2
  <2> QED BY <2>1, <2>2, <2>3, <1>1, <1>2 DEF PackagesTypeOK
<1>5. PathInv' /\ OrderInv' /\ RootInv'
  BY <1>1 DEF PathInv, OrderInv, RootInv
<1>6. BackupInv'
  <2> SUFFICES ASSUME NEW p \in PackageIds
               PROVE  IF installed'[p] = NotInstalled THEN replaced'[p] = <<>> /\ p \notin cameBack'
                      ELSE p \notin cameBack' =>
                              /\ installed'[p].backups = replaced'[p]
                              /\ \A i \in 1..Len(replaced'[p]) : replaced'[p][i] # installed'[p].version
                              /\ \A i, j \in 1..Len(replaced'[p]) :
                                    replaced'[p][i] = replaced'[p][j] => i = j
    BY DEF BackupInv
  <2> DEFINE old == installed[p]
             v == ResolvedVersion(p)
             s == replaced[p]
  <2>0. /\ IF old = NotInstalled THEN s = <<>> /\ p \notin cameBack
           ELSE p \notin cameBack => /\ old.backups = s
                                     /\ \A i \in 1..Len(s) : s[i] # old.version
                                     /\ \A i, j \in 1..Len(s) : s[i] = s[j] => i = j
        /\ s \in Seq(Versions)
    BY <1>2 DEF PackagesInv, BackupInv
  <2>1. CASE ~IsResolved(p)
    <3>1. installed'[p] = old /\ (p \in cameBack' <=> p \in cameBack)
          /\ (p \notin cameBack' => replaced'[p] = s) /\ (p \in cameBack' => replaced'[p] = <<>>)
      BY <2>1, <1>1
    <3> QED BY <3>1, <2>0
  <2>2. CASE IsResolved(p) /\ old = NotInstalled
    <3>1. /\ installed'[p] = [version |-> v, backups |-> <<>>] /\ p \notin cameBack'
          /\ replaced'[p] = <<>>
      BY <2>2, <2>0, <1>1 DEF Replace
    <3>2. installed'[p] # NotInstalled
      <4>1. installed'[p] \in Record
        BY <2>2, <1>1, <1>2, ReplaceTypes, ResolvedVersionFacts
      <4> QED BY <4>1, PackagesAssumption
    <3> QED BY <3>1, <3>2
  <2>3. CASE IsResolved(p) /\ old # NotInstalled
    <3>1. installed'[p] = Replace(old, v) /\ installed'[p] \in Record
      BY <2>3, <1>1, <1>2, ReplaceTypes, ResolvedVersionFacts
    <3>2. installed'[p] # NotInstalled
      BY <3>1, PackagesAssumption
    <3>3. ASSUME p \notin cameBack'
          PROVE  /\ installed'[p] = [version |-> v, backups |-> Append(s, old.version)]
                 /\ replaced'[p] = Append(s, old.version)
                 /\ \A i \in 1..Len(s) : s[i] # v /\ s[i] # old.version
                 /\ \A i, j \in 1..Len(s) : s[i] = s[j] => i = j
                 /\ old.version # v /\ old.version \in Versions
      <4>1. p \notin cameBack /\ ~In(v, s)
        BY <3>3, <2>3, <1>1
      <4>2. old.backups = s /\ ~In(old.version, s)
        BY <4>1, <2>0, <2>3 DEF In
      <4>3. replaced'[p] = Append(s, old.version)
        BY <3>3, <2>3, <1>1
      <4>4. installed'[p] = [version |-> v, backups |-> Append(s, old.version)]
        BY <4>2, <3>1, <2>3 DEF Replace
      <4>5. old.version # v /\ old.version \in Versions
        BY <2>3, <1>3, ResolvedVersionFacts
      <4> QED BY <4>1, <4>2, <4>3, <4>4, <4>5, <2>0, <2>3 DEF In
    <3>4. ASSUME p \notin cameBack'
          PROVE  /\ installed'[p].backups = replaced'[p]
                 /\ \A i \in 1..Len(replaced'[p]) : replaced'[p][i] # installed'[p].version
                 /\ \A i, j \in 1..Len(replaced'[p]) : replaced'[p][i] = replaced'[p][j] => i = j
      <4> DEFINE u == old.version
                 t == Append(s, u)
      <4>1. /\ installed'[p].backups = t /\ replaced'[p] = t /\ installed'[p].version = v
        BY <3>3, <3>4
      <4>2. /\ \A i \in 1..Len(s) : s[i] # v /\ s[i] # u
            /\ \A i, j \in 1..Len(s) : s[i] = s[j] => i = j
            /\ u # v /\ u \in Versions
        BY <3>3, <3>4
      <4> HIDE DEF u, v, s
      <4>3. Len(t) = Len(s) + 1 /\ t[Len(s) + 1] = u /\ Len(s) \in Nat /\ \A i \in 1..Len(s) : t[i] = s[i]
        BY <2>0, <4>2
      <4>4. \A i \in 1..Len(t) : t[i] # v
        BY <4>2, <4>3
      <4>5. \A i, j \in 1..Len(t) : t[i] = t[j] => i = j
        BY <4>2, <4>3
      <4> QED BY <4>1, <4>4, <4>5
    <3> QED BY <3>2, <3>4
  <2> QED BY <2>1, <2>2, <2>3
<1> QED BY <1>4, <1>5, <1>6 DEF PackagesInv

LEMMA UninstallKeeps == ASSUME PackagesInv, NEW p \in PackageIds, Uninstall(p) PROVE PackagesInv'
<1>1. /\ wanted' = NoCall /\ path' = <<>> /\ resolved' = <<>> /\ target' = NoRelease
      /\ catalogue' = catalogue
  BY DEF Uninstall, resolutionVars, PackagesInv, RootInv
<1>2. PathInv' /\ OrderInv' /\ RootInv'
  BY <1>1 DEF PathInv, OrderInv, RootInv
<1>3. PackagesTypeOK'
  BY <1>1 DEF Uninstall, PackagesInv, PackagesTypeOK
<1>4. BackupInv'
  BY DEF Uninstall, PackagesInv, PackagesTypeOK, BackupInv
<1> QED BY <1>2, <1>3, <1>4 DEF PackagesInv

\* What a rollback does to a package that was backed up in order.
LEMMA RollbackFacts ==
    ASSUME PackagesInv, NEW p \in PackageIds, Rollback(p)
    PROVE  LET b == installed[p].backups
           IN /\ b \in Seq(Versions) /\ b # <<>>
              /\ installed' = [installed EXCEPT ![p] = [version |-> b[Len(b)], backups |-> Shorter(b)]]
              /\ [version |-> b[Len(b)], backups |-> Shorter(b)] \in Record
              /\ p \notin cameBack => b = replaced[p]
              /\ replaced' = [replaced EXCEPT ![p] = IF @ = <<>> THEN @ ELSE Shorter(@)]
<1> DEFINE b == installed[p].backups
<1>1. /\ installed[p] # NotInstalled /\ b # <<>>
      /\ installed' = [installed EXCEPT ![p] = [version |-> b[Len(b)], backups |-> Shorter(b)]]
      /\ replaced' = [replaced EXCEPT ![p] = IF @ = <<>> THEN @ ELSE Shorter(@)]
  BY DEF Rollback, HasBackup, ForgetLast
<1>2. installed[p] \in Record
  BY <1>1 DEF PackagesInv, PackagesTypeOK
<1>3. b \in Seq(Versions)
  BY <1>2 DEF Record
<1>4. p \notin cameBack => b = replaced[p]
  BY <1>1 DEF PackagesInv, BackupInv
<1> HIDE DEF b
<1>5. b[Len(b)] \in Versions /\ Shorter(b) \in Seq(Versions)
  BY <1>1, <1>3, ShorterFacts
<1>6. [version |-> b[Len(b)], backups |-> Shorter(b)] \in Record
  BY <1>5 DEF Record
<1> QED BY <1>1, <1>3, <1>4, <1>6 DEF b

LEMMA RollbackKeeps == ASSUME PackagesInv, NEW p \in PackageIds, Rollback(p) PROVE PackagesInv'
<1> DEFINE b == installed[p].backups
           new == [version |-> b[Len(b)], backups |-> Shorter(b)]
<1>1. /\ wanted' = NoCall /\ path' = <<>> /\ resolved' = <<>> /\ target' = NoRelease
      /\ catalogue' = catalogue /\ cameBack' = cameBack
  BY DEF Rollback, HasBackup, resolutionVars, PackagesInv, RootInv
<1>2. PathInv' /\ OrderInv' /\ RootInv'
  BY <1>1 DEF PathInv, OrderInv, RootInv
<1>3. /\ b \in Seq(Versions) /\ b # <<>> /\ new \in Record
      /\ installed' = [installed EXCEPT ![p] = new]
      /\ p \notin cameBack => b = replaced[p]
      /\ replaced' = [replaced EXCEPT ![p] = IF @ = <<>> THEN @ ELSE Shorter(@)]
      /\ new.version = b[Len(b)] /\ new.backups = Shorter(b) /\ new # NotInstalled
  BY RollbackFacts, PackagesAssumption
<1>4. /\ installed \in [PackageIds -> Record \cup {NotInstalled}]
      /\ replaced \in [PackageIds -> Seq(Versions)]
  BY DEF PackagesInv, PackagesTypeOK
<1> HIDE DEF b, new
<1>5. PackagesTypeOK'
  <2>1. replaced[p] # <<>> => Shorter(replaced[p]) \in Seq(Versions)
    BY <1>4, ShorterFacts
  <2> QED BY <2>1, <1>1, <1>3, <1>4 DEF PackagesInv, PackagesTypeOK
<1>6. BackupInv'
  <2>1. ASSUME NEW q \in PackageIds, q # p
        PROVE  installed'[q] = installed[q] /\ replaced'[q] = replaced[q]
    BY <2>1, <1>3, <1>4
  <2>2. installed'[p] = new /\ (b = replaced[p] => replaced'[p] = Shorter(b))
    BY <1>3, <1>4
  <2>3. ASSUME p \notin cameBack
        PROVE  /\ \A i \in 1..Len(Shorter(b)) : Shorter(b)[i] # b[Len(b)]
               /\ \A i, j \in 1..Len(Shorter(b)) : Shorter(b)[i] = Shorter(b)[j] => i = j
    <3>1. \A i, j \in 1..Len(b) : b[i] = b[j] => i = j
      <4>1. installed[p] # NotInstalled
        BY DEF Rollback, HasBackup
      <4> QED BY <4>1, <2>3, <1>3 DEF PackagesInv, BackupInv
    <3>2. /\ Len(Shorter(b)) = Len(b) - 1 /\ Len(b) \in Nat \ {0}
          /\ \A i \in 1..(Len(b) - 1) : Shorter(b)[i] = b[i]
      BY <1>3, ShorterFacts
    <3> QED BY <3>1, <3>2
  <2> QED BY <2>1, <2>2, <2>3, <1>1, <1>3 DEF PackagesInv, BackupInv
<1> QED BY <1>2, <1>5, <1>6 DEF PackagesInv

LEMMA PackagesSteps == PackagesInv /\ [PackagesNext]_packageVars => PackagesInv'
<1> SUFFICES ASSUME PackagesInv, [PackagesNext]_packageVars PROVE PackagesInv'
  OBVIOUS
<1>1. CASE UNCHANGED packageVars
  <2>1. UNCHANGED <<catalogue, installed, target, wanted, path, resolved, replaced, cameBack>>
    BY <1>1 DEF packageVars
  <2>2. OrderInv' /\ BackupInv' /\ PackagesTypeOK'
    BY <2>1, ResolutionFrame DEF PackagesInv, PackagesTypeOK
  <2>3. PathInv'
    BY <2>1 DEF PackagesInv, PathInv, Answered, Met, Matches, Differs, MetByResolved, MetByInstalled,
                IsResolved
  <2>4. RootInv'
    BY <2>1 DEF PackagesInv, RootInv, Matches, MetByResolved, MetByInstalled, Root
  <2> QED BY <2>2, <2>3, <2>4 DEF PackagesInv
<1> QED BY <1>1, RegisterKeeps, InstallKeeps, EnterKeeps, FailKeeps, MetKeeps, LeaveKeeps,
           InstallResolvedKeeps, NextDependencyKeeps, UninstallKeeps, RollbackKeeps DEF PackagesNext

THEOREM PackagesInvariance == PackagesSpec => []PackagesInv
BY PackagesStart, PackagesSteps, PTL DEF PackagesSpec

\* Whatever is registered while a resolution runs, what it resolved can be
\* installed in that order.
THEOREM ResolutionsAreSound == PackagesSpec => []ResolutionIsSound
<1>1. PackagesInv => ResolutionIsSound
  <2> SUFFICES ASSUME PackagesInv PROVE ResolutionIsSound
    OBVIOUS
  <2>1. ASSUME Resolution
        PROVE  IF IsResolved(Root.package) THEN MetByResolved(Root) ELSE MetByInstalled(Root)
    <3>1. target \in Releases /\ target # NoRelease /\ wanted = NoCall /\ path = <<>>
      BY <2>1 DEF Resolution, PackagesInv, PackagesTypeOK
    <3>2. Root # NoCall
      BY <3>1, RequirementIsNoCall DEF Root
    <3>3. (resolved = <<>> /\ MetByInstalled(Root)) \/ MetByResolved(Root)
      BY <3>1, <3>2 DEF PackagesInv, RootInv
    <3> QED BY <3>3 DEF IsResolved, MetByResolved
  <2> QED BY <2>1 DEF ResolutionIsSound, PackagesInv, OrderInv, Matches, Root
<1> QED BY <1>1, PackagesInvariance, PTL

\* A rollback undoes the last update that is not undone yet, unless a version
\* of the package was installed a second time.
THEOREM RollbacksUndoUpdates == PackagesSpec => RollbackUndoesTheUpdate
<1>1. ASSUME PackagesInv, NEW p \in PackageIds, Rollback(p), p \notin cameBack
      PROVE  replaced[p] # <<>> /\ installed'[p].version = replaced[p][Len(replaced[p])]
  <2> DEFINE b == installed[p].backups
  <2>1. installed \in [PackageIds -> Record \cup {NotInstalled}]
    BY <1>1 DEF PackagesInv, PackagesTypeOK
  <2>2. /\ b # <<>> /\ b = replaced[p]
        /\ installed' = [installed EXCEPT ![p] = [version |-> b[Len(b)], backups |-> Shorter(b)]]
    BY <1>1, RollbackFacts
  <2>3. installed'[p] = [version |-> b[Len(b)], backups |-> Shorter(b)]
    BY <2>1, <2>2
  <2> HIDE DEF b
  <2> QED BY <2>2, <2>3
<1>2. PackagesInv /\ [PackagesNext]_packageVars =>
          [RollbackRestores]_packageVars
  BY <1>1 DEF RollbackRestores
<1> QED BY <1>2, PackagesInvariance, PTL DEF PackagesSpec, RollbackUndoesTheUpdate

\* Both together: the versions that are active are those that were asked for.
THEOREM VersionsAreRight == PackagesSpec => VersionsAreAsAskedFor
<1>1. ResolutionIsSound' /\ [RollbackRestores]_packageVars =>
          [ResolutionIsSound' /\ RollbackRestores]_packageVars
  OBVIOUS
<1> QED BY <1>1, ResolutionsAreSound, RollbacksUndoUpdates, PTL
        DEF VersionsAreAsAskedFor, RollbackUndoesTheUpdate

---------------------------------------------------------------------------
(* Profiles of models and providers                                        *)

\* A draft whose row was not written since has the default, or the degradation,
\* that the row has.
ProfileInv ==
    /\ ProfileTypeOK
    /\ \A e \in Editors :
           /\ editor[e] \in Models =>
                  /\ draft[e] \in ModelRow
                  /\ (e \notin outdated => draft[e].default = models[editor[e]].default)
           /\ editor[e] \in Providers =>
                  /\ draft[e] \in ProviderRow
                  /\ (e \notin outdated /\ providers[editor[e]].degraded => draft[e].degraded)
    /\ ProfilesAreKept

LEMMA ProfileStart == ProfileInit => ProfileInv
<1> SUFFICES ASSUME ProfileInit PROVE ProfileInv
    OBVIOUS
<1> USE ProfileAssumption DEF ProfileAssumption, ProfileInit
<1>1. ProfileTypeOK
    BY DEF ProfileTypeOK, ModelRow, ProviderRow, Profiles, NoDraft
<1>2. ProfilesAreKept
    BY DEF ProfilesAreKept, OneDefault, DefaultIsTheChosen, HealthIsAsFlagged
<1> QED
    BY <1>1, <1>2 DEF ProfileInv

\* What a registration makes of the rows: the others' are kept, but for the
\* default, which one of them has at most.
RowsAfter(m, row, rows) ==
    /\ rows \in [Models -> ModelRow] /\ rows[m] = row
    /\ \A n \in Models \ {m} : /\ row.default => rows[n].default = FALSE
                               /\ ~row.default => rows[n] = models[n]
    /\ \A n, o \in Models : rows[n].default /\ rows[o].default => n = o

LEMMA RegisteredRows ==
    ASSUME models \in [Models -> ModelRow], OneDefault, NEW m \in Models, NEW row \in ModelRow
    PROVE  RowsAfter(m, row, Registered(m, row))
<1>1. \A n \in Models : /\ n = m => Registered(m, row)[n] = row
                        /\ n # m /\ row.default =>
                               /\ Registered(m, row)[n] \in ModelRow
                               /\ Registered(m, row)[n].default = FALSE
                        /\ n # m /\ ~row.default => Registered(m, row)[n] = models[n]
    BY DEF Registered, ModelRow
<1>2. Registered(m, row) \in [Models -> ModelRow]
    BY <1>1 DEF Registered
<1> QED
    BY <1>1, <1>2 DEF OneDefault, ModelRow, RowsAfter

\* Reading a profile into a draft that has its default, or its degradation.
LEMMA HoldingKeeps ==
    ASSUME ProfileInv, NEW e \in Editors, NEW p \in Profiles, NEW c, Holds(e, p, c),
           p \in Models => (c \in ModelRow /\ c.default = models[p].default),
           p \in Providers => c \in ProviderRow /\ (providers[p].degraded => c.degraded)
    PROVE  ProfileInv'
<1> USE ProfileAssumption DEF ProfileAssumption, ProfileInv, ProfileTypeOK, Profiles
<1>1. UNCHANGED <<models, providers, outdated, undone, chosen, failing>>
    BY DEF Holds
<1>2. \A f \in Editors : /\ f # e => draft'[f] = draft[f] /\ editor'[f] = editor[f]
                         /\ f = e => draft'[f] = c /\ editor'[f] = p
    BY DEF Holds
<1>3. ProfileTypeOK'
    BY <1>1 DEF Holds
<1>4. ProfilesAreKept'
    BY <1>1 DEF ProfilesAreKept, OneDefault, DefaultIsTheChosen, HealthIsAsFlagged
<1> QED
    BY <1>1, <1>2, <1>3, <1>4

LEMMA ProfileStep == ProfileInv /\ [ProfileNext]_profileVars => ProfileInv'
<1> SUFFICES ASSUME ProfileInv, [ProfileNext]_profileVars PROVE ProfileInv'
    OBVIOUS
<1> USE ProfileAssumption DEF ProfileAssumption, ProfileInv, ProfileTypeOK, Profiles,
        ProfilesAreKept
<1>1. ASSUME NEW m \in Models, NEW row \in ModelRow, RegisterModel(m, row) PROVE ProfileInv'
  <2>1. models' = Registered(m, row) /\ row.default \in BOOLEAN
      BY <1>1 DEF RegisterModel, ModelRow
  <2>2. /\ models' \in [Models -> ModelRow] /\ models'[m] = row
        /\ \A n \in Models \ {m} : /\ row.default => models'[n].default = FALSE
                                   /\ ~row.default => models'[n] = models[n]
        /\ OneDefault'
    <3> HIDE DEF ProfileInv, DefaultIsTheChosen, HealthIsAsFlagged
    <3>1. models \in [Models -> ModelRow] /\ OneDefault
        BY DEF ProfileInv
    <3>2. RowsAfter(m, row, Registered(m, row))
        BY <2>1, <3>1, RegisteredRows
    <3> QED
        BY <2>1, <3>2 DEF OneDefault, RowsAfter
  <2>3. /\ UNCHANGED <<providers, editor, draft, failing>>
        /\ outdated' = Overtaken(Written(m, row)) /\ undone' = undone \ Written(m, row)
        /\ chosen' = IF row.default THEN m ELSE IF chosen = m THEN NoProfile ELSE chosen
      BY <1>1 DEF RegisterModel
  <2>4. ProfileTypeOK'
      BY <2>2, <2>3 DEF Overtaken
  <2>5. DefaultIsTheChosen'
    <3>1. CASE row.default
        BY <2>2, <2>3, <3>1 DEF DefaultIsTheChosen
    <3>2. CASE ~row.default
        BY <2>2, <2>3, <3>2 DEF DefaultIsTheChosen, Written
    <3> QED
        BY <2>1, <3>1, <3>2
  <2>6. HealthIsAsFlagged'
      BY <2>3 DEF HealthIsAsFlagged, Written
  <2>7. \A e \in Editors : /\ editor[e] \in Models /\ e \notin outdated' =>
                               e \notin outdated /\ models'[editor[e]] = models[editor[e]]
                           /\ e \notin outdated' => e \notin outdated
      BY <2>2, <2>3 DEF Overtaken, Written
  <2> QED
      BY <2>2, <2>3, <2>4, <2>5, <2>6, <2>7
<1>2. ASSUME NEW p \in Providers, NEW row \in ProviderRow, RegisterProvider(p, row)
      PROVE  ProfileInv'
  <2>1. /\ UNCHANGED <<models, editor, draft, chosen>>
        /\ providers' = [providers EXCEPT ![p] = row]
        /\ outdated' = Overtaken({p}) /\ undone' = undone \ {p}
        /\ failing' = IF row.degraded THEN failing \cup {p} ELSE failing \ {p}
      BY <1>2 DEF RegisterProvider
  <2>2. ProfileTypeOK'
      BY <2>1 DEF Overtaken
  <2>3. OneDefault' /\ DefaultIsTheChosen'
      BY <2>1 DEF OneDefault, DefaultIsTheChosen
  <2>4. HealthIsAsFlagged'
      BY <2>1 DEF HealthIsAsFlagged
  <2>5. \A e \in Editors : e \notin outdated' => e \notin outdated /\ editor[e] # p
      BY <2>1 DEF Overtaken
  <2> QED
      BY <2>1, <2>2, <2>3, <2>4, <2>5
<1>3. ASSUME NEW e \in Editors, NEW m \in Models, NEW b \in BOOLEAN, ReadModel(e, m, b)
      PROVE  ProfileInv'
  <2> DEFINE c == [models[m] EXCEPT !.active = b]
  <2>1. c \in ModelRow /\ c.default = models[m].default
      BY DEF ModelRow
  <2>2. Holds(e, m, c)
      BY <1>3 DEF ReadModel
  <2> HIDE DEF c
  <2> QED
      BY <2>1, <2>2, HoldingKeeps
<1>4. ASSUME NEW e \in Editors, NEW p \in Providers, NEW b \in BOOLEAN, ReadProvider(e, p, b)
      PROVE  ProfileInv'
  <2> DEFINE c == [providers[p] EXCEPT !.active = b]
  <2>1. c \in ProviderRow /\ c.degraded = providers[p].degraded
      BY DEF ProviderRow
  <2>2. Holds(e, p, c)
      BY <1>4 DEF ReadProvider
  <2> HIDE DEF c
  <2> QED
      BY <2>1, <2>2, HoldingKeeps
<1>5. ASSUME NEW e \in Editors, NEW p \in Providers, ReadFailing(e, p) PROVE ProfileInv'
  <2> DEFINE c == [providers[p] EXCEPT !.degraded = TRUE]
  <2>1. c \in ProviderRow /\ c.degraded
    <3>1. providers[p] \in ProviderRow
        OBVIOUS
    <3> HIDE DEF ProfileInv
    <3> QED
        BY <3>1 DEF ProviderRow
  <2>2. Holds(e, p, c)
      BY <1>5 DEF ReadFailing
  <2> HIDE DEF c
  <2> QED
      BY <2>1, <2>2, HoldingKeeps
<1>6. ASSUME NEW e \in Editors, WriteModel(e) PROVE ProfileInv'
  <2> DEFINE m == editor[e]
             row == draft[e]
             ps == Written(m, row)
  <2>1. m \in Models /\ row \in ModelRow /\ row.default \in BOOLEAN /\ models' = Registered(m, row)
      BY <1>6 DEF WriteModel, ModelRow
  <2>2. /\ UNCHANGED <<providers, chosen, failing>>
        /\ editor' = [editor EXCEPT ![e] = NoProfile] /\ draft' = [draft EXCEPT ![e] = NoDraft]
        /\ outdated' = Overtaken(ps) \ {e}
        /\ undone' = IF e \in outdated THEN undone \cup ps ELSE undone
      BY <1>6 DEF WriteModel, WritesBack
  <2>3. /\ models' \in [Models -> ModelRow] /\ models'[m] = row
        /\ \A n \in Models \ {m} : /\ row.default => models'[n].default = FALSE
                                   /\ ~row.default => models'[n] = models[n]
        /\ OneDefault'
    <3> HIDE DEF m, row, ps, ProfileInv
    <3>1. models \in [Models -> ModelRow] /\ OneDefault
        BY DEF ProfileInv
    <3>2. RowsAfter(m, row, Registered(m, row))
        BY <2>1, <3>1, RegisteredRows
    <3> QED
        BY <2>1, <3>2 DEF OneDefault, RowsAfter
  <2>4. \A n \in Models : models[n].default \in BOOLEAN /\ models'[n].default \in BOOLEAN
      BY <2>3 DEF ModelRow
  <2>5. ps \subseteq Models /\ m \in ps
        /\ \A n \in Models \ ps : models'[n] = models[n]
      BY <2>1, <2>3 DEF Written
  <2>6. e \notin outdated => \A n \in Models : models'[n].default = models[n].default
    <3> SUFFICES ASSUME e \notin outdated, NEW n \in Models
                 PROVE  models'[n].default = models[n].default
        OBVIOUS
    <3>1. row.default = models[m].default
        BY <2>1
    <3>2. CASE n = m
        BY <2>3, <3>1, <3>2
    <3>3. CASE n # m /\ ~row.default
        BY <2>3, <3>3
    <3>4. CASE n # m /\ row.default
        BY <2>1, <2>3, <2>4, <3>1, <3>4 DEF OneDefault
    <3> QED
        BY <2>1, <3>2, <3>3, <3>4
  <2>7. ProfileTypeOK'
    <3>1. draft' \in [Editors -> ModelRow \cup ProviderRow]
        BY <2>2 DEF NoDraft, ProviderRow
    <3> QED
        BY <2>2, <2>3, <2>5, <3>1 DEF Overtaken
  <2>8. DefaultIsTheChosen'
      BY <2>2, <2>5, <2>6 DEF DefaultIsTheChosen
  <2>9. HealthIsAsFlagged'
      BY <2>2, <2>5 DEF HealthIsAsFlagged
  <2>10. \A f \in Editors :
             /\ f # e => editor'[f] = editor[f] /\ draft'[f] = draft[f]
             /\ f = e => editor'[f] = NoProfile
             /\ f # e /\ f \notin outdated' => f \notin outdated /\ editor[f] \notin ps
      BY <2>2 DEF Overtaken
  <2> HIDE DEF m, row, ps
  <2> QED
      BY <2>2, <2>3, <2>5, <2>7, <2>8, <2>9, <2>10
<1>7. ASSUME NEW e \in Editors, WriteProvider(e) PROVE ProfileInv'
  <2> DEFINE p == editor[e]
             row == draft[e]
  <2>1. p \in Providers /\ row \in ProviderRow /\ row.degraded \in BOOLEAN
      BY <1>7 DEF WriteProvider, ProviderRow
  <2>2. /\ UNCHANGED <<models, chosen>>
        /\ providers' = [providers EXCEPT ![p] = row]
        /\ failing' = IF row.degraded THEN failing \cup {p} ELSE failing
        /\ editor' = [editor EXCEPT ![e] = NoProfile] /\ draft' = [draft EXCEPT ![e] = NoDraft]
        /\ outdated' = Overtaken({p}) \ {e}
        /\ undone' = IF e \in outdated THEN undone \cup {p} ELSE undone
      BY <1>7 DEF WriteProvider, WritesBack
  <2>3. ProfileTypeOK'
    <3>1. draft' \in [Editors -> ModelRow \cup ProviderRow]
        BY <2>2 DEF NoDraft, ProviderRow
    <3> QED
        BY <2>1, <2>2, <3>1 DEF Overtaken
  <2>4. OneDefault' /\ DefaultIsTheChosen'
      BY <2>1, <2>2 DEF OneDefault, DefaultIsTheChosen
  <2>5. HealthIsAsFlagged'
    <3>1. \A q \in Providers \ {p} : providers'[q] = providers[q] /\ (q \in failing' <=> q \in failing)
        BY <2>2
    <3>2. providers'[p] = row
        BY <2>1, <2>2
    <3>3. e \notin outdated /\ p \notin undone => (row.degraded <=> p \in failing')
        BY <2>1, <2>2 DEF HealthIsAsFlagged
    <3> QED
        BY <2>1, <2>2, <3>1, <3>2, <3>3 DEF HealthIsAsFlagged
  <2>6. \A f \in Editors :
             /\ f # e => editor'[f] = editor[f] /\ draft'[f] = draft[f]
             /\ f = e => editor'[f] = NoProfile
             /\ f # e /\ f \notin outdated' => f \notin outdated /\ editor[f] # p
      BY <2>2 DEF Overtaken
  <2> HIDE DEF p, row
  <2> QED
      BY <2>1, <2>2, <2>3, <2>4, <2>5, <2>6
<1>8. CASE UNCHANGED profileVars
    BY <1>8 DEF profileVars, OneDefault, DefaultIsTheChosen, HealthIsAsFlagged
<1> QED
    BY <1>1, <1>2, <1>3, <1>4, <1>5, <1>6, <1>7, <1>8 DEF ProfileNext

\* One model at most is the default, and it is the one a caller has registered
\* as it; a provider is degraded as long as nobody has registered it as healthy.
\* For any models, providers and editors, and wherever no row was written over
\* by an old copy of it.
THEOREM TogglesKeepProfiles == ProfileSpec => []ProfilesAreKept
<1>1. ProfileInv => ProfilesAreKept
    BY DEF ProfileInv
<1> QED
    BY <1>1, ProfileStart, ProfileStep, PTL DEF ProfileSpec

---------------------------------------------------------------------------
(* Quotas                                                                  *)

InManager(c) == charge[c] \in {"read", "check", "save"}
UnderWay(c) == charge[c] \in {"check", "save"}

\* A call in a manager has its lock.
LocksHeld ==
    /\ \A c \in Charges : InManager(c) => ManagerOf[c] \in locked
    /\ \A c, d \in Charges : InManager(c) /\ InManager(d) /\ ManagerOf[c] = ManagerOf[d] => c = d

\* A call between its read and its write is alone there and has the row as it
\* is, and the row is all that was ever allowed.
Sums == usage.today = used /\ usage.month = used /\ used <= DailyLimit
Alone == \A c, d \in Charges : UnderWay(c) /\ UnderWay(d) => c = d
Fresh == \A c \in Charges : /\ UnderWay(c) => seen[c] = usage
                            /\ charge[c] = "save" => used + Tokens[c] <= DailyLimit

QuotaInv ==
    /\ QuotaTypeOK
    /\ LocksHeld
    /\ chargesCrossed \/ (Sums /\ Alone /\ Fresh)

LEMMA QuotaStart == QuotaInit => QuotaInv
<1> SUFFICES ASSUME QuotaInit PROVE QuotaInv
    OBVIOUS
<1> USE QuotaAssumption DEF QuotaAssumption
<1>1. Zero \in Counters /\ usage.today = 0 /\ usage.month = 0 /\ used = 0
    BY DEF Zero, Counters, QuotaInit
<1>2. chargesCrossed \in BOOLEAN
    BY Zenon DEF QuotaInit
<1>3. QuotaTypeOK
    BY <1>1, <1>2 DEF QuotaTypeOK, QuotaInit
<1>4. \A c \in Charges : charge[c] = "new"
    BY DEF QuotaInit
<1>5. LocksHeld
    BY <1>4 DEF LocksHeld, InManager
<1>6. Sums
    BY <1>1 DEF Sums
<1>7. Alone /\ Fresh
    BY <1>4 DEF Alone, Fresh, UnderWay
<1> QED
    BY <1>3, <1>5, <1>6, <1>7 DEF QuotaInv

\* A call of a manager that goes on within it, or leaves it.
LEMMA LocksGoOn ==
    ASSUME LocksHeld, NEW c \in Charges, InManager(c),
           \A d \in Charges \ {c} : charge'[d] = charge[d],
           InManager(c)' => locked' = locked,
           ~InManager(c)' => locked' = locked \ {ManagerOf[c]}
    PROVE  LocksHeld'
<1>1. \A d \in Charges : InManager(d)' => InManager(d)
    BY DEF InManager
<1>2. \A d \in Charges : InManager(d)' => ManagerOf[d] \in locked'
    BY <1>1 DEF LocksHeld
<1> QED
    BY <1>1, <1>2 DEF LocksHeld

LEMMA QuotaStep == QuotaInv /\ [QuotaNext]_quotaVars => QuotaInv'
<1> SUFFICES ASSUME QuotaInv, [QuotaNext]_quotaVars PROVE QuotaInv'
    OBVIOUS
<1> USE QuotaAssumption DEF QuotaAssumption
<1>a. QuotaTypeOK /\ LocksHeld
    BY DEF QuotaInv
<1>1. ASSUME NEW c \in Charges, EnterManager(c) PROVE QuotaInv'
  <2>1. /\ charge[c] = "new" /\ charge' = [charge EXCEPT ![c] = "read"]
        /\ ManagerOf[c] \notin locked /\ locked' = locked \cup {ManagerOf[c]}
        /\ UNCHANGED <<seen, usage, day, usedToday, used, chargesCrossed>>
      BY <1>1 DEF EnterManager, ChargeGoes
  <2>2. \A d \in Charges : charge'[d] = IF d = c THEN "read" ELSE charge[d]
      BY <1>a, <2>1 DEF QuotaTypeOK
  <2>3. QuotaTypeOK'
      BY <1>a, <2>1 DEF QuotaTypeOK
  <2>4. LocksHeld'
      BY <1>a, <2>1, <2>2 DEF LocksHeld, InManager
  <2>5. Sums => Sums'
      BY <2>1 DEF Sums
  <2>6. Alone /\ Fresh => Alone' /\ Fresh'
      BY <2>1, <2>2 DEF Alone, Fresh, UnderWay
  <2> QED
      BY <2>1, <2>3, <2>4, <2>5, <2>6 DEF QuotaInv
<1>2. ASSUME NEW c \in Charges, ReadUsage(c) PROVE QuotaInv'
  <2>1. /\ charge[c] = "read" /\ charge' = [charge EXCEPT ![c] = "check"]
        /\ seen' = [seen EXCEPT ![c] = usage]
        /\ UNCHANGED <<locked, usage, day, usedToday, used>>
      BY <1>2 DEF ReadUsage, ChargeGoes
  <2>2. chargesCrossed' \in BOOLEAN
      BY <1>2, Zenon DEF ReadUsage
  <2>3. ~chargesCrossed' => ~chargesCrossed /\ \A d \in Charges \ {c} : ~UnderWay(d)
      BY <1>2, <1>a, <2>1 DEF ReadUsage, LocksHeld, InManager, UnderWay
  <2>4. QuotaTypeOK'
      BY <1>a, <2>1, <2>2 DEF QuotaTypeOK
  <2>5. \A d \in Charges : charge'[d] = IF d = c THEN "check" ELSE charge[d]
      BY <1>a, <2>1 DEF QuotaTypeOK
  <2>6. seen'[c] = usage
      BY <1>a, <2>1 DEF QuotaTypeOK
  <2>7. LocksHeld'
      BY <1>a, <2>1, <2>5, LocksGoOn DEF InManager
  <2>8. Sums => Sums'
      BY <2>1 DEF Sums
  <2>9. (\A d \in Charges \ {c} : ~UnderWay(d)) => Alone' /\ Fresh'
      BY <2>1, <2>5, <2>6 DEF Alone, Fresh, UnderWay
  <2> QED
      BY <2>3, <2>4, <2>7, <2>8, <2>9 DEF QuotaInv
<1>3. ASSUME NEW c \in Charges, Refuse(c) \/ ChargeFails(c) PROVE QuotaInv'
  <2>1. /\ InManager(c) /\ locked' = locked \ {ManagerOf[c]}
        /\ UNCHANGED <<seen, usage, day, usedToday, used, chargesCrossed>>
      BY <1>3 DEF Refuse, ChargeFails, ChargeGoes, InManager
  <2>2. PICK s \in {"refused", "unfair", "failed"} : charge' = [charge EXCEPT ![c] = s]
      BY <1>3, Zenon DEF Refuse, ChargeFails, ChargeGoes
  <2>3. \A d \in Charges : charge'[d] = IF d = c THEN s ELSE charge[d]
      BY <1>a, <2>2 DEF QuotaTypeOK
  <2>4. QuotaTypeOK'
      BY <1>a, <2>1, <2>2 DEF QuotaTypeOK
  <2>5. LocksHeld'
      BY <1>a, <2>1, <2>3, LocksGoOn DEF InManager
  <2>6. Sums => Sums'
      BY <2>1 DEF Sums
  <2>7. Alone /\ Fresh => Alone' /\ Fresh'
      BY <2>1, <2>3 DEF Alone, Fresh, UnderWay
  <2> QED
      BY <2>1, <2>4, <2>5, <2>6, <2>7 DEF QuotaInv
<1>4. ASSUME NEW c \in Charges, Allow(c) PROVE QuotaInv'
  <2>1. /\ charge[c] = "check" /\ charge' = [charge EXCEPT ![c] = "save"]
        /\ seen[c].today + Tokens[c] <= DailyLimit
        /\ UNCHANGED <<locked, seen, usage, day, usedToday, used, chargesCrossed>>
      BY <1>4 DEF Allow, ChargeGoes, WithinLimit
  <2>2. \A d \in Charges : charge'[d] = IF d = c THEN "save" ELSE charge[d]
      BY <1>a, <2>1 DEF QuotaTypeOK
  <2>3. QuotaTypeOK'
      BY <1>a, <2>1 DEF QuotaTypeOK
  <2>4. LocksHeld'
      BY <1>a, <2>1, <2>2, LocksGoOn DEF InManager
  <2>5. Sums => Sums'
      BY <2>1 DEF Sums
  <2>6. Sums /\ Fresh => used + Tokens[c] <= DailyLimit
      BY <2>1 DEF Sums, Fresh, UnderWay
  <2>7. Sums /\ Alone /\ Fresh => Alone' /\ Fresh'
      BY <2>1, <2>2, <2>6 DEF Alone, Fresh, UnderWay
  <2> QED
      BY <2>1, <2>3, <2>4, <2>5, <2>7 DEF QuotaInv
<1>5. ASSUME NEW c \in Charges, SaveUsage(c) PROVE QuotaInv'
  <2>1. /\ charge[c] = "save" /\ charge' = [charge EXCEPT ![c] = "allowed"]
        /\ usage' = [today |-> seen[c].today + Tokens[c], month |-> seen[c].month + Tokens[c]]
        /\ used' = used + Tokens[c] /\ usedToday' = usedToday + Tokens[c]
        /\ locked' = locked \ {ManagerOf[c]}
        /\ UNCHANGED <<seen, day, chargesCrossed>>
      BY <1>5 DEF SaveUsage, ChargeGoes
  <2>2. /\ seen[c].today \in Nat /\ seen[c].month \in Nat /\ Tokens[c] \in Nat
        /\ usage'.today = seen[c].today + Tokens[c] /\ usage'.month = seen[c].month + Tokens[c]
      BY <1>a, <2>1 DEF QuotaTypeOK, Counters
  <2>3. QuotaTypeOK'
      BY <1>a, <2>1, <2>2 DEF QuotaTypeOK, Counters
  <2>4. \A d \in Charges : charge'[d] = IF d = c THEN "allowed" ELSE charge[d]
      BY <1>a, <2>1 DEF QuotaTypeOK
  <2>5. LocksHeld'
      BY <1>a, <2>1, <2>4, LocksGoOn DEF InManager
  <2>6. Sums /\ Fresh => Sums'
      BY <2>1, <2>2 DEF Sums, Fresh, UnderWay
  <2>7. Alone => \A d \in Charges : ~UnderWay(d)'
      BY <2>1, <2>4 DEF Alone, UnderWay
  <2>8. Alone => Alone' /\ Fresh'
      BY <2>7 DEF Alone, Fresh, UnderWay
  <2> QED
      BY <2>1, <2>3, <2>5, <2>6, <2>8 DEF QuotaInv
<1>6. CASE NextDay
  <2>1. QuotaTypeOK'
      BY <1>a, <1>6 DEF NextDay, QuotaTypeOK
  <2> QED
      BY <1>6, <2>1 DEF NextDay, QuotaInv, LocksHeld, InManager, Sums, Alone, Fresh, UnderWay
<1>7. CASE UNCHANGED quotaVars
    BY <1>7 DEF quotaVars, QuotaInv, QuotaTypeOK, LocksHeld, InManager, Sums, Alone, Fresh,
                UnderWay
<1> QED
    BY <1>1, <1>2, <1>3, <1>4, <1>5, <1>6, <1>7 DEF QuotaNext

LEMMA QuotaAlways == QuotaSpec => []QuotaInv
BY QuotaStart, QuotaStep, PTL DEF QuotaSpec

\* The row of usage has every token that was allowed unless calls through two
\* managers crossed, for any calls, managers and tokens.
THEOREM TokensAreCounted == QuotaSpec => []NoTokenIsLost
<1>1. QuotaInv => NoTokenIsLost
    BY DEF QuotaInv, NoTokenIsLost, Sums
<1> QED
    BY <1>1, QuotaAlways, PTL

\* What is allowed in all days together stays within the daily limit unless
\* calls through two managers crossed, for any calls, tokens and days.
THEOREM QuotaHolds == QuotaSpec => []LimitHolds
<1>1. QuotaInv => LimitHolds
    BY DEF QuotaInv, LimitHolds, Sums
<1> QED
    BY <1>1, QuotaAlways, PTL

\* Both together: the count is right, and so is what it lets through.
THEOREM UsageIsCounted == QuotaSpec => []UsageIsExact
<1>1. NoTokenIsLost /\ LimitHolds => UsageIsExact
    BY DEF UsageIsExact
<1>2. QED
    BY <1>1, TokensAreCounted, QuotaHolds, PTL

---------------------------------------------------------------------------
(* The cache with its fallback                                             *)

\* As long as redis does not fail and writes do not race, one of the two
\* stores has the value and calls go to that one only.
CacheInv ==
    /\ CacheTypeOK
    /\ ~faulted =>
           /\ \A c, d \in Writing : c = d
           /\ withRedis => /\ inRedis = latest /\ inMemory = Nothing
                           /\ \A c \in CacheCalls : call[c] \notin {"fallback", "miss"}
           /\ ~withRedis => /\ inMemory = latest /\ inRedis = Nothing
                            /\ \A c \in CacheCalls : call[c] \notin {"write", "get"}

LEMMA CacheStart == CacheInit => CacheInv
BY CacheAssumption DEF CacheAssumption, CacheInit, CacheInv, CacheTypeOK, Contents, Writing

LEMMA CacheStep ==
    CacheInv /\ [CacheNext]_cacheVars =>
        /\ CacheInv'
        /\ \A c \in CacheCalls : call[c] \in {"get", "miss"} /\ call'[c] = "over" =>
               served' = latest \/ Writing # {} \/ faulted
<1> DEFINE Latest == \A c \in CacheCalls : call[c] \in {"get", "miss"} /\ call'[c] = "over" =>
                         served' = latest \/ Writing # {} \/ faulted
<1> SUFFICES ASSUME CacheInv, [CacheNext]_cacheVars PROVE CacheInv' /\ Latest
    OBVIOUS
<1> USE CacheAssumption DEF CacheAssumption, CacheInv, CacheTypeOK, Contents, Writing
<1>1. ASSUME NEW c \in CacheCalls, NEW v \in Contents, BeginWrite(c, v) PROVE CacheInv' /\ Latest
    BY <1>1 DEF BeginWrite, CallGoes
<1>2. ASSUME NEW c \in CacheCalls, WriteRedis(c) PROVE CacheInv' /\ Latest
    BY <1>2 DEF WriteRedis, CallGoes
<1>3. ASSUME NEW c \in CacheCalls, RedisRaises(c) PROVE CacheInv' /\ Latest
    BY <1>3 DEF RedisRaises, CallGoes
<1>4. ASSUME NEW c \in CacheCalls, WriteMemory(c) PROVE CacheInv' /\ Latest
    BY <1>4 DEF WriteMemory, CallGoes
<1>5. ASSUME NEW c \in CacheCalls, BeginGet(c) PROVE CacheInv' /\ Latest
    BY <1>5 DEF BeginGet, CallGoes
<1>6. ASSUME NEW c \in CacheCalls, GetRedis(c) PROVE CacheInv' /\ Latest
    BY <1>6 DEF GetRedis, CallGoes
<1>7. ASSUME NEW c \in CacheCalls, GetMemory(c) PROVE CacheInv' /\ Latest
    BY <1>7 DEF GetMemory, CallGoes
<1>8. CASE Expire
    BY <1>8 DEF Expire
<1>9. CASE ClearCache
    BY <1>9 DEF ClearCache
<1>10. CASE UNCHANGED cacheVars
    BY <1>10 DEF cacheVars
<1> QED
    BY <1>1, <1>2, <1>3, <1>4, <1>5, <1>6, <1>7, <1>8, <1>9, <1>10 DEF CacheNext

LEMMA CacheAlways == CacheSpec => []CacheInv
BY CacheStart, CacheStep, PTL DEF CacheSpec

\* Between writes there is one copy of the value as long as redis does not
\* fail and writes do not race, for any calls and values.
THEOREM CacheHasOneCopy == CacheSpec => []OneCopy
<1>1. CacheInv => OneCopy
    BY DEF CacheInv, OneCopy
<1> QED
    BY <1>1, CacheAlways, PTL

\* A get returns what the last write left as long as redis does not fail and
\* writes do not race, for any calls and values.
THEOREM GetsAreFresh == CacheSpec => GetReturnsLatest
<1>1. CacheInv /\ [CacheNext]_cacheVars =>
          [\A c \in CacheCalls : call[c] \in {"get", "miss"} /\ call'[c] = "over" =>
               served' = latest \/ Writing # {} \/ faulted]_cacheVars
    BY CacheStep
<1> QED
    BY <1>1, CacheAlways, PTL DEF CacheSpec, GetReturnsLatest

---------------------------------------------------------------------------
(* Sandbox sessions                                                        *)

\* A session that is removed is marked before, and its directory is there
\* until then, unless a command removed it; an upload that may still make the
\* directory of a marked session was seen when it was marked.
SandboxInv ==
    /\ SandboxTypeOK
    /\ \A s \in table : status[s] = "active" /\ removal[s] = "none"
    /\ \A s \in Sessions : /\ status[s] = "active" =>
                                  /\ s \in directory \/ "command" \in cause[s]
                                  /\ removal[s] \in {"none", "mark"}
                           /\ status[s] = "none" => removal[s] = "none" /\ s \notin table
    /\ \A r \in Requests : /\ request[r] # "new" => uses[r] \in Sessions
                           /\ request[r] \in {"checked", "write"} =>
                                  \/ status[uses[r]] = "active"
                                  \/ "upload" \in cause[uses[r]]
    /\ LeftoversHaveACause

LEMMA SandboxStart == SandboxInit => SandboxInv
BY DEF SandboxInit, SandboxInv, SandboxTypeOK, LeftoversHaveACause

LEMMA SandboxStep == SandboxInv /\ [SandboxNext]_sandboxVars => SandboxInv'
<1> SUFFICES ASSUME SandboxInv, [SandboxNext]_sandboxVars PROVE SandboxInv'
    OBVIOUS
<1> USE SandboxAssumption DEF SandboxAssumption, SandboxInv, SandboxTypeOK, LeftoversHaveACause
<1>1. ASSUME NEW s \in Sessions, CreateSession(s) PROVE SandboxInv'
    BY <1>1 DEF CreateSession
<1>2. ASSUME NEW r \in Requests, NEW s \in Sessions, FindSession(r, s) PROVE SandboxInv'
    BY <1>2 DEF FindSession, Moves
<1>3. ASSUME NEW r \in Requests, CheckUpload(r) PROVE SandboxInv'
    BY <1>3 DEF CheckUpload, Moves
<1>4. ASSUME NEW r \in Requests, MakeDirectory(r) PROVE SandboxInv'
    BY <1>4 DEF MakeDirectory, Moves
<1>5. ASSUME NEW r \in Requests, WriteFile(r) PROVE SandboxInv'
    BY <1>5 DEF WriteFile, Moves
<1>6. ASSUME NEW r \in Requests, CheckCommand(r) PROVE SandboxInv'
    BY <1>6 DEF CheckCommand, Moves
<1>7. ASSUME NEW r \in Requests, LaunchCommand(r) PROVE SandboxInv'
    BY <1>7 DEF LaunchCommand, Moves
<1>8. ASSUME NEW r \in Requests, NEW s \in Sessions, CommandActs(r, s) PROVE SandboxInv'
    BY <1>8 DEF CommandActs, Causes
<1>9. ASSUME NEW r \in Requests, EndCommand(r) PROVE SandboxInv'
    BY <1>9 DEF EndCommand, Moves
<1>10. ASSUME NEW r \in Requests, EndProcess(r) PROVE SandboxInv'
    BY <1>10 DEF EndProcess
<1>11. ASSUME NEW ss \in SUBSET Sessions, TakeOut(ss) PROVE SandboxInv'
    BY <1>11 DEF TakeOut
<1>12. ASSUME NEW s \in Sessions, MarkTerminated(s) PROVE SandboxInv'
    BY <1>12 DEF MarkTerminated, Marked, InUse, Causes
<1>13. ASSUME NEW s \in Sessions, RemoveDirectory(s) PROVE SandboxInv'
    BY <1>13 DEF RemoveDirectory, Causes
<1>14. CASE UNCHANGED sandboxVars
    BY <1>14 DEF sandboxVars
<1> QED
    BY <1>1, <1>2, <1>3, <1>4, <1>5, <1>6, <1>7, <1>8, <1>9, <1>10, <1>11, <1>12,
       <1>13, <1>14 DEF SandboxNext

LEMMA SandboxAlways == SandboxSpec => []SandboxInv
BY SandboxStart, SandboxStep, PTL DEF SandboxSpec

\* An active session has its directory, unless a command removed it, for any
\* sessions and requests.
THEOREM ActiveSessionsHaveDirectories == SandboxSpec => []ActiveHasDirectory
<1>1. SandboxInv => ActiveHasDirectory
    BY DEF SandboxInv, ActiveHasDirectory
<1> QED
    BY <1>1, SandboxAlways, PTL

\* A directory outlives its session only after a removal that failed, an upload
\* that had passed its check, or a command that made it, for any sessions and
\* requests, however they overlap.
THEOREM LeftoversAreAccountedFor == SandboxSpec => []LeftoversHaveACause
<1>1. SandboxInv => LeftoversHaveACause
    BY DEF SandboxInv
<1> QED
    BY <1>1, SandboxAlways, PTL

\* Both together: directories are there when they should be, and only then, but
\* for those causes.
THEOREM DirectoriesFollow == SandboxSpec => []DirectoryFollowsSession
<1>1. LeftoversHaveACause /\ ActiveHasDirectory => DirectoryFollowsSession
    BY DEF DirectoryFollowsSession
<1>2. QED
    BY <1>1, ActiveSessionsHaveDirectories, LeftoversAreAccountedFor, PTL

---------------------------------------------------------------------------
(* Reloading the configuration                                             *)

\* A checker that is about to merge has read the settings' version or a later
\* one, and it is the only one, unless checkers crossed.
MergesForward ==
    \A k \in Checkers : checker[k] = "merge" =>
        /\ read[k] >= settings
        /\ \A l \in Checkers : checker[l] = "merge" => l = k

\* A version whose time was noted is merged or about to be.
NotedIsOnItsWay ==
    lastModified = file /\ file # 1 /\ file \notin Unreadable =>
        \/ settings = file
        \/ \E k \in Checkers : \/ checker[k] = "open"
                               \/ checker[k] = "merge" /\ read[k] = file

ConfigInv ==
    /\ ConfigTypeOK
    /\ lastModified <= file /\ settings <= file
    /\ \A k \in Checkers : mtime[k] <= file /\ read[k] <= file
    /\ checksCrossed \/ (MergesForward /\ NotedIsOnItsWay)

LEMMA ConfigStart == ConfigInit => ConfigInv
<1> SUFFICES ASSUME ConfigInit PROVE ConfigInv
    OBVIOUS
<1> USE ConfigAssumption DEF ConfigAssumption, ConfigInit
<1>1. ConfigTypeOK
    <2>1. active \in BOOLEAN /\ checksCrossed \in BOOLEAN
        BY Zenon
    <2>2. 0 \in FileVersions /\ 1 \in FileVersions
        BY DEF FileVersions
    <2> QED
        BY <2>1, <2>2 DEF ConfigTypeOK
<1>2. lastModified <= file /\ settings <= file
    OBVIOUS
<1>3. \A k \in Checkers : mtime[k] <= file /\ read[k] <= file
    OBVIOUS
<1>4. MergesForward
    BY DEF MergesForward
<1>5. NotedIsOnItsWay
    BY DEF NotedIsOnItsWay
<1> QED
    BY <1>1, <1>2, <1>3, <1>4, <1>5 DEF ConfigInv

LEMMA ConfigStep ==
    ConfigInv /\ [ConfigNext]_configVars => ConfigInv' /\ (settings' >= settings \/ checksCrossed)
<1> DEFINE Forward == settings' >= settings \/ checksCrossed
<1> SUFFICES ASSUME ConfigInv, [ConfigNext]_configVars PROVE ConfigInv' /\ Forward
    OBVIOUS
<1> USE ConfigAssumption
    DEF ConfigAssumption, ConfigInv, ConfigTypeOK, FileVersions, MergesForward, NotedIsOnItsWay
<1>1. CASE EditFile
    <2>1. ConfigTypeOK'
        BY <1>1 DEF EditFile
    <2>2. lastModified' <= file' /\ settings' <= file' /\ settings' >= settings
        BY <1>1 DEF EditFile
    <2>3. \A k \in Checkers : mtime'[k] <= file' /\ read'[k] <= file'
        BY <1>1 DEF EditFile
    <2>4. MergesForward => MergesForward'
        BY <1>1 DEF EditFile
    <2>5. NotedIsOnItsWay'
        BY <1>1 DEF EditFile
    <2>6. checksCrossed' = checksCrossed
        BY <1>1 DEF EditFile
    <2> HIDE DEF ConfigTypeOK, MergesForward, NotedIsOnItsWay
    <2>7. checksCrossed' \/ (MergesForward' /\ NotedIsOnItsWay')
        BY <2>4, <2>5, <2>6, Zenon
    <2> QED
        BY <2>1, <2>2, <2>3, <2>7
<1>2. CASE StopWatcher
    <2>1. ConfigTypeOK'
        BY <1>2 DEF StopWatcher
    <2>2. lastModified' <= file' /\ settings' <= file' /\ settings' >= settings
        BY <1>2 DEF StopWatcher
    <2>3. \A l \in Checkers : mtime'[l] <= file' /\ read'[l] <= file'
        BY <1>2 DEF StopWatcher
    <2>4. checksCrossed' \/ (MergesForward' /\ NotedIsOnItsWay')
        BY <1>2 DEF StopWatcher
    <2> QED
        BY <2>1, <2>2, <2>3, <2>4
<1>3. ASSUME NEW k \in Checkers, ReadTime(k) PROVE ConfigInv' /\ Forward
    BY <1>3 DEF ReadTime
<1>4. ASSUME NEW k \in Checkers, CompareTimes(k) PROVE ConfigInv' /\ Forward
    BY <1>4 DEF CompareTimes
<1>5. ASSUME NEW k \in Checkers, NoteTime(k) PROVE ConfigInv' /\ Forward
    <2>1. ConfigTypeOK'
        BY <1>5 DEF NoteTime
    <2>2. lastModified' <= file' /\ settings' <= file' /\ settings' >= settings
        BY <1>5 DEF NoteTime
    <2>3. \A l \in Checkers : mtime'[l] <= file' /\ read'[l] <= file'
        BY <1>5 DEF NoteTime
    <2>4. MergesForward => MergesForward'
        BY <1>5 DEF NoteTime
    <2>5. NotedIsOnItsWay'
        BY <1>5 DEF NoteTime
    <2>6. checksCrossed' = checksCrossed
        BY <1>5 DEF NoteTime
    <2> HIDE DEF ConfigTypeOK, MergesForward, NotedIsOnItsWay
    <2>7. checksCrossed' \/ (MergesForward' /\ NotedIsOnItsWay')
        BY <2>4, <2>5, <2>6, Zenon
    <2> QED
        BY <2>1, <2>2, <2>3, <2>7
<1>6. ASSUME NEW k \in Checkers, LoadFile(k) PROVE ConfigInv' /\ Forward
    <2>1. ConfigTypeOK'
        BY <1>6 DEF LoadFile
    <2>2. lastModified' <= file' /\ settings' <= file' /\ settings' >= settings
        BY <1>6 DEF LoadFile
    <2>3. \A l \in Checkers : mtime'[l] <= file' /\ read'[l] <= file'
        BY <1>6 DEF LoadFile
    <2>4. checksCrossed' \/ (MergesForward' /\ NotedIsOnItsWay')
        BY <1>6 DEF LoadFile
    <2> QED
        BY <2>1, <2>2, <2>3, <2>4
<1>7. ASSUME NEW k \in Checkers, LoadFails(k) PROVE ConfigInv' /\ Forward
    BY <1>7 DEF LoadFails
<1>8. ASSUME NEW k \in Checkers, MergeSettings(k) PROVE ConfigInv' /\ Forward
    BY <1>8 DEF MergeSettings
<1>9. CASE UNCHANGED configVars
    BY <1>9 DEF configVars
<1> QED
    BY <1>1, <1>2, <1>3, <1>4, <1>5, <1>6, <1>7, <1>8, <1>9 DEF ConfigNext, CheckStep

LEMMA ConfigAlways == ConfigSpec => []ConfigInv
BY ConfigStart, ConfigStep, PTL DEF ConfigSpec

\* A noted version is in force when no check is under way, unless checkers
\* crossed, for any checkers and versions.
THEOREM NotedVersionsAreMerged == ConfigSpec => []NotedMeansMerged
<1>1. ConfigInv => NotedMeansMerged
    BY DEF ConfigInv, NotedIsOnItsWay, NotedMeansMerged
<1> QED
    BY <1>1, ConfigAlways, PTL

\* The settings never go back unless checkers crossed, for any checkers and
\* versions.
THEOREM SettingsAreNotUndone == ConfigSpec => SettingsGoForward
<1>1. ConfigInv /\ [ConfigNext]_configVars => [NotUndone]_configVars
    BY ConfigStep DEF NotUndone
<1> QED
    BY <1>1, ConfigAlways, PTL DEF ConfigSpec, SettingsGoForward

\* Both together: the settings follow the file, and only forwards.
THEOREM SettingsFollow == ConfigSpec => SettingsFollowTheFile
<1>1. NotedMeansMerged' /\ [NotUndone]_configVars =>
          [NotedMeansMerged' /\ NotUndone]_configVars
    OBVIOUS
<1> QED
    BY <1>1, NotedVersionsAreMerged, SettingsAreNotUndone, PTL
    DEF SettingsFollowTheFile, SettingsGoForward

---------------------------------------------------------------------------
(* Backup jobs                                                             *)

\* Until start() finds a loop running only the loop it started last runs, and
\* what that loop calls back is due.
OneRuns ==
    \A l \in Loops : Running(l) => l = current

DueWhenRun ==
    \A l \in Loops : running[l] # NoJob =>
        began[running[l]] = -1 \/ passTime[l] - began[running[l]] >= Interval[running[l]]

JobsInv ==
    /\ BackupTypeOK
    /\ lastRun = began
    /\ \A l \in Loops : running[l] # NoJob => loop[l] = "pass"
    /\ doubled \/ (OneRuns /\ DueWhenRun)
    /\ JoinedMeansStopped

LEMMA BackupStart == BackupInit => JobsInv
<1> SUFFICES ASSUME BackupInit PROVE JobsInv
    OBVIOUS
<1> USE BackupAssumption DEF BackupAssumption, BackupInit, Running
<1>1. BackupTypeOK
    <2>1. stopEvent \in BOOLEAN /\ doubled \in BOOLEAN
        BY Zenon
    <2>2. now \in 0..MaxTime /\ 0 \in 0..MaxTime /\ -1 \in -1..MaxTime
        OBVIOUS
    <2>3. /\ passTime \in [Loops -> 0..MaxTime]
          /\ lastRun \in [Jobs -> -1..MaxTime] /\ began \in [Jobs -> -1..MaxTime]
        BY <2>2
    <2>4. snapshot \in [Loops -> SUBSET Jobs] /\ running \in [Loops -> Jobs \cup {NoJob}]
        OBVIOUS
    <2> QED
        BY <2>1, <2>2, <2>3, <2>4 DEF BackupTypeOK
<1>2. OneRuns
    BY DEF OneRuns
<1>3. \A l \in Loops : running[l] = NoJob
    OBVIOUS
<1>4. JoinedMeansStopped
    BY DEF JoinedMeansStopped
<1> QED
    BY <1>1, <1>2, <1>3, <1>4 DEF JobsInv, DueWhenRun

LEMMA BackupStep ==
    JobsInv /\ [BackupNext]_backupVars =>
        /\ JobsInv'
        /\ \A j \in Jobs : began'[j] # began[j] =>
               doubled \/ began[j] = -1 \/ began'[j] - began[j] >= Interval[j]
<1> DEFINE Apart == \A j \in Jobs : began'[j] # began[j] =>
                        doubled \/ began[j] = -1 \/ began'[j] - began[j] >= Interval[j]
<1> SUFFICES ASSUME JobsInv, [BackupNext]_backupVars PROVE JobsInv' /\ Apart
    OBVIOUS
<1> USE BackupAssumption
    DEF BackupAssumption, JobsInv, BackupTypeOK, OneRuns, DueWhenRun, JoinedMeansStopped, Running
<1>1. ASSUME NEW j \in Jobs, AddJob(j) PROVE JobsInv' /\ Apart
    BY <1>1 DEF AddJob
<1>2. ASSUME NEW j \in Jobs, RemoveJob(j) PROVE JobsInv' /\ Apart
    BY <1>2 DEF RemoveJob
<1>3. ASSUME NEW l \in Loops, StartLoop(l) PROVE JobsInv' /\ Apart
    BY <1>3 DEF StartLoop
<1>4. CASE StopLoops
    BY <1>4 DEF StopLoops
<1>5. CASE JoinLoop
    BY <1>5 DEF JoinLoop
<1>6. CASE JoinTimesOut
    BY <1>6 DEF JoinTimesOut
<1>7. ASSUME NEW l \in Loops, EndLoop(l) PROVE JobsInv' /\ Apart
    BY <1>7 DEF EndLoop
<1>8. ASSUME NEW l \in Loops, BeginPass(l) PROVE JobsInv' /\ Apart
    BY <1>8 DEF BeginPass
<1>9. ASSUME NEW l \in Loops, NEW j \in Jobs, SkipJob(l, j) PROVE JobsInv' /\ Apart
    BY <1>9 DEF SkipJob, Visits
<1>10. ASSUME NEW l \in Loops, NEW j \in Jobs, BeginBackup(l, j) PROVE JobsInv' /\ Apart
    BY <1>10 DEF BeginBackup, Visits, Elapsed
<1>11. ASSUME NEW l \in Loops, BackupTaken(l) PROVE JobsInv' /\ Apart
    BY <1>11 DEF BackupTaken
<1>12. ASSUME NEW l \in Loops, BackupFails(l) PROVE JobsInv' /\ Apart
    BY <1>12 DEF BackupFails
<1>13. ASSUME NEW l \in Loops, EndPass(l) PROVE JobsInv' /\ Apart
    BY <1>13 DEF EndPass
<1>14. ASSUME NEW l \in Loops, Wake(l) PROVE JobsInv' /\ Apart
    BY <1>14 DEF Wake
<1>15. CASE TimePasses
    BY <1>15 DEF TimePasses
<1>16. CASE UNCHANGED backupVars
    BY <1>16 DEF backupVars
<1> QED
    BY <1>1, <1>2, <1>3, <1>4, <1>5, <1>6, <1>7, <1>8, <1>9, <1>10, <1>11, <1>12, <1>13, <1>14,
       <1>15, <1>16 DEF BackupNext, LoopStep

LEMMA BackupAlways == BackupSpec => []JobsInv
BY BackupStart, BackupStep, PTL DEF BackupSpec

\* A stop() that has joined its thread leaves no loop running, short of a
\* start() that found one, for any loops and jobs.
THEOREM JoinedLoopsAreStopped == BackupSpec => []JoinedMeansStopped
<1>1. JobsInv => JoinedMeansStopped
    BY DEF JobsInv
<1> QED
    BY <1>1, BackupAlways, PTL

\* The backups of a job are its interval apart, short of such a start(), for
\* any loops, jobs and intervals.
THEOREM BackupsKeepTheirInterval == BackupSpec => BackupsAreApart
<1>1. JobsInv /\ [BackupNext]_backupVars =>
          [\A j \in Jobs : began'[j] # began[j] =>
               doubled \/ began[j] = -1 \/ began'[j] - began[j] >= Interval[j]]_backupVars
    BY BackupStep
<1> QED
    BY <1>1, BackupAlways, PTL DEF BackupSpec, BackupsAreApart

---------------------------------------------------------------------------
(* Document chat                                                           *)

\* The places of a turn in the "with lock" block.
Inside == {"lookup", "stamp", "copy", "history", "save", "search", "user", "assistant", "store"}

\* A turn that was asked has its arguments.
TurnTypes ==
    /\ ChatTypeOK
    /\ \A t \in Turns : step[t] # "idle" => conv[t] \in Conversations /\ query[t] \in Queries
    /\ \A t \in Turns : step[t] \in {"stamp", "copy"} => hit[t] \in Turns

\* A turn past the lock holds it, and nobody else does.
LockInv == \A t \in Turns : step[t] \in Inside => owner[conv[t]] = t

\* What is cached, and what a turn has hit, is the answer of a turn that is
\* done; a stamped dict names the conversation of a turn that hit it.
HitInv ==
    /\ \A q \in Queries : /\ cached[q] # NoTurn => step[cached[q]] = "done"
                          /\ onDisk[q] # NoTurn => step[onDisk[q]] = "done"
    /\ \A t \in Turns : /\ step[t] \in {"idle", "lock", "lookup"} =>
                               hit[t] = NoTurn /\ reply[t].names = NoTurn
                        /\ hit[t] # NoTurn => step[hit[t]] = "done"
                        /\ step[t] = "copy" =>
                               \E u \in Turns : hit[u] = hit[t] /\ conv[u] = stamp[hit[t]]
    /\ MisaddressedOnlyByOverlap

\* A conversation that has a row and no history was inserted by the API, by a
\* turn that failed, or by the turn that is about to write its question.
RowInv ==
    /\ \A t \in Turns : step[t] = "save" => messages[conv[t]] = <<>>
    /\ \A c \in conversations :
           \/ c \in inserted \/ messages[c] # <<>>
           \/ \E u \in Turns : step[u] \in {"failed", "search", "user"} /\ conv[u] = c

\* An unanswered question is the last message of its conversation, and its
\* turn is about to answer it, or it has failed.
PairInv ==
    /\ \A t \in Turns : step[t] = "assistant" =>
           /\ messages[conv[t]] # <<>>
           /\ messages[conv[t]][Len(messages[conv[t]])] = [turn |-> t, role |-> "user"]
    /\ \A c \in Conversations : \A i \in 1..Len(messages[c]) :
           conv[messages[c][i].turn] = c /\ step[messages[c][i].turn] # "idle"
    /\ HistoryIsPaired

\* The answer of turn m is in the history of its conversation, as far as that
\* was kept.
HasAnswer(m) == m \in forgotten \/
    \E i \in 1..Len(messages[conv[m]]) :
        messages[conv[m]][i] = [turn |-> m, role |-> "assistant"]

\* An answer is in the history before it is stored in the cache.
CachedInv ==
    /\ \A t \in Turns : step[t] = "store" => HasAnswer(t)
    /\ \A q \in Queries, m \in Turns :
           m \in {cached[q], onDisk[q]} => query[m] = q /\ step[m] = "done" /\ HasAnswer(m)

LEMMA TypeSteps == TurnTypes /\ [ChatNext]_chatVars => TurnTypes'
<1> SUFFICES ASSUME TurnTypes, [ChatNext]_chatVars PROVE TurnTypes'
    OBVIOUS
<1> USE ChatAssumption DEF ChatAssumption
<1>1. ASSUME NEW t \in Turns, TakeLock(t) PROVE TurnTypes'
    BY <1>1 DEF TakeLock, Goes, TurnTypes, ChatTypeOK, Places
<1>2. ASSUME NEW t \in Turns, FindCached(t) PROVE TurnTypes'
    BY <1>2 DEF FindCached, Goes, TurnTypes, ChatTypeOK, Places
<1>3. ASSUME NEW t \in Turns, LookPast(t) PROVE TurnTypes'
    BY <1>3 DEF LookPast, Goes, TurnTypes, ChatTypeOK, Places
<1>4. ASSUME NEW t \in Turns, StampId(t) PROVE TurnTypes'
    BY <1>4 DEF StampId, Goes, TurnTypes, ChatTypeOK, Places
<1>5. ASSUME NEW t \in Turns, ReturnCached(t) PROVE TurnTypes'
    <2>1. stamp[hit[t]] \in Conversations \cup {NoTurn} /\ hit[t] \in Turns
        BY <1>5 DEF ReturnCached, Goes, Release, TurnTypes, ChatTypeOK, Places, Ended
    <2> QED
        BY <1>5, <2>1 DEF ReturnCached, Goes, Release, TurnTypes, ChatTypeOK, Places, Ended
<1>6. ASSUME NEW t \in Turns, ReadHistory(t) PROVE TurnTypes'
    BY <1>6 DEF ReadHistory, Goes, TurnTypes, ChatTypeOK, Places
<1>7. ASSUME NEW t \in Turns, SaveConversation(t) PROVE TurnTypes'
    BY <1>7 DEF SaveConversation, Goes, TurnTypes, ChatTypeOK, Places
<1>8. ASSUME NEW t \in Turns, SaveRefused(t) PROVE TurnTypes'
    BY <1>8 DEF SaveRefused, Raise, Release, TurnTypes, ChatTypeOK, Places, Ended
<1>9. ASSUME NEW t \in Turns, CallFails(t) PROVE TurnTypes'
    BY <1>9 DEF CallFails, Raise, Release, TurnTypes, ChatTypeOK, Places, Ended
<1>10. ASSUME NEW t \in Turns, SearchDocuments(t) PROVE TurnTypes'
    BY <1>10 DEF SearchDocuments, Goes, TurnTypes, ChatTypeOK, Places
<1>11. ASSUME NEW t \in Turns, AddQuestion(t) PROVE TurnTypes'
    BY <1>11 DEF AddQuestion, AddMessage, Goes, TurnTypes, ChatTypeOK, Places, Messages
<1>12. ASSUME NEW t \in Turns, AddAnswer(t) PROVE TurnTypes'
    BY <1>12 DEF AddAnswer, AddMessage, Goes, TurnTypes, ChatTypeOK, Places, Messages
<1>13. ASSUME NEW t \in Turns, StoreAnswer(t) PROVE TurnTypes'
    <2>1. /\ cached' \in [Queries -> Turns \cup {NoTurn}]
          /\ stamp' \in [Turns -> Conversations \cup {NoTurn}]
        BY <1>13
           DEF StoreAnswer, Goes, Release, TurnTypes, ChatTypeOK, Places, NothingCached,
               Ended
    <2>2. onDisk' \in [Queries -> Turns \cup {NoTurn}]
        <3>1. onDisk' \in {cached', cached, onDisk, NothingCached}
            BY <1>13 DEF StoreAnswer
        <3>2. NothingCached \in [Queries -> Turns \cup {NoTurn}]
            BY DEF NothingCached
        <3> QED
            BY <2>1, <3>1, <3>2 DEF TurnTypes, ChatTypeOK
    <2>3. reply' \in [Turns -> [answer : Turns \cup {NoTurn}, names : Conversations \cup {NoTurn}]]
        BY <1>13
           DEF StoreAnswer, Goes, Release, TurnTypes, ChatTypeOK, Places, NothingCached,
               Ended
    <2>4. step' \in [Turns -> Places] /\ owner' \in [Conversations -> Turns \cup {NoTurn}]
        BY <1>13
           DEF StoreAnswer, Goes, Release, TurnTypes, ChatTypeOK, Places, NothingCached,
               Ended
    <2>5. step[t] = "store" /\ step' = [step EXCEPT ![t] = "done"]
        BY <1>13
           DEF StoreAnswer, Goes, Release, TurnTypes, ChatTypeOK, Places, NothingCached,
               Ended
    <2>6. UNCHANGED <<conv, query, hit, conversations, messages,
                      version, basedOn, inserted, forgotten, restarts>>
        BY <1>13
           DEF StoreAnswer, Goes, Release, TurnTypes, ChatTypeOK, Places, NothingCached,
               Ended
    <2> QED
        BY <2>1, <2>2, <2>3, <2>4, <2>5, <2>6
           DEF TurnTypes, ChatTypeOK, Places, Ended, NoReply, NothingCached, Messages
<1>14. ASSUME NEW t \in Turns, NEW c \in Conversations, NEW q \in Queries, AskTurn(t, c, q)
       PROVE  TurnTypes'
    BY <1>14 DEF AskTurn, Goes, TurnTypes, ChatTypeOK, Places
<1>15. ASSUME NEW c \in Conversations, InsertConversation(c) PROVE TurnTypes'
    BY <1>15 DEF InsertConversation, TurnTypes, ChatTypeOK, Places
<1>16. CASE ChangeDocuments
    <2>1. version' \in 0..MaxChanges
        BY <1>16 DEF ChangeDocuments, TurnTypes, ChatTypeOK, Places
    <2> QED
        BY <1>16, <2>1 DEF ChangeDocuments, TurnTypes, ChatTypeOK, Places
<1>17. CASE RestartServer
    <2>1. restarts' \in 0..MaxRestarts
        BY <1>17 DEF RestartServer, TurnTypes, ChatTypeOK, Places, Ended
    <2>2. step' \in [Turns -> Places] /\ owner' \in [Conversations -> Turns \cup {NoTurn}]
        BY <1>17 DEF RestartServer, TurnTypes, ChatTypeOK, Places, Ended
    <2>3. \A t \in Turns : step'[t] \in {step[t], "failed"}
                           /\ (step[t] = "idle" => step'[t] = "idle")
        BY <1>17 DEF RestartServer, TurnTypes, ChatTypeOK, Places, Ended
    <2>4. messages' \in [Conversations -> Seq(Messages)]
        <3>1. [c \in Conversations |-> <<>>] \in [Conversations -> Seq(Messages)]
            BY EmptySeq
        <3>2. messages' = messages \/ messages' = [c \in Conversations |-> <<>>]
            BY <1>17 DEF RestartServer, KeepTables, LoseTables
        <3> QED
            BY <3>1, <3>2 DEF TurnTypes, ChatTypeOK
    <2>5. conversations' \subseteq Conversations /\ inserted' \subseteq Conversations
          /\ forgotten' \subseteq Turns
        BY <1>17 DEF RestartServer, KeepTables, LoseTables, TurnTypes, ChatTypeOK
    <2> QED
        BY <1>17, <2>1, <2>2, <2>3, <2>4, <2>5
           DEF RestartServer, TurnTypes, ChatTypeOK, Places, Ended
<1>18. CASE UNCHANGED chatVars
    BY <1>18 DEF chatVars, TurnTypes, ChatTypeOK, Places
<1> QED
    BY <1>1, <1>2, <1>3, <1>4, <1>5, <1>6, <1>7, <1>8, <1>9, <1>10,
       <1>11, <1>12, <1>13, <1>14, <1>15, <1>16, <1>17, <1>18
       DEF ChatNext, TurnStep

LEMMA LockSteps == TurnTypes /\ LockInv /\ [ChatNext]_chatVars => LockInv'
<1> SUFFICES ASSUME TurnTypes, LockInv, [ChatNext]_chatVars PROVE LockInv'
    OBVIOUS
<1> USE ChatAssumption DEF ChatAssumption
<1>1. ASSUME NEW t \in Turns, TakeLock(t) PROVE LockInv'
    BY <1>1 DEF TakeLock, Goes, TurnTypes, ChatTypeOK, LockInv, Inside
<1>2. ASSUME NEW t \in Turns, FindCached(t) PROVE LockInv'
    BY <1>2 DEF FindCached, Goes, TurnTypes, ChatTypeOK, LockInv, Inside
<1>3. ASSUME NEW t \in Turns, LookPast(t) PROVE LockInv'
    BY <1>3 DEF LookPast, Goes, TurnTypes, ChatTypeOK, LockInv, Inside
<1>4. ASSUME NEW t \in Turns, StampId(t) PROVE LockInv'
    BY <1>4 DEF StampId, Goes, TurnTypes, ChatTypeOK, LockInv, Inside
<1>5. ASSUME NEW t \in Turns, ReturnCached(t) PROVE LockInv'
    BY <1>5 DEF ReturnCached, Goes, Release, TurnTypes, ChatTypeOK, LockInv, Inside
<1>6. ASSUME NEW t \in Turns, ReadHistory(t) PROVE LockInv'
    BY <1>6 DEF ReadHistory, Goes, TurnTypes, ChatTypeOK, LockInv, Inside
<1>7. ASSUME NEW t \in Turns, SaveConversation(t) PROVE LockInv'
    BY <1>7 DEF SaveConversation, Goes, TurnTypes, ChatTypeOK, LockInv, Inside
<1>8. ASSUME NEW t \in Turns, SaveRefused(t) PROVE LockInv'
    BY <1>8 DEF SaveRefused, Raise, Release, TurnTypes, ChatTypeOK, LockInv, Inside
<1>9. ASSUME NEW t \in Turns, CallFails(t) PROVE LockInv'
    BY <1>9 DEF CallFails, Raise, Release, TurnTypes, ChatTypeOK, LockInv, Inside
<1>10. ASSUME NEW t \in Turns, SearchDocuments(t) PROVE LockInv'
    BY <1>10 DEF SearchDocuments, Goes, TurnTypes, ChatTypeOK, LockInv, Inside
<1>11. ASSUME NEW t \in Turns, AddQuestion(t) PROVE LockInv'
    BY <1>11 DEF AddQuestion, AddMessage, Goes, TurnTypes, ChatTypeOK, LockInv, Inside
<1>12. ASSUME NEW t \in Turns, AddAnswer(t) PROVE LockInv'
    BY <1>12 DEF AddAnswer, AddMessage, Goes, TurnTypes, ChatTypeOK, LockInv, Inside
<1>13. ASSUME NEW t \in Turns, StoreAnswer(t) PROVE LockInv'
    BY <1>13 DEF StoreAnswer, Goes, Release, TurnTypes, ChatTypeOK, LockInv, Inside
<1>14. ASSUME NEW t \in Turns, NEW c \in Conversations, NEW q \in Queries, AskTurn(t, c, q)
       PROVE  LockInv'
    BY <1>14 DEF AskTurn, Goes, TurnTypes, ChatTypeOK, LockInv, Inside
<1>15. ASSUME NEW c \in Conversations, InsertConversation(c) PROVE LockInv'
    BY <1>15 DEF InsertConversation, TurnTypes, ChatTypeOK, LockInv, Inside
<1>16. CASE ChangeDocuments
    BY <1>16 DEF ChangeDocuments, TurnTypes, ChatTypeOK, LockInv, Inside
<1>17. CASE RestartServer
    BY <1>17 DEF RestartServer, TurnTypes, ChatTypeOK, LockInv, Inside, Ended, Places
<1>18. CASE UNCHANGED chatVars
    BY <1>18 DEF chatVars, TurnTypes, ChatTypeOK, LockInv, Inside
<1> QED
    BY <1>1, <1>2, <1>3, <1>4, <1>5, <1>6, <1>7, <1>8, <1>9, <1>10,
       <1>11, <1>12, <1>13, <1>14, <1>15, <1>16, <1>17, <1>18
       DEF ChatNext, TurnStep

LEMMA HitSteps == TurnTypes /\ LockInv /\ HitInv /\ [ChatNext]_chatVars => HitInv'
<1> SUFFICES ASSUME TurnTypes, LockInv, HitInv, [ChatNext]_chatVars PROVE HitInv'
    OBVIOUS
<1> USE ChatAssumption DEF ChatAssumption
<1>1. ASSUME NEW t \in Turns, TakeLock(t) PROVE HitInv'
    BY <1>1 DEF TakeLock, Goes, TurnTypes, ChatTypeOK, LockInv, HitInv, MisaddressedOnlyByOverlap
<1>2. ASSUME NEW t \in Turns, FindCached(t) PROVE HitInv'
    <2>1. cached[query[t]] \in Turns /\ step[cached[query[t]]] = "done"
        BY <1>2 DEF FindCached, Goes, TurnTypes, ChatTypeOK, HitInv
    <2>2. \A u \in Turns : u # t => hit'[u] = hit[u] /\ step'[u] = step[u]
        BY <1>2 DEF FindCached, Goes, TurnTypes, ChatTypeOK, HitInv
    <2>3. /\ hit[t] = NoTurn /\ reply[t].names = NoTurn
          /\ hit'[t] = cached[query[t]] /\ step'[t] = "stamp"
        BY <1>2 DEF FindCached, Goes, TurnTypes, ChatTypeOK, HitInv
    <2>4. UNCHANGED <<conv, query, reply, stamp, cached, onDisk>> /\ step[t] = "lookup"
        BY <1>2 DEF FindCached, Goes, TurnTypes, ChatTypeOK, HitInv
    <2>5. ASSUME NEW u \in Turns, reply[u].names # NoTurn, reply[u].names # conv[u]
          PROVE  \E w \in Turns : hit'[w] # NoTurn /\ hit'[w] = hit'[u] /\ conv[w] = reply[u].names
        <3>1. PICK w \in Turns : hit[w] # NoTurn /\ hit[w] = hit[u] /\ conv[w] = reply[u].names
            BY <2>5 DEF HitInv, MisaddressedOnlyByOverlap
        <3>2. w # t /\ u # t
            BY <2>3, <3>1
        <3> QED
            BY <2>2, <3>1, <3>2
    <2>6. MisaddressedOnlyByOverlap'
        BY <2>4, <2>5 DEF MisaddressedOnlyByOverlap
    <2>7. \A u \in Turns : step[u] = "done" => step'[u] = "done"
        BY <2>2, <2>3, <2>4 DEF HitInv
    <2>8. \A q \in Queries :
              /\ cached'[q] # NoTurn => step'[cached'[q]] = "done"
              /\ onDisk'[q] # NoTurn => step'[onDisk'[q]] = "done"
        BY <2>4, <2>7 DEF TurnTypes, ChatTypeOK, HitInv
    <2>9. \A u \in Turns : step'[u] \in {"idle", "lock", "lookup"} =>
                                hit'[u] = NoTurn /\ reply'[u].names = NoTurn
        BY <2>2, <2>3, <2>4 DEF HitInv
    <2>10. ASSUME NEW u \in Turns, hit'[u] # NoTurn PROVE step'[hit'[u]] = "done"
        <3>1. CASE u = t
            BY <2>1, <2>3, <2>7, <3>1
        <3>2. CASE u # t
            <4>1. hit'[u] = hit[u] /\ hit[u] \in Turns
                BY <2>2, <2>10, <3>2 DEF TurnTypes, ChatTypeOK
            <4> QED
                BY <2>7, <2>10, <4>1 DEF HitInv
        <3> QED
            BY <3>1, <3>2
    <2>11. ASSUME NEW u \in Turns, step'[u] = "copy"
          PROVE  \E w \in Turns : hit'[w] = hit'[u] /\ conv'[w] = stamp'[hit'[u]]
        <3>1. u # t /\ step[u] = "copy"
            BY <2>2, <2>3, <2>11
        <3>2. PICK w \in Turns : hit[w] = hit[u] /\ conv[w] = stamp[hit[u]]
            BY <3>1 DEF HitInv
        <3>3. w # t
            BY <2>3, <3>1, <3>2 DEF TurnTypes
        <3> QED
            BY <2>2, <2>4, <3>1, <3>2, <3>3
    <2>12. \A u \in Turns :
               /\ step'[u] \in {"idle", "lock", "lookup"} =>
                      hit'[u] = NoTurn /\ reply'[u].names = NoTurn
               /\ hit'[u] # NoTurn => step'[hit'[u]] = "done"
               /\ step'[u] = "copy" =>
                      \E w \in Turns : hit'[w] = hit'[u] /\ conv'[w] = stamp'[hit'[u]]
        BY <2>9, <2>10, <2>11
    <2> QED
        BY <2>6, <2>8, <2>12 DEF HitInv
<1>3. ASSUME NEW t \in Turns, LookPast(t) PROVE HitInv'
    BY <1>3 DEF LookPast, Goes, TurnTypes, ChatTypeOK, LockInv, HitInv, MisaddressedOnlyByOverlap
<1>4. ASSUME NEW t \in Turns, StampId(t) PROVE HitInv'
    BY <1>4 DEF StampId, Goes, TurnTypes, ChatTypeOK, LockInv, HitInv, MisaddressedOnlyByOverlap
<1>5. ASSUME NEW t \in Turns, ReturnCached(t) PROVE HitInv'
    BY <1>5
       DEF ReturnCached, Goes, Release, TurnTypes, ChatTypeOK, LockInv, HitInv,
           MisaddressedOnlyByOverlap
<1>6. ASSUME NEW t \in Turns, ReadHistory(t) PROVE HitInv'
    BY <1>6
       DEF ReadHistory, Goes, TurnTypes, ChatTypeOK, LockInv, HitInv,
           MisaddressedOnlyByOverlap
<1>7. ASSUME NEW t \in Turns, SaveConversation(t) PROVE HitInv'
    BY <1>7
       DEF SaveConversation, Goes, TurnTypes, ChatTypeOK, LockInv, HitInv,
           MisaddressedOnlyByOverlap
<1>8. ASSUME NEW t \in Turns, SaveRefused(t) PROVE HitInv'
    BY <1>8
       DEF SaveRefused, Raise, Release, TurnTypes, ChatTypeOK, LockInv, HitInv,
           MisaddressedOnlyByOverlap
<1>9. ASSUME NEW t \in Turns, CallFails(t) PROVE HitInv'
    BY <1>9
       DEF CallFails, Raise, Release, TurnTypes, ChatTypeOK, LockInv, HitInv,
           MisaddressedOnlyByOverlap
<1>10. ASSUME NEW t \in Turns, SearchDocuments(t) PROVE HitInv'
    BY <1>10
       DEF SearchDocuments, Goes, TurnTypes, ChatTypeOK, LockInv, HitInv,
           MisaddressedOnlyByOverlap
<1>11. ASSUME NEW t \in Turns, AddQuestion(t) PROVE HitInv'
    BY <1>11
       DEF AddQuestion, AddMessage, Goes, TurnTypes, ChatTypeOK, LockInv, HitInv,
           MisaddressedOnlyByOverlap
<1>12. ASSUME NEW t \in Turns, AddAnswer(t) PROVE HitInv'
    BY <1>12
       DEF AddAnswer, AddMessage, Goes, TurnTypes, ChatTypeOK, LockInv, HitInv,
           MisaddressedOnlyByOverlap
<1>13. ASSUME NEW t \in Turns, StoreAnswer(t) PROVE HitInv'
    BY <1>13
       DEF StoreAnswer, Goes, Release, TurnTypes, ChatTypeOK, LockInv, HitInv,
           MisaddressedOnlyByOverlap, NothingCached
<1>14. ASSUME NEW t \in Turns, NEW c \in Conversations, NEW q \in Queries, AskTurn(t, c, q)
       PROVE  HitInv'
    BY <1>14 DEF AskTurn, Goes, TurnTypes, ChatTypeOK, LockInv, HitInv, MisaddressedOnlyByOverlap
<1>15. ASSUME NEW c \in Conversations, InsertConversation(c) PROVE HitInv'
    BY <1>15
       DEF InsertConversation, TurnTypes, ChatTypeOK, LockInv, HitInv,
           MisaddressedOnlyByOverlap
<1>16. CASE ChangeDocuments
    BY <1>16 DEF ChangeDocuments, TurnTypes, ChatTypeOK, LockInv, HitInv, MisaddressedOnlyByOverlap
<1>17. CASE RestartServer
    BY <1>17
       DEF RestartServer, TurnTypes, ChatTypeOK, LockInv, HitInv, MisaddressedOnlyByOverlap,
           Ended, Places
<1>18. CASE UNCHANGED chatVars
    BY <1>18 DEF chatVars, TurnTypes, ChatTypeOK, LockInv, HitInv, MisaddressedOnlyByOverlap
<1> QED
    BY <1>1, <1>2, <1>3, <1>4, <1>5, <1>6, <1>7, <1>8, <1>9, <1>10,
       <1>11, <1>12, <1>13, <1>14, <1>15, <1>16, <1>17, <1>18
       DEF ChatNext, TurnStep

LEMMA RowSteps == TurnTypes /\ LockInv /\ RowInv /\ [ChatNext]_chatVars => RowInv'
<1> SUFFICES ASSUME TurnTypes, LockInv, RowInv, [ChatNext]_chatVars PROVE RowInv'
    OBVIOUS
<1> USE ChatAssumption DEF ChatAssumption
<1>1. ASSUME NEW t \in Turns, TakeLock(t) PROVE RowInv'
    BY <1>1 DEF TakeLock, Goes, TurnTypes, ChatTypeOK, LockInv, Inside, RowInv
<1>2. ASSUME NEW t \in Turns, FindCached(t) PROVE RowInv'
    BY <1>2 DEF FindCached, Goes, TurnTypes, ChatTypeOK, LockInv, Inside, RowInv
<1>3. ASSUME NEW t \in Turns, LookPast(t) PROVE RowInv'
    BY <1>3 DEF LookPast, Goes, TurnTypes, ChatTypeOK, LockInv, Inside, RowInv
<1>4. ASSUME NEW t \in Turns, StampId(t) PROVE RowInv'
    BY <1>4 DEF StampId, Goes, TurnTypes, ChatTypeOK, LockInv, Inside, RowInv
<1>5. ASSUME NEW t \in Turns, ReturnCached(t) PROVE RowInv'
    BY <1>5 DEF ReturnCached, Goes, Release, TurnTypes, ChatTypeOK, LockInv, Inside, RowInv
<1>6. ASSUME NEW t \in Turns, ReadHistory(t) PROVE RowInv'
    BY <1>6 DEF ReadHistory, Goes, TurnTypes, ChatTypeOK, LockInv, Inside, RowInv
<1>7. ASSUME NEW t \in Turns, SaveConversation(t) PROVE RowInv'
    BY <1>7 DEF SaveConversation, Goes, TurnTypes, ChatTypeOK, LockInv, Inside, RowInv
<1>8. ASSUME NEW t \in Turns, SaveRefused(t) PROVE RowInv'
    BY <1>8 DEF SaveRefused, Raise, Release, TurnTypes, ChatTypeOK, LockInv, Inside, RowInv
<1>9. ASSUME NEW t \in Turns, CallFails(t) PROVE RowInv'
    BY <1>9 DEF CallFails, Raise, Release, TurnTypes, ChatTypeOK, LockInv, Inside, RowInv
<1>10. ASSUME NEW t \in Turns, SearchDocuments(t) PROVE RowInv'
    BY <1>10 DEF SearchDocuments, Goes, TurnTypes, ChatTypeOK, LockInv, Inside, RowInv
<1>11. ASSUME NEW t \in Turns, AddQuestion(t) PROVE RowInv'
    <2>1. messages[conv[t]] \in Seq(Messages)
        BY <1>11 DEF AddQuestion, AddMessage, Goes, TurnTypes, ChatTypeOK, LockInv, Inside, RowInv
    <2>2. PICK m \in Messages : messages'[conv[t]] = Append(messages[conv[t]], m)
        BY <1>11
           DEF AddQuestion, AddMessage, Goes, TurnTypes, ChatTypeOK, LockInv, Inside,
               RowInv, Messages
    <2>3. messages'[conv[t]] # <<>>
        <3>1. Append(messages[conv[t]], m) # <<>>
            BY <2>1, <2>2, AppendProperties
        <3> QED
            BY <2>2, <3>1
    <2>4. \A c \in Conversations : c # conv[t] => messages'[c] = messages[c]
        BY <1>11 DEF AddQuestion, AddMessage, Goes, TurnTypes, ChatTypeOK, LockInv, Inside, RowInv
    <2>5. \A u \in Turns : step'[u] = "save" => step[u] = "save" /\ conv[u] # conv[t]
        BY <1>11 DEF AddQuestion, AddMessage, Goes, TurnTypes, ChatTypeOK, LockInv, Inside, RowInv
    <2>6. \A u \in Turns : step[u] \in {"failed", "search", "user"} => u = t \/ step'[u] = step[u]
        BY <1>11 DEF AddQuestion, AddMessage, Goes, TurnTypes, ChatTypeOK, LockInv, Inside, RowInv
    <2>7. UNCHANGED <<conv, conversations, inserted>>
        BY <1>11 DEF AddQuestion, AddMessage, Goes, TurnTypes, ChatTypeOK, LockInv, Inside, RowInv
    <2>8. ASSUME NEW c \in conversations, c \notin inserted, messages'[c] = <<>>
          PROVE  \E u \in Turns : step'[u] \in {"failed", "search", "user"} /\ conv[u] = c
        <3>1. c # conv[t] /\ messages[c] = <<>>
            BY <2>3, <2>4, <2>8 DEF TurnTypes, ChatTypeOK
        <3>2. PICK u \in Turns : step[u] \in {"failed", "search", "user"} /\ conv[u] = c
            BY <2>8, <3>1 DEF RowInv
        <3> QED
            BY <2>6, <3>1, <3>2
    <2>9. \A u \in Turns : step'[u] = "save" => messages'[conv[u]] = <<>>
        BY <2>4, <2>5 DEF TurnTypes, RowInv
    <2> QED
        BY <2>1, <2>2, <2>3, <2>4, <2>5, <2>6, <2>7, <2>8, <2>9 DEF RowInv
<1>12. ASSUME NEW t \in Turns, AddAnswer(t) PROVE RowInv'
    <2>1. messages[conv[t]] \in Seq(Messages)
        BY <1>12 DEF AddAnswer, AddMessage, Goes, TurnTypes, ChatTypeOK, LockInv, Inside, RowInv
    <2>2. PICK m \in Messages : messages'[conv[t]] = Append(messages[conv[t]], m)
        BY <1>12
           DEF AddAnswer, AddMessage, Goes, TurnTypes, ChatTypeOK, LockInv, Inside,
               RowInv, Messages
    <2>3. messages'[conv[t]] # <<>>
        <3>1. Append(messages[conv[t]], m) # <<>>
            BY <2>1, <2>2, AppendProperties
        <3> QED
            BY <2>2, <3>1
    <2>4. \A c \in Conversations : c # conv[t] => messages'[c] = messages[c]
        BY <1>12 DEF AddAnswer, AddMessage, Goes, TurnTypes, ChatTypeOK, LockInv, Inside, RowInv
    <2>5. \A u \in Turns : step'[u] = "save" => step[u] = "save" /\ conv[u] # conv[t]
        BY <1>12 DEF AddAnswer, AddMessage, Goes, TurnTypes, ChatTypeOK, LockInv, Inside, RowInv
    <2>6. \A u \in Turns : step[u] \in {"failed", "search", "user"} => u = t \/ step'[u] = step[u]
        BY <1>12 DEF AddAnswer, AddMessage, Goes, TurnTypes, ChatTypeOK, LockInv, Inside, RowInv
    <2>7. UNCHANGED <<conv, conversations, inserted>>
        BY <1>12 DEF AddAnswer, AddMessage, Goes, TurnTypes, ChatTypeOK, LockInv, Inside, RowInv
    <2>8. ASSUME NEW c \in conversations, c \notin inserted, messages'[c] = <<>>
          PROVE  \E u \in Turns : step'[u] \in {"failed", "search", "user"} /\ conv[u] = c
        <3>1. c # conv[t] /\ messages[c] = <<>>
            BY <2>3, <2>4, <2>8 DEF TurnTypes, ChatTypeOK
        <3>2. PICK u \in Turns : step[u] \in {"failed", "search", "user"} /\ conv[u] = c
            BY <2>8, <3>1 DEF RowInv
        <3> QED
            BY <2>6, <3>1, <3>2
    <2>9. \A u \in Turns : step'[u] = "save" => messages'[conv[u]] = <<>>
        BY <2>4, <2>5 DEF TurnTypes, RowInv
    <2> QED
        BY <2>1, <2>2, <2>3, <2>4, <2>5, <2>6, <2>7, <2>8, <2>9 DEF RowInv
<1>13. ASSUME NEW t \in Turns, StoreAnswer(t) PROVE RowInv'
    BY <1>13 DEF StoreAnswer, Goes, Release, TurnTypes, ChatTypeOK, LockInv, Inside, RowInv
<1>14. ASSUME NEW t \in Turns, NEW c \in Conversations, NEW q \in Queries, AskTurn(t, c, q)
       PROVE  RowInv'
    BY <1>14 DEF AskTurn, Goes, TurnTypes, ChatTypeOK, LockInv, Inside, RowInv
<1>15. ASSUME NEW c \in Conversations, InsertConversation(c) PROVE RowInv'
    BY <1>15 DEF InsertConversation, TurnTypes, ChatTypeOK, LockInv, Inside, RowInv
<1>16. CASE ChangeDocuments
    BY <1>16 DEF ChangeDocuments, TurnTypes, ChatTypeOK, LockInv, Inside, RowInv
<1>17. CASE RestartServer
    BY <1>17 DEF RestartServer, KeepTables, LoseTables, TurnTypes, ChatTypeOK, LockInv, Inside,
                 RowInv, Ended, Places
<1>18. CASE UNCHANGED chatVars
    BY <1>18 DEF chatVars, TurnTypes, ChatTypeOK, LockInv, Inside, RowInv
<1> QED
    BY <1>1, <1>2, <1>3, <1>4, <1>5, <1>6, <1>7, <1>8, <1>9, <1>10,
       <1>11, <1>12, <1>13, <1>14, <1>15, <1>16, <1>17, <1>18
       DEF ChatNext, TurnStep

LEMMA TurnMoves ==
    ASSUME TurnTypes, [ChatNext]_chatVars, UNCHANGED messages
    PROVE  \A t \in Turns :
               /\ step[t] # "idle" => /\ conv'[t] = conv[t] /\ query'[t] = query[t]
                                      /\ step'[t] # "idle"
               /\ step[t] = "assistant" => step'[t] \in {"assistant", "failed"}
               /\ step'[t] = "assistant" => step[t] = "assistant"
               /\ step[t] \in {"done", "failed"} => step'[t] = step[t]
               /\ step'[t] = "store" => step[t] = "store"
<1> DEFINE MovesOn(t) ==
               /\ step[t] # "idle" => /\ conv'[t] = conv[t] /\ query'[t] = query[t]
                                      /\ step'[t] # "idle"
               /\ step[t] = "assistant" => step'[t] \in {"assistant", "failed"}
               /\ step'[t] = "assistant" => step[t] = "assistant"
               /\ step[t] \in {"done", "failed"} => step'[t] = step[t]
               /\ step'[t] = "store" => step[t] = "store"
<1> SUFFICES \A t \in Turns : MovesOn(t)
    OBVIOUS
<1> USE DEF TurnTypes, ChatTypeOK, Ended
<1>1. ASSUME NEW t \in Turns, TakeLock(t) PROVE \A u \in Turns : MovesOn(u)
    BY <1>1 DEF TakeLock, Goes
<1>2. ASSUME NEW t \in Turns, FindCached(t) PROVE \A u \in Turns : MovesOn(u)
    BY <1>2 DEF FindCached, Goes
<1>3. ASSUME NEW t \in Turns, LookPast(t) PROVE \A u \in Turns : MovesOn(u)
    BY <1>3 DEF LookPast, Goes
<1>4. ASSUME NEW t \in Turns, StampId(t) PROVE \A u \in Turns : MovesOn(u)
    BY <1>4 DEF StampId, Goes
<1>5. ASSUME NEW t \in Turns, ReturnCached(t) PROVE \A u \in Turns : MovesOn(u)
    BY <1>5 DEF ReturnCached, Goes, Release
<1>6. ASSUME NEW t \in Turns, ReadHistory(t) PROVE \A u \in Turns : MovesOn(u)
    BY <1>6 DEF ReadHistory, Goes
<1>7. ASSUME NEW t \in Turns, SaveConversation(t) PROVE \A u \in Turns : MovesOn(u)
    BY <1>7 DEF SaveConversation, Goes
<1>8. ASSUME NEW t \in Turns, SaveRefused(t) PROVE \A u \in Turns : MovesOn(u)
    BY <1>8 DEF SaveRefused, Raise, Release
<1>9. ASSUME NEW t \in Turns, CallFails(t) PROVE \A u \in Turns : MovesOn(u)
    BY <1>9 DEF CallFails, Raise, Release
<1>10. ASSUME NEW t \in Turns, SearchDocuments(t) PROVE \A u \in Turns : MovesOn(u)
    BY <1>10 DEF SearchDocuments, Goes
<1>11. ASSUME NEW t \in Turns, AddQuestion(t) PROVE \A u \in Turns : MovesOn(u)
    <2>1. messages[conv[t]] \in Seq(Messages) /\ messages'[conv[t]] = messages[conv[t]]
        BY <1>11 DEF AddQuestion, AddMessage, Goes
    <2>2. PICK m \in Messages : messages'[conv[t]] = Append(messages[conv[t]], m)
        BY <1>11 DEF AddQuestion, AddMessage, Goes, Messages
    <2>3. Len(Append(messages[conv[t]], m)) = Len(messages[conv[t]]) + 1
        BY <2>1, <2>2, AppendProperties
    <2> QED
        BY <2>1, <2>2, <2>3
<1>12. ASSUME NEW t \in Turns, AddAnswer(t) PROVE \A u \in Turns : MovesOn(u)
    <2>1. messages[conv[t]] \in Seq(Messages) /\ messages'[conv[t]] = messages[conv[t]]
        BY <1>12 DEF AddAnswer, AddMessage, Goes
    <2>2. PICK m \in Messages : messages'[conv[t]] = Append(messages[conv[t]], m)
        BY <1>12 DEF AddAnswer, AddMessage, Goes, Messages
    <2>3. Len(Append(messages[conv[t]], m)) = Len(messages[conv[t]]) + 1
        BY <2>1, <2>2, AppendProperties
    <2> QED
        BY <2>1, <2>2, <2>3
<1>13. ASSUME NEW t \in Turns, StoreAnswer(t) PROVE \A u \in Turns : MovesOn(u)
    BY <1>13 DEF StoreAnswer, Goes, Release
<1>14. ASSUME NEW t \in Turns, NEW c \in Conversations, NEW q \in Queries, AskTurn(t, c, q)
       PROVE  \A u \in Turns : MovesOn(u)
    BY <1>14 DEF AskTurn, Goes
<1>15. ASSUME NEW c \in Conversations, InsertConversation(c) PROVE \A u \in Turns : MovesOn(u)
    BY <1>15 DEF InsertConversation
<1>16. CASE ChangeDocuments
    BY <1>16 DEF ChangeDocuments
<1>17. CASE RestartServer
    BY <1>17 DEF RestartServer
<1>18. CASE UNCHANGED chatVars
    BY <1>18 DEF chatVars
<1> QED
    BY <1>1, <1>2, <1>3, <1>4, <1>5, <1>6, <1>7, <1>8, <1>9, <1>10,
       <1>11, <1>12, <1>13, <1>14, <1>15, <1>16, <1>17, <1>18
       DEF ChatNext, TurnStep

LEMMA SameHistory ==
    ASSUME TurnTypes, PairInv, [ChatNext]_chatVars, UNCHANGED messages PROVE PairInv'
<1>1. \A c \in Conversations : \A i \in 1..Len(messages[c]) : messages[c][i] \in Messages
    BY DEF TurnTypes, ChatTypeOK
<1>2. \A t \in Turns : step'[t] = "assistant" =>
          /\ messages'[conv'[t]] # <<>>
          /\ messages'[conv'[t]][Len(messages'[conv'[t]])] = [turn |-> t, role |-> "user"]
    BY TurnMoves DEF PairInv
<1>3. \A c \in Conversations : \A i \in 1..Len(messages'[c]) :
          conv'[messages'[c][i].turn] = c /\ step'[messages'[c][i].turn] # "idle"
    BY <1>1, TurnMoves DEF PairInv, Messages
<1>4. HistoryIsPaired'
    BY <1>1, TurnMoves DEF PairInv, HistoryIsPaired, Messages
<1> QED
    BY <1>2, <1>3, <1>4 DEF PairInv

LEMMA Appended ==
    ASSUME TurnTypes, NEW t \in Turns, step[t] # "idle",
           NEW r \in {"user", "assistant"}, AddMessage(t, r)
    PROVE  /\ Len(messages[conv[t]]) \in Nat
           /\ Len(messages'[conv[t]]) = Len(messages[conv[t]]) + 1
           /\ messages'[conv[t]] # <<>>
           /\ messages'[conv[t]][Len(messages[conv[t]]) + 1] = [turn |-> t, role |-> r]
           /\ \A i \in 1..Len(messages[conv[t]]) : messages'[conv[t]][i] = messages[conv[t]][i]
           /\ \A c \in Conversations : c # conv[t] => messages'[c] = messages[c]
<1> DEFINE m == [turn |-> t, role |-> r]
<1>1. messages[conv[t]] \in Seq(Messages) /\ m \in Messages /\ conv[t] \in Conversations
    BY DEF TurnTypes, ChatTypeOK, Messages
<1>2. /\ messages'[conv[t]] = Append(messages[conv[t]], m)
      /\ \A c \in Conversations : c # conv[t] => messages'[c] = messages[c]
    BY <1>1 DEF AddMessage, TurnTypes, ChatTypeOK
<1> HIDE DEF m
<1>3. /\ Append(messages[conv[t]], m) # <<>>
      /\ Len(Append(messages[conv[t]], m)) = Len(messages[conv[t]]) + 1
      /\ \A i \in 1..Len(messages[conv[t]]) :
             Append(messages[conv[t]], m)[i] = messages[conv[t]][i]
      /\ Append(messages[conv[t]], m)[Len(messages[conv[t]]) + 1] = m
    BY <1>1, AppendProperties
<1>4. Len(messages[conv[t]]) \in Nat
    BY <1>1, LenProperties
<1> QED
    BY <1>2, <1>3, <1>4 DEF m

LEMMA QuestionPairs ==
    ASSUME TurnTypes, LockInv, PairInv, NEW t \in Turns, AddQuestion(t) PROVE PairInv'
<1> DEFINE n == Len(messages[conv[t]])
<1>1. /\ step[t] = "user" /\ step' = [step EXCEPT ![t] = "assistant"]
      /\ UNCHANGED conv /\ AddMessage(t, "user") /\ conv[t] \in Conversations
    BY DEF AddQuestion, Goes, TurnTypes
<1>2. /\ n \in Nat /\ Len(messages'[conv[t]]) = n + 1 /\ messages'[conv[t]] # <<>>
      /\ messages'[conv[t]][n + 1] = [turn |-> t, role |-> "user"]
      /\ \A i \in 1..n : messages'[conv[t]][i] = messages[conv[t]][i]
      /\ \A c \in Conversations : c # conv[t] => messages'[c] = messages[c]
    BY <1>1, Appended
<1>3. \A c \in Conversations : \A i \in 1..Len(messages[c]) : messages[c][i] \in Messages
    BY DEF TurnTypes, ChatTypeOK
<1>4. \A u \in Turns : /\ u # t => step'[u] = step[u]
                       /\ u # t /\ step[u] = "assistant" => conv[u] # conv[t]
    BY <1>1 DEF LockInv, Inside, TurnTypes, ChatTypeOK
<1>5. step'[t] = "assistant"
    BY <1>1 DEF TurnTypes, ChatTypeOK
<1>6. ASSUME NEW u \in Turns, step'[u] = "assistant"
      PROVE  /\ messages'[conv'[u]] # <<>>
             /\ messages'[conv'[u]][Len(messages'[conv'[u]])] = [turn |-> u, role |-> "user"]
    <2>1. CASE u = t
        BY <1>1, <1>2, <2>1
    <2>2. CASE u # t
        BY <1>1, <1>2, <1>4, <1>6, <2>2 DEF PairInv, TurnTypes
    <2> QED
        BY <2>1, <2>2
<1>7. ASSUME NEW c \in Conversations, NEW i \in 1..Len(messages'[c])
      PROVE  conv'[messages'[c][i].turn] = c /\ step'[messages'[c][i].turn] # "idle"
    <2>1. CASE c = conv[t] /\ i = n + 1
        BY <1>1, <1>2, <1>5, <2>1
    <2>2. CASE ~(c = conv[t] /\ i = n + 1)
        <3>1. i \in 1..Len(messages[c]) /\ messages'[c][i] = messages[c][i]
            BY <1>2, <2>2
        <3> QED
            BY <1>1, <1>3, <1>4, <1>5, <3>1 DEF PairInv, Messages
    <2> QED
        BY <2>1, <2>2
<1>8. ASSUME NEW c \in Conversations, NEW i \in 1..Len(messages'[c])
      PROVE  LET m == messages'[c][i] IN
             IF m.role = "user"
             THEN \/ i < Len(messages'[c]) /\ messages'[c][i + 1] = [m EXCEPT !.role = "assistant"]
                  \/ step'[m.turn] = "failed"
                  \/ i = Len(messages'[c]) /\ step'[m.turn] = "assistant"
             ELSE i > 1 /\ messages'[c][i - 1] = [m EXCEPT !.role = "user"]
    <2>1. CASE c # conv[t]
        <3>1. messages'[c] = messages[c] /\ i \in 1..Len(messages[c])
            BY <1>2, <2>1
        <3>2. messages[c][i].turn # t \/ step[t] = "user"
            BY <1>1
        <3> QED
            BY <1>1, <1>3, <1>4, <1>5, <3>1 DEF PairInv, HistoryIsPaired, Messages
    <2>2. CASE c = conv[t] /\ i = n + 1
        BY <1>2, <1>5, <2>2
    <2>3. CASE c = conv[t] /\ i # n + 1
        <3>1. i \in 1..n /\ messages'[c][i] = messages[c][i] /\ n = Len(messages[c])
            BY <1>2, <2>3
        <3>2. messages[c][i].turn \in Turns /\ conv[messages[c][i].turn] = conv[t]
            BY <1>3, <2>3, <3>1 DEF PairInv, Messages
        <3>3. step[messages[c][i].turn] # "assistant"
            BY <1>1, <1>4, <3>2
        <3>4. CASE messages[c][i].role = "user"
            <4>1. \/ i < n /\ messages[c][i + 1] = [messages[c][i] EXCEPT !.role = "assistant"]
                  \/ step[messages[c][i].turn] = "failed"
                BY <3>1, <3>3, <3>4 DEF PairInv, HistoryIsPaired
            <4>2. step[messages[c][i].turn] = "failed" => step'[messages[c][i].turn] = "failed"
                BY <1>1, <1>4, <3>2
            <4>3. i < n => messages'[c][i + 1] = messages[c][i + 1] /\ i < Len(messages'[c])
                BY <1>2, <2>3, <3>1
            <4> QED
                BY <3>1, <3>4, <4>1, <4>2, <4>3
        <3>5. CASE messages[c][i].role # "user"
            <4>1. i > 1 /\ messages[c][i - 1] = [messages[c][i] EXCEPT !.role = "user"]
                BY <3>1, <3>5 DEF PairInv, HistoryIsPaired
            <4>2. i - 1 \in 1..n
                BY <1>2, <3>1, <4>1
            <4>3. messages'[c][i - 1] = messages[c][i - 1]
                BY <1>2, <2>3, <4>2
            <4> QED
                BY <3>1, <3>5, <4>1, <4>3
        <3> QED
            BY <3>4, <3>5
    <2> QED
        BY <2>1, <2>2, <2>3
<1>9. HistoryIsPaired'
    BY <1>8 DEF HistoryIsPaired
<1> QED
    BY <1>6, <1>7, <1>9 DEF PairInv

LEMMA AnswerPairs ==
    ASSUME TurnTypes, LockInv, PairInv, NEW t \in Turns, AddAnswer(t) PROVE PairInv'
<1> DEFINE n == Len(messages[conv[t]])
<1>1. /\ step[t] = "assistant" /\ step' = [step EXCEPT ![t] = "store"]
      /\ UNCHANGED conv /\ AddMessage(t, "assistant") /\ conv[t] \in Conversations
    BY DEF AddAnswer, Goes, TurnTypes
<1>2. /\ n \in Nat /\ Len(messages'[conv[t]]) = n + 1 /\ messages'[conv[t]] # <<>>
      /\ messages'[conv[t]][n + 1] = [turn |-> t, role |-> "assistant"]
      /\ n > 0 /\ messages[conv[t]][n] = [turn |-> t, role |-> "user"]
      /\ \A i \in 1..n : messages'[conv[t]][i] = messages[conv[t]][i]
      /\ \A c \in Conversations : c # conv[t] => messages'[c] = messages[c]
    <2>1. /\ n \in Nat /\ Len(messages'[conv[t]]) = n + 1 /\ messages'[conv[t]] # <<>>
          /\ messages'[conv[t]][n + 1] = [turn |-> t, role |-> "assistant"]
          /\ \A i \in 1..n : messages'[conv[t]][i] = messages[conv[t]][i]
          /\ \A c \in Conversations : c # conv[t] => messages'[c] = messages[c]
        BY <1>1, Appended
    <2>2. messages[conv[t]] # <<>> /\ messages[conv[t]][n] = [turn |-> t, role |-> "user"]
        BY <1>1 DEF PairInv
    <2>3. n # 0
        BY <1>1, <2>2, EmptySeq DEF TurnTypes, ChatTypeOK
    <2> QED
        BY <2>1, <2>2, <2>3
<1>3. \A c \in Conversations : \A i \in 1..Len(messages[c]) : messages[c][i] \in Messages
    BY DEF TurnTypes, ChatTypeOK
<1>4. \A u \in Turns : /\ u # t => step'[u] = step[u]
                       /\ u # t /\ step[u] = "assistant" => conv[u] # conv[t]
    BY <1>1 DEF LockInv, Inside, TurnTypes, ChatTypeOK
<1>5. step'[t] = "store"
    BY <1>1 DEF TurnTypes, ChatTypeOK
<1>6. ASSUME NEW u \in Turns, step'[u] = "assistant"
      PROVE  /\ messages'[conv'[u]] # <<>>
             /\ messages'[conv'[u]][Len(messages'[conv'[u]])] = [turn |-> u, role |-> "user"]
    <2>1. CASE u = t
        BY <1>5, <1>6, <2>1
    <2>2. CASE u # t
        BY <1>1, <1>2, <1>4, <1>6, <2>2 DEF PairInv, TurnTypes
    <2> QED
        BY <2>1, <2>2
<1>7. ASSUME NEW c \in Conversations, NEW i \in 1..Len(messages'[c])
      PROVE  conv'[messages'[c][i].turn] = c /\ step'[messages'[c][i].turn] # "idle"
    <2>1. CASE c = conv[t] /\ i = n + 1
        BY <1>1, <1>2, <1>5, <2>1
    <2>2. CASE ~(c = conv[t] /\ i = n + 1)
        <3>1. i \in 1..Len(messages[c]) /\ messages'[c][i] = messages[c][i]
            BY <1>2, <2>2
        <3> QED
            BY <1>1, <1>3, <1>4, <1>5, <3>1 DEF PairInv, Messages
    <2> QED
        BY <2>1, <2>2
<1>8. ASSUME NEW c \in Conversations, NEW i \in 1..Len(messages'[c])
      PROVE  LET m == messages'[c][i] IN
             IF m.role = "user"
             THEN \/ i < Len(messages'[c]) /\ messages'[c][i + 1] = [m EXCEPT !.role = "assistant"]
                  \/ step'[m.turn] = "failed"
                  \/ i = Len(messages'[c]) /\ step'[m.turn] = "assistant"
             ELSE i > 1 /\ messages'[c][i - 1] = [m EXCEPT !.role = "user"]
    <2>1. CASE c # conv[t]
        <3>1. messages'[c] = messages[c] /\ i \in 1..Len(messages[c])
            BY <1>2, <2>1
        <3>2. messages[c][i].turn # t
            BY <1>1, <2>1, <3>1 DEF PairInv
        <3> QED
            BY <1>1, <1>3, <1>4, <3>1, <3>2 DEF PairInv, HistoryIsPaired, Messages
    <2>2. CASE c = conv[t] /\ i = n + 1
        BY <1>2, <2>2
    <2>3. CASE c = conv[t] /\ i # n + 1
        <3>1. i \in 1..n /\ messages'[c][i] = messages[c][i] /\ n = Len(messages[c])
            BY <1>2, <2>3
        <3>2. messages[c][i].turn \in Turns /\ conv[messages[c][i].turn] = conv[t]
            BY <1>3, <2>3, <3>1 DEF PairInv, Messages
        <3>3. CASE messages[c][i].role = "user"
            <4>1. \/ i < n /\ messages[c][i + 1] = [messages[c][i] EXCEPT !.role = "assistant"]
                  \/ step[messages[c][i].turn] = "failed"
                  \/ i = n
                BY <3>1, <3>3 DEF PairInv, HistoryIsPaired
            <4>2. step[messages[c][i].turn] = "failed" => step'[messages[c][i].turn] = "failed"
                BY <1>1, <1>4, <3>2
            <4>3. i < n => i + 1 \in 1..n /\ i < Len(messages'[c])
                BY <1>2, <2>3, <3>1
            <4>4. i < n => messages'[c][i + 1] = messages[c][i + 1]
                BY <1>2, <2>3, <4>3
            <4>5. i = n => /\ i < Len(messages'[c])
                           /\ messages'[c][i + 1] = [messages[c][i] EXCEPT !.role = "assistant"]
                BY <1>2, <2>3
            <4> QED
                BY <3>1, <3>3, <4>1, <4>2, <4>3, <4>4, <4>5
        <3>4. CASE messages[c][i].role # "user"
            <4>1. i > 1 /\ messages[c][i - 1] = [messages[c][i] EXCEPT !.role = "user"]
                BY <3>1, <3>4 DEF PairInv, HistoryIsPaired
            <4>2. i - 1 \in 1..n
                BY <1>2, <3>1, <4>1
            <4>3. messages'[c][i - 1] = messages[c][i - 1]
                BY <1>2, <2>3, <4>2
            <4> QED
                BY <3>1, <3>4, <4>1, <4>3
        <3> QED
            BY <3>3, <3>4
    <2> QED
        BY <2>1, <2>2, <2>3
<1>9. HistoryIsPaired'
    BY <1>8 DEF HistoryIsPaired
<1> QED
    BY <1>6, <1>7, <1>9 DEF PairInv

LEMMA AnswerStays ==
    ASSUME TurnTypes, [ChatNext]_chatVars, NEW u \in Turns, step[u] # "idle", HasAnswer(u)
    PROVE  HasAnswer(u)'
<1>1. conv[u] \in Conversations /\ conv'[u] = conv[u]
    BY DEF TurnTypes, ChatTypeOK, ChatNext, TurnStep, chatVars, TakeLock, FindCached,
           LookPast, StampId, ReturnCached, ReadHistory, SaveConversation, SaveRefused,
           CallFails, SearchDocuments, AddQuestion, AddAnswer, StoreAnswer, AskTurn,
           InsertConversation, ChangeDocuments, RestartServer, Goes, Raise
<1>5. forgotten \subseteq forgotten' /\ (messages' = messages \/ ~RestartServer \/ u \in forgotten')
    BY DEF ChatNext, TurnStep, chatVars, TakeLock, FindCached, LookPast, StampId, ReturnCached,
           ReadHistory, SaveConversation, SaveRefused, CallFails, SearchDocuments, AddQuestion,
           AddAnswer, StoreAnswer, AskTurn, InsertConversation, ChangeDocuments, RestartServer,
           KeepTables, LoseTables, Raise
<1>6. CASE u \in forgotten'
    BY <1>6 DEF HasAnswer
<1> SUFFICES ASSUME u \notin forgotten' PROVE HasAnswer(u)'
    BY <1>6
<1>2. PICK i \in 1..Len(messages[conv[u]]) :
          messages[conv[u]][i] = [turn |-> u, role |-> "assistant"]
    BY <1>5 DEF HasAnswer
<1>3. CASE UNCHANGED messages
    BY <1>1, <1>2, <1>3 DEF HasAnswer
<1>4. ASSUME NEW t \in Turns, NEW r \in {"user", "assistant"}, step[t] # "idle", AddMessage(t, r)
      PROVE  HasAnswer(u)'
    <2>1. /\ Len(messages[conv[t]]) \in Nat
          /\ Len(messages'[conv[t]]) = Len(messages[conv[t]]) + 1
          /\ \A j \in 1..Len(messages[conv[t]]) : messages'[conv[t]][j] = messages[conv[t]][j]
          /\ \A c \in Conversations : c # conv[t] => messages'[c] = messages[c]
        BY <1>4, Appended
    <2>2. i \in 1..Len(messages'[conv[u]]) /\ messages'[conv[u]][i] = messages[conv[u]][i]
        BY <1>1, <1>2, <2>1
    <2> QED
        BY <1>1, <1>2, <2>2 DEF HasAnswer
<1> QED
    BY <1>3, <1>4, <1>5
       DEF ChatNext, TurnStep, chatVars, TakeLock, FindCached, LookPast, StampId, ReturnCached,
           ReadHistory, SaveConversation, SaveRefused, CallFails, SearchDocuments, AddQuestion,
           AddAnswer, StoreAnswer, AskTurn, InsertConversation, ChangeDocuments, RestartServer,
           Goes, Raise

LEMMA CachedSteps ==
    TurnTypes /\ CachedInv /\ [ChatNext]_chatVars => CachedInv'
<1> SUFFICES ASSUME TurnTypes, CachedInv, [ChatNext]_chatVars PROVE CachedInv'
    OBVIOUS
<1>1. ASSUME NEW u \in Turns, step[u] = "done" PROVE step'[u] = "done" /\ query'[u] = query[u]
    BY <1>1
       DEF TurnTypes, ChatTypeOK, Ended, ChatNext, TurnStep, chatVars, TakeLock,
           FindCached, LookPast, StampId, ReturnCached, ReadHistory, SaveConversation,
           SaveRefused, CallFails, SearchDocuments, AddQuestion, AddAnswer, StoreAnswer,
           AskTurn, InsertConversation, ChangeDocuments, RestartServer, Goes, Raise
<1>2. ASSUME NEW u \in Turns, step'[u] = "store" PROVE HasAnswer(u)'
    <2>1. CASE step[u] = "store"
        BY <2>1, AnswerStays DEF CachedInv
    <2>2. CASE step[u] # "store"
        <3>1. AddAnswer(u)
            <4>1. \/ UNCHANGED messages
                  \/ \E t \in Turns : AddQuestion(t) \/ AddAnswer(t)
                  \/ RestartServer
                BY DEF ChatNext, TurnStep, chatVars, TakeLock, FindCached, LookPast, StampId,
                       ReturnCached, ReadHistory, SaveConversation, SaveRefused, CallFails,
                       SearchDocuments, StoreAnswer, AskTurn, InsertConversation, ChangeDocuments,
                       Raise
            <4>2. ~UNCHANGED messages
                BY <1>2, <2>2, TurnMoves
            <4>3. ASSUME NEW t \in Turns, AddQuestion(t) PROVE FALSE
                BY <1>2, <2>2, <4>3 DEF AddQuestion, Goes, TurnTypes, ChatTypeOK
            <4>4. ASSUME NEW t \in Turns, AddAnswer(t) PROVE t = u
                BY <1>2, <2>2, <4>4 DEF AddAnswer, Goes, TurnTypes, ChatTypeOK
            <4>5. ASSUME RestartServer PROVE FALSE
                BY <1>2, <4>5 DEF RestartServer, Ended, TurnTypes, ChatTypeOK
            <4> QED
                BY <4>1, <4>2, <4>3, <4>4, <4>5
        <3>2. conv'[u] = conv[u] /\ AddMessage(u, "assistant") /\ step[u] = "assistant"
            BY <3>1 DEF AddAnswer, Goes
        <3>3. /\ Len(messages[conv[u]]) \in Nat
              /\ Len(messages'[conv[u]]) = Len(messages[conv[u]]) + 1
              /\ messages'[conv[u]][Len(messages[conv[u]]) + 1] = [turn |-> u, role |-> "assistant"]
            BY <3>2, Appended
        <3> QED
            BY <3>2, <3>3 DEF HasAnswer
    <2> QED
        BY <2>1, <2>2
<1>3. ASSUME NEW q \in Queries, NEW u \in Turns, u \in {cached'[q], onDisk'[q]}
      PROVE  query'[u] = q /\ step'[u] = "done" /\ HasAnswer(u)'
    <2>1. CASE u \in {cached[q], onDisk[q]}
        <3>1. query[u] = q /\ step[u] = "done" /\ HasAnswer(u)
            BY <2>1 DEF CachedInv
        <3>2. step[u] # "idle"
            BY <3>1
        <3> QED
            BY <1>1, <3>1, <3>2, AnswerStays
    <2>2. CASE u \notin {cached[q], onDisk[q]}
        <3>1. StoreAnswer(u) /\ query[u] = q
            BY <1>3, <2>2, ChatAssumption
               DEF ChatAssumption, NothingCached, TurnTypes, ChatTypeOK, Ended, ChatNext, TurnStep,
                   chatVars, TakeLock, FindCached, LookPast, StampId, ReturnCached,
                   ReadHistory, SaveConversation, SaveRefused, CallFails, SearchDocuments,
                   AddQuestion, AddAnswer, StoreAnswer, AskTurn, InsertConversation,
                   ChangeDocuments, RestartServer, Goes, Raise
        <3>2. step[u] = "store" /\ step'[u] = "done" /\ query'[u] = query[u]
            BY <3>1 DEF StoreAnswer, Goes, TurnTypes, ChatTypeOK
        <3>3. HasAnswer(u)'
            BY <3>2, AnswerStays DEF CachedInv
        <3> QED
            BY <3>1, <3>2, <3>3
    <2> QED
        BY <2>1, <2>2
<1> QED
    BY <1>2, <1>3 DEF CachedInv

LEMMA PairSteps ==
    TurnTypes /\ LockInv /\ PairInv /\ [ChatNext]_chatVars => PairInv'
<1> SUFFICES ASSUME TurnTypes, LockInv, PairInv, [ChatNext]_chatVars PROVE PairInv'
    OBVIOUS
<1>1. ASSUME NEW t \in Turns, AddQuestion(t) PROVE PairInv'
    BY <1>1, QuestionPairs
<1>2. ASSUME NEW t \in Turns, AddAnswer(t) PROVE PairInv'
    BY <1>2, AnswerPairs
<1>3. CASE UNCHANGED messages
    BY <1>3, SameHistory
<1>4. CASE RestartServer /\ LoseTables
  <2>1. \A t \in Turns : step'[t] # "assistant"
      BY <1>4 DEF RestartServer, Ended
  <2>2. \A c \in Conversations : Len(messages'[c]) = 0
      BY <1>4, EmptySeq DEF LoseTables
  <2> QED
      BY <2>1, <2>2 DEF PairInv, HistoryIsPaired
<1> QED
    BY <1>1, <1>2, <1>3, <1>4
       DEF ChatNext, TurnStep, chatVars, TakeLock, FindCached, LookPast, StampId, ReturnCached,
           ReadHistory, SaveConversation, SaveRefused, CallFails, SearchDocuments, StoreAnswer,
           AskTurn, InsertConversation, ChangeDocuments, RestartServer, KeepTables, Raise

\* All of it.
TurnsInv == TurnTypes /\ LockInv /\ HitInv /\ RowInv /\ PairInv /\ CachedInv

LEMMA TurnsStart == ChatInit => TurnsInv
<1> SUFFICES ASSUME ChatInit PROVE TurnsInv
    OBVIOUS
<1> USE ChatAssumption DEF ChatAssumption, ChatInit
<1>1. TurnTypes
    <2>1. [c \in Conversations |-> <<>>] \in [Conversations -> Seq(Messages)]
        BY EmptySeq
    <2>2. 0 \in 0..MaxChanges /\ 0 \in 0..MaxRestarts
        OBVIOUS
    <2> QED
        BY <2>1, <2>2 DEF TurnTypes, ChatTypeOK, Places, Ended, NoReply, NothingCached
<1>2. LockInv
    BY DEF LockInv, Inside
<1>3. HitInv
    BY DEF HitInv, MisaddressedOnlyByOverlap, NoReply, NothingCached
<1>4. RowInv
    BY DEF RowInv
<1>5. PairInv
    BY EmptySeq DEF PairInv, HistoryIsPaired
<1>6. CachedInv
    BY DEF CachedInv, NothingCached
<1> QED
    BY <1>1, <1>2, <1>3, <1>4, <1>5, <1>6 DEF TurnsInv

LEMMA TurnsAlways == ChatSpec => []TurnsInv
<1>1. TurnsInv /\ [ChatNext]_chatVars => TurnsInv'
    BY TypeSteps, LockSteps, HitSteps, RowSteps, PairSteps, CachedSteps DEF TurnsInv
<1> QED
    BY <1>1, TurnsStart, PTL DEF ChatSpec

\* The history of a conversation is questions with their own answers, for any
\* conversations, queries and turns, and any number of restarts.
THEOREM HistoriesArePaired == ChatSpec => []HistoryIsPaired
<1>1. TurnsInv => HistoryIsPaired
    BY DEF TurnsInv, PairInv
<1> QED
    BY <1>1, TurnsAlways, PTL

\* Two first turns never both insert their conversation, for any of them.
THEOREM FirstTurnInserts == ChatSpec => []OneInsert
<1>1. TurnsInv => OneInsert
    <2> SUFFICES ASSUME TurnsInv, NEW t \in Turns, step[t] = "save", conv[t] \in conversations,
                        conv[t] \notin inserted
                 PROVE  \E u \in Turns : step[u] = "failed" /\ conv[u] = conv[t]
        BY DEF OneInsert
    <2>1. messages[conv[t]] = <<>> /\ owner[conv[t]] = t
        BY DEF TurnsInv, RowInv, LockInv, Inside
    <2>2. PICK u \in Turns : step[u] \in {"failed", "search", "user"} /\ conv[u] = conv[t]
        BY <2>1 DEF TurnsInv, RowInv
    <2>3. step[u] \in {"search", "user"} => owner[conv[u]] = u
        BY DEF TurnsInv, LockInv, Inside
    <2> QED
        BY <2>1, <2>2, <2>3
<1> QED
    BY <1>1, TurnsAlways, PTL

\* A reply that names another conversation comes from an overlap of two hits,
\* for any conversations, queries and turns.
THEOREM MisaddressedByOverlap == ChatSpec => []MisaddressedOnlyByOverlap
<1>1. TurnsInv => MisaddressedOnlyByOverlap
    BY DEF TurnsInv, HitInv
<1> QED
    BY <1>1, TurnsAlways, PTL

\* What the cache answers is in the history of its conversation, unless a restart
\* lost that, for any conversations, queries and turns.
THEOREM CacheIsInHistory == ChatSpec => []CachedIsInHistory
<1>1. TurnsInv => CachedIsInHistory
    BY DEF TurnsInv, CachedInv, HasAnswer, CachedIsInHistory
<1> QED
    BY <1>1, TurnsAlways, PTL

\* All four together: conversations are kept apart and whole.
THEOREM ConversationsAreWhole == ChatSpec => []ConversationsAreKept
<1>1. /\ HistoryIsPaired /\ OneInsert /\ MisaddressedOnlyByOverlap /\ CachedIsInHistory
      => ConversationsAreKept
    BY DEF ConversationsAreKept
<1>2. QED
    BY <1>1, HistoriesArePaired, FirstTurnInserts, MisaddressedByOverlap, CacheIsInHistory, PTL

---------------------------------------------------------------------------
(* Why a turn of a conversation ends.  The lock of a conversation is held  *)
(* by a turn in the "with lock" block and by nobody else, whichever calls  *)
(* failed and however often the server was restarted; in the block a turn  *)
(* waits for nobody, and no turn takes more than ten steps.                *)

LockIsSomebodys ==
    \A c \in Conversations :
        owner[c] # NoTurn => /\ owner[c] \in Turns /\ conv[owner[c]] = c
                             /\ step[owner[c]] \in Inside

\* A turn that is asked can take its lock, or another turn of the conversation
\* is in the block.
NobodyIsLockedOut ==
    \A t \in Turns :
        step[t] = "lock" =>
            \/ owner[conv[t]] = NoTurn
            \/ \E u \in Turns \ {t} : conv[u] = conv[t] /\ step[u] \in Inside

PlacesAhead ==
    [idle |-> 10, lock |-> 9, lookup |-> 8, history |-> 7, save |-> 6, search |-> 5, user |-> 4,
     assistant |-> 3, store |-> 2, stamp |-> 2, copy |-> 1, done |-> 0, failed |-> 0]

EveryTurnGoesOn ==
    \A t \in Turns :
        /\ PlacesAhead[step[t]]' <= PlacesAhead[step[t]]
        /\ TurnStep(t) \/ CallFails(t) => PlacesAhead[step[t]]' < PlacesAhead[step[t]]

\* Where a step of a turn leads, and what becomes of the lock: it is taken, it
\* is kept, or the turn leaves the block and releases it.
LeadsTo(t, p) ==
    /\ step' = [step EXCEPT ![t] = p] /\ PlacesAhead[p] < PlacesAhead[step[t]]
    /\ \/ step[t] = "lock" /\ p = "lookup" /\ owner' = [owner EXCEPT ![conv[t]] = t]
       \/ step[t] \in Inside /\ p \in Inside /\ UNCHANGED owner
       \/ step[t] \in Inside /\ p \in {"done", "failed"} /\ Release(t)

LEMMA PlacesAreNumbered ==
    \A p \in Places : /\ PlacesAhead[p] \in 0..10
                      /\ PlacesAhead["failed"] <= PlacesAhead[p]
    BY DEF Places, Ended, PlacesAhead

LEMMA TurnStepLeadsOn ==
    ASSUME TurnTypes, NEW t \in Turns, TurnStep(t) \/ CallFails(t)
    PROVE  UNCHANGED conv /\ \E p \in Places : LeadsTo(t, p)
<1> USE DEF Goes, Places, Ended, LeadsTo, PlacesAhead, Inside
<1>1. CASE TakeLock(t)
    BY <1>1 DEF TakeLock
<1>2. CASE FindCached(t)
    BY <1>2 DEF FindCached
<1>3. CASE LookPast(t)
    BY <1>3 DEF LookPast
<1>4. CASE StampId(t)
    BY <1>4 DEF StampId
<1>5. CASE ReturnCached(t)
    BY <1>5 DEF ReturnCached
<1>6. CASE ReadHistory(t)
    <2>1. step[t] = "history" /\ UNCHANGED <<owner, conv>>
        BY <1>6 DEF ReadHistory
    <2>2. PICK p \in {"save", "search"} : step' = [step EXCEPT ![t] = p]
        BY <1>6 DEF ReadHistory
    <2>3. LeadsTo(t, p)
        BY <2>1, <2>2
    <2> QED
        BY <2>1, <2>3
<1>7. CASE SaveConversation(t)
    BY <1>7 DEF SaveConversation
<1>8. CASE SaveRefused(t)
    BY <1>8 DEF SaveRefused, Raise
<1>9. CASE SearchDocuments(t)
    BY <1>9 DEF SearchDocuments
<1>10. CASE AddQuestion(t)
    BY <1>10 DEF AddQuestion
<1>11. CASE AddAnswer(t)
    BY <1>11 DEF AddAnswer
<1>12. CASE StoreAnswer(t)
    BY <1>12 DEF StoreAnswer
<1>13. CASE CallFails(t)
    BY <1>13 DEF CallFails, Raise
<1> QED
    BY <1>1, <1>2, <1>3, <1>4, <1>5, <1>6, <1>7, <1>8, <1>9, <1>10, <1>11, <1>12, <1>13
       DEF TurnStep

\* A lock that is held stays its holder's until the holder leaves the block.
LEMMA LocksStaySomebodys ==
    TurnTypes /\ LockInv /\ LockIsSomebodys /\ [ChatNext]_chatVars => LockIsSomebodys'
<1> SUFFICES ASSUME TurnTypes, LockInv, LockIsSomebodys, [ChatNext]_chatVars
             PROVE  LockIsSomebodys'
    OBVIOUS
<1> USE ChatAssumption DEF ChatAssumption, TurnTypes, ChatTypeOK, LockIsSomebodys
<1>1. ASSUME NEW t \in Turns, TurnStep(t) \/ CallFails(t) PROVE LockIsSomebodys'
    <2>1. UNCHANGED conv /\ conv[t] \in Conversations
        <3>1. step[t] # "idle"
            BY <1>1, TurnStepLeadsOn DEF LeadsTo, Inside
        <3> QED
            BY <1>1, <3>1, TurnStepLeadsOn
    <2>2. PICK p \in Places : LeadsTo(t, p)
        BY <1>1, TurnStepLeadsOn
    <2>3. \A u \in Turns \ {t} : step'[u] = step[u]
        BY <2>2 DEF LeadsTo
    <2>4. CASE step[t] = "lock" /\ p = "lookup" /\ owner' = [owner EXCEPT ![conv[t]] = t]
        BY <2>1, <2>2, <2>3, <2>4 DEF LeadsTo, Inside
    <2>5. CASE step[t] \in Inside /\ p \in Inside /\ UNCHANGED owner
        BY <2>1, <2>2, <2>3, <2>5 DEF LeadsTo, Inside
    <2>6. CASE step[t] \in Inside /\ p \in {"done", "failed"} /\ Release(t)
        BY <2>1, <2>2, <2>3, <2>6 DEF LeadsTo, Release, LockInv
    <2> QED
        BY <2>2, <2>4, <2>5, <2>6 DEF LeadsTo
<1>2. ASSUME NEW t \in Turns, NEW c \in Conversations, NEW q \in Queries, AskTurn(t, c, q)
      PROVE  LockIsSomebodys'
    BY <1>2 DEF AskTurn, Goes, Inside
<1>3. ASSUME NEW c \in Conversations, InsertConversation(c) PROVE LockIsSomebodys'
    BY <1>3 DEF InsertConversation
<1>4. CASE ChangeDocuments
    BY <1>4 DEF ChangeDocuments
<1>5. CASE RestartServer
    BY <1>5 DEF RestartServer
<1>6. CASE UNCHANGED chatVars
    BY <1>6 DEF chatVars
<1> QED
    BY <1>1, <1>2, <1>3, <1>4, <1>5, <1>6 DEF ChatNext

LEMMA TurnsGoOn == TurnTypes /\ [ChatNext]_chatVars => EveryTurnGoesOn
<1> SUFFICES ASSUME TurnTypes, [ChatNext]_chatVars PROVE EveryTurnGoesOn
    OBVIOUS
<1> USE DEF TurnTypes, ChatTypeOK
<1> DEFINE Less(t) == PlacesAhead[step'[t]] < PlacesAhead[step[t]]
           NotMore(t) == PlacesAhead[step'[t]] <= PlacesAhead[step[t]]
<1>1. ASSUME NEW t \in Turns, TurnStep(t) \/ CallFails(t)
      PROVE  Less(t) /\ \A u \in Turns : NotMore(u)
    <2>1. PICK p \in Places : LeadsTo(t, p)
        BY <1>1, TurnStepLeadsOn
    <2>2. step'[t] = p /\ \A u \in Turns \ {t} : step'[u] = step[u]
        BY <2>1 DEF LeadsTo
    <2>3. \A u \in Turns : step[u] \in Places
        OBVIOUS
    <2>4. PlacesAhead[p] < PlacesAhead[step[t]]
        BY <2>1 DEF LeadsTo
    <2> HIDE DEF TurnTypes, ChatTypeOK
    <2> QED
        BY <2>2, <2>3, <2>4, PlacesAreNumbered
<1>2. ASSUME NEW t \in Turns, NEW c \in Conversations, NEW q \in Queries, AskTurn(t, c, q)
      PROVE  \A u \in Turns : NotMore(u)
    <2>1. /\ step[t] = "idle" /\ step'[t] = "lock"
          /\ \A u \in Turns \ {t} : step'[u] = step[u]
        BY <1>2 DEF AskTurn, Goes
    <2>2. \A u \in Turns : step[u] \in Places
        OBVIOUS
    <2>3. PlacesAhead["lock"] <= PlacesAhead["idle"]
        BY DEF PlacesAhead
    <2> HIDE DEF TurnTypes, ChatTypeOK
    <2> QED
        BY <2>1, <2>2, <2>3, PlacesAreNumbered
<1>3. ASSUME NEW c \in Conversations, InsertConversation(c) PROVE UNCHANGED step
    BY <1>3 DEF InsertConversation
<1>4. ASSUME ChangeDocuments PROVE UNCHANGED step
    BY <1>4 DEF ChangeDocuments
<1>5. ASSUME UNCHANGED chatVars PROVE UNCHANGED step
    BY <1>5 DEF chatVars
<1>6. ASSUME UNCHANGED step PROVE \A u \in Turns : NotMore(u)
    <2>1. \A u \in Turns : step'[u] = step[u] /\ step[u] \in Places
        BY <1>6
    <2>2. \A n \in 0..10 : n <= n
        OBVIOUS
    <2> HIDE DEF TurnTypes, ChatTypeOK
    <2> QED
        BY <2>1, <2>2, PlacesAreNumbered
<1>7. \A u \in Turns : NotMore(u)
    <2>1. CASE RestartServer
        <3>1. \A u \in Turns : step[u] \in Places /\ step'[u] \in {step[u], "failed"}
            BY <2>1 DEF RestartServer
        <3>2. \A n \in 0..10 : n <= n
            OBVIOUS
        <3> HIDE DEF TurnTypes, ChatTypeOK
        <3> QED
            BY <3>1, <3>2, PlacesAreNumbered
    <2> QED
        BY <1>1, <1>2, <1>3, <1>4, <1>5, <1>6, <2>1 DEF ChatNext
<1> QED
    BY <1>1, <1>7 DEF EveryTurnGoesOn

\* A conversation is locked by a turn in the "with lock" block and by nobody
\* else; so a turn that waits for the lock waits for one that is at work, for any
\* conversations and turns, failed calls and restarts.
THEOREM LocksAreFreed == ChatSpec => [](LockIsSomebodys /\ NobodyIsLockedOut)
<1> USE ChatAssumption DEF ChatAssumption
<1>1. ChatInit => LockIsSomebodys
    BY DEF ChatInit, LockIsSomebodys
<1>2. TurnsInv => TurnTypes /\ LockInv
    BY DEF TurnsInv
<1>3. ASSUME TurnTypes, LockInv, LockIsSomebodys PROVE NobodyIsLockedOut
    <2>1. \A t \in Turns : step[t] = "lock" => conv[t] \in Conversations
        BY <1>3 DEF TurnTypes
    <2>2. \A c \in Conversations : owner[c] \in Turns \cup {NoTurn}
        BY <1>3 DEF TurnTypes, ChatTypeOK
    <2> QED
        BY <1>3, <2>1, <2>2 DEF LockIsSomebodys, NobodyIsLockedOut, Inside
<1> QED
    BY <1>1, <1>2, <1>3, LocksStaySomebodys, TurnsAlways, PTL DEF ChatSpec

\* Each step of a turn brings it nearer to its end, of at most ten, and nothing
\* that another turn, the API or a restart does takes it back.
THEOREM TurnsAreBounded ==
    ChatSpec => /\ [](\A t \in Turns : PlacesAhead[step[t]] \in 0..10)
                /\ [][EveryTurnGoesOn]_chatVars
<1>1. TurnsInv => TurnTypes /\ \A t \in Turns : PlacesAhead[step[t]] \in 0..10
    BY PlacesAreNumbered DEF TurnsInv, TurnTypes, ChatTypeOK
<1>2. TurnTypes /\ [ChatNext]_chatVars => [EveryTurnGoesOn]_chatVars
    BY TurnsGoOn
<1> QED
    BY <1>1, <1>2, TurnsAlways, PTL DEF ChatSpec

---------------------------------------------------------------------------
(* The two histories of a chat                                             *)

\* Without an overlap one request at most is between load and update, and what
\* it has loaded is the history as it is.
LoadedIsCurrent ==
    \A r \in Underway : /\ inRegistry /\ loaded[r] = history
                        /\ \A u \in Underway : u = r

\* A streamed message that is under way or done has its question in the
\* database.
RowsInv ==
    /\ \A j \in 1..Len(talkRows) : /\ talkRows[j].of \in Streams
                                   /\ talk[talkRows[j].of] # "new"
    /\ \A r \in Streams : talk[r] \notin {"new", "failed"} =>
           \E i \in 1..Len(talkRows) : talkRows[i] = Question(r)
    /\ AnswersFollow

HistoryInv ==
    /\ HistoryTypeOK
    /\ ~inRegistry => history = <<>>
    /\ overlapped \/ LoadedIsCurrent
    /\ RowsInv

LEMMA MessagesOfTalks ==
    ASSUME NEW r \in Talks
    PROVE  Question(r) \in TalkMessages /\ Answer(r) \in TalkMessages /\ Question(r) # Answer(r)
BY DEF Question, Answer, TalkMessages

LEMMA HistoryStart == HistoryInit => HistoryInv
<1> SUFFICES ASSUME HistoryInit PROVE HistoryInv
    OBVIOUS
<1> USE ChatHistoryAssumption DEF ChatHistoryAssumption, HistoryInit
<1>1. HistoryTypeOK
    <2>1. <<>> \in Seq(TalkMessages) /\ [r \in Talks |-> <<>>] \in [Talks -> Seq(TalkMessages)]
        BY EmptySeq
    <2>2. inRegistry \in BOOLEAN /\ overlapped \in BOOLEAN
        BY Zenon
    <2> QED
        BY <2>1, <2>2 DEF HistoryTypeOK
<1>2. LoadedIsCurrent
    BY DEF LoadedIsCurrent, Underway
<1>3. RowsInv
    BY EmptySeq DEF RowsInv, AnswersFollow, Talks
<1> QED
    BY <1>1, <1>2, <1>3 DEF HistoryInv

LEMMA HistoryTypes == HistoryTypeOK /\ [HistoryNext]_historyVars => HistoryTypeOK'
<1> SUFFICES ASSUME HistoryTypeOK, [HistoryNext]_historyVars PROVE HistoryTypeOK'
    OBVIOUS
<1> USE ChatHistoryAssumption DEF ChatHistoryAssumption, HistoryTypeOK
<1>1. CASE DeleteConversation
    <2>1. <<>> \in Seq(TalkMessages) /\ overlapped' \in BOOLEAN
        BY <1>1, EmptySeq DEF DeleteConversation
    <2> QED
        BY <1>1, <2>1 DEF DeleteConversation
<1>2. ASSUME NEW r \in Talks, LoadConversation(r) PROVE HistoryTypeOK'
    BY <1>2 DEF LoadConversation, TalkGoes
<1>3. ASSUME NEW r \in Talks, UpdateSend(r) PROVE HistoryTypeOK'
    <2>1. history' \in Seq(TalkMessages)
        BY <1>3, MessagesOfTalks DEF UpdateSend
    <2> QED
        BY <1>3, <2>1 DEF UpdateSend, TalkGoes
<1>4. ASSUME NEW r \in Talks, UpdateStream(r) PROVE HistoryTypeOK'
    <2>1. history' \in Seq(TalkMessages)
        BY <1>4, MessagesOfTalks DEF UpdateStream
    <2> QED
        BY <1>4, <2>1 DEF UpdateStream, TalkGoes
<1>5. ASSUME NEW r \in Talks, RequestFails(r) PROVE HistoryTypeOK'
    BY <1>5 DEF RequestFails
<1>6. ASSUME NEW r \in Streams, ReceiveMessage(r) PROVE HistoryTypeOK'
    <2>1. r \in Talks
        BY DEF Talks
    <2>2. talkRows' \in Seq(TalkMessages) /\ <<>> \in Seq(TalkMessages)
        BY <1>6, <2>1, MessagesOfTalks, EmptySeq DEF ReceiveMessage
    <2> QED
        BY <1>6, <2>1, <2>2 DEF ReceiveMessage, TalkGoes
<1>7. ASSUME NEW r \in Streams, StoreStreamed(r) PROVE HistoryTypeOK'
    <2>1. r \in Talks
        BY DEF Talks
    <2>2. talkRows' \in Seq(TalkMessages)
        BY <1>7, <2>1, MessagesOfTalks DEF StoreStreamed
    <2> QED
        BY <1>7, <2>1, <2>2 DEF StoreStreamed, TalkGoes
<1>8. ASSUME NEW r \in Streams, Disconnect(r) PROVE HistoryTypeOK'
    BY <1>8 DEF Disconnect, TalkGoes, Talks
<1>9. CASE UNCHANGED historyVars
    BY <1>9 DEF historyVars
<1> QED
    BY <1>1, <1>2, <1>3, <1>4, <1>5, <1>6, <1>7, <1>8, <1>9 DEF HistoryNext

LEMMA RowAdded ==
    ASSUME HistoryTypeOK, NEW m \in TalkMessages, talkRows' = Append(talkRows, m)
    PROVE  /\ Len(talkRows) \in Nat /\ Len(talkRows') = Len(talkRows) + 1
           /\ talkRows'[Len(talkRows) + 1] = m
           /\ \A i \in 1..Len(talkRows) : talkRows'[i] = talkRows[i]
BY AppendProperties, LenProperties DEF HistoryTypeOK

LEMMA TalkRowSteps == HistoryTypeOK /\ RowsInv /\ [HistoryNext]_historyVars => RowsInv'
<1> SUFFICES ASSUME HistoryTypeOK, RowsInv, [HistoryNext]_historyVars PROVE RowsInv'
    OBVIOUS
<1>1. \A i \in 1..Len(talkRows) : talkRows[i] \in TalkMessages
    BY DEF HistoryTypeOK
<1>2. ASSUME UNCHANGED talkRows,
             \A r \in Talks : \/ talk'[r] = talk[r]
                              \/ talk[r] # "done" /\ talk'[r] = "failed"
                              \/ r \in Sends /\ talk'[r] # "new"
                              \/ talk[r] \notin {"new", "done", "failed"} /\ talk'[r] # "new"
      PROVE  RowsInv'
    BY <1>1, <1>2, ChatHistoryAssumption
       DEF RowsInv, AnswersFollow, Talks, TalkMessages, ChatHistoryAssumption
<1>3. ASSUME NEW r \in Streams, ReceiveMessage(r) PROVE RowsInv'
    BY <1>1, <1>3, RowAdded, MessagesOfTalks
       DEF ReceiveMessage, TalkGoes, RowsInv, AnswersFollow, Talks, TalkMessages, Question,
           HistoryTypeOK
<1>4. ASSUME NEW r \in Streams, StoreStreamed(r) PROVE RowsInv'
    <2> DEFINE n == Len(talkRows)
    <2>1. r \in Talks /\ talk[r] = "streaming" /\ talk' = [talk EXCEPT ![r] = "done"]
        BY <1>4 DEF StoreStreamed, TalkGoes, Talks
    <2>2. /\ n \in Nat /\ Len(talkRows') = n + 1 /\ talkRows'[n + 1] = Answer(r)
          /\ \A i \in 1..n : talkRows'[i] = talkRows[i]
        BY <1>4, <2>1, RowAdded, MessagesOfTalks DEF StoreStreamed
    <2>3. Answer(r).of = r /\ Answer(r).role = "assistant" /\ Question(r) # Answer(r)
        BY DEF Answer, Question
    <2>4. \A u \in Talks : talk'[u] = IF u = r THEN "done" ELSE talk[u]
        BY <2>1 DEF HistoryTypeOK
    <2>5. PICK k \in 1..n : talkRows[k] = Question(r)
        BY <2>1 DEF RowsInv
    <2>6. \A j \in 1..n : talkRows[j].role = "assistant" => talkRows[j].of # r
        BY <2>1 DEF RowsInv, AnswersFollow
    <2> HIDE DEF n
    <2>7. \A j \in 1..(n + 1) : j = n + 1 \/ j \in 1..n
        BY <2>2
    <2>8. ASSUME NEW j \in 1..Len(talkRows')
          PROVE  talkRows'[j].of \in Streams /\ talk'[talkRows'[j].of] # "new"
        <3>1. CASE j = n + 1
            BY <2>1, <2>2, <2>3, <2>4, <3>1
        <3>2. CASE j \in 1..n
            <4>1. talkRows'[j] = talkRows[j] /\ talkRows[j].of \in Talks
                BY <1>1, <2>2, <3>2 DEF TalkMessages, n
            <4>2. talkRows[j].of \in Streams /\ talk[talkRows[j].of] # "new"
                BY <3>2 DEF RowsInv, n
            <4> QED
                BY <2>4, <4>1, <4>2
        <3> QED
            BY <2>2, <2>7, <3>1, <3>2
    <2>9. ASSUME NEW u \in Streams, talk'[u] \notin {"new", "failed"}
          PROVE  \E i \in 1..Len(talkRows') : talkRows'[i] = Question(u)
        <3>1. PICK i \in 1..n : talkRows[i] = Question(u)
            BY <2>1, <2>4, <2>9 DEF RowsInv, Talks, n
        <3> QED
            BY <2>2, <3>1
    <2>10. ASSUME NEW j \in 1..Len(talkRows'), talkRows'[j].role = "assistant"
           PROVE  /\ \E i \in 1..(j - 1) : talkRows'[i] = Question(talkRows'[j].of)
                  /\ talk'[talkRows'[j].of] = "done"
                  /\ \A i \in 1..Len(talkRows') : talkRows'[i] = talkRows'[j] => i = j
        <3>1. CASE j = n + 1
            BY <2>2, <2>3, <2>4, <2>5, <2>6, <2>7, <3>1, <2>1
        <3>2. CASE j \in 1..n
            <4>1. /\ \E i \in 1..(j - 1) : talkRows[i] = Question(talkRows[j].of)
                  /\ talk[talkRows[j].of] = "done"
                  /\ \A i \in 1..n : talkRows[i] = talkRows[j] => i = j
                BY <2>2, <2>10, <3>2 DEF RowsInv, AnswersFollow, n
            <4>2. talkRows'[j] = talkRows[j] /\ talkRows[j].of # r /\ talkRows[j].of \in Talks
                BY <1>1, <2>2, <2>6, <2>10, <3>2 DEF TalkMessages, n
            <4> QED
                BY <2>2, <2>3, <2>4, <2>7, <3>2, <4>1, <4>2
        <3> QED
            BY <2>2, <2>7, <3>1, <3>2
    <2> QED
        BY <2>8, <2>9, <2>10 DEF RowsInv, AnswersFollow
<1>5. CASE DeleteConversation
    BY <1>2, <1>5 DEF DeleteConversation
<1>6. ASSUME NEW r \in Talks, LoadConversation(r) PROVE RowsInv'
    BY <1>2, <1>6 DEF LoadConversation, TalkGoes, HistoryTypeOK, Talks
<1>7. ASSUME NEW r \in Talks, UpdateSend(r) \/ UpdateStream(r) \/ RequestFails(r) PROVE RowsInv'
    BY <1>2, <1>7 DEF UpdateSend, UpdateStream, RequestFails, TalkGoes, HistoryTypeOK, Talks
<1>8. ASSUME NEW r \in Streams, Disconnect(r) PROVE RowsInv'
    BY <1>2, <1>8 DEF Disconnect, TalkGoes, HistoryTypeOK, Talks
<1>9. CASE UNCHANGED historyVars
    BY <1>2, <1>9 DEF historyVars
<1> QED
    BY <1>3, <1>4, <1>5, <1>6, <1>7, <1>8, <1>9 DEF HistoryNext

LEMMA Extended ==
    ASSUME NEW s \in Seq(TalkMessages), NEW t \in Seq(TalkMessages) PROVE IsPrefix(s, s \o t)
BY ConcatProperties, SubSeqProperties, LenProperties DEF IsPrefix
LEMMA LoadedSteps ==
    HistoryInv /\ [HistoryNext]_historyVars =>
        /\ ~inRegistry' => history' = <<>>
        /\ overlapped' \/ LoadedIsCurrent'
        /\ IsPrefix(history, history') \/ ~inRegistry' \/ overlapped
        /\ ~inRegistry /\ inRegistry' => history' = <<>> \/ overlapped
<1> DEFINE Kept == /\ ~inRegistry' => history' = <<>>
                   /\ overlapped' \/ LoadedIsCurrent'
                   /\ IsPrefix(history, history') \/ ~inRegistry' \/ overlapped
                   /\ ~inRegistry /\ inRegistry' => history' = <<>> \/ overlapped
<1> SUFFICES ASSUME HistoryInv, [HistoryNext]_historyVars PROVE Kept
    OBVIOUS
<1>1. IsPrefix(history, history)
    <2>1. history \in Seq(TalkMessages)
        BY DEF HistoryInv, HistoryTypeOK
    <2>2. history \o <<>> = history /\ <<>> \in Seq(TalkMessages)
        BY <2>1, ConcatEmptySeq, EmptySeq
    <2> QED
        BY <2>1, <2>2, Extended
<1> USE DEF HistoryInv, HistoryTypeOK, LoadedIsCurrent, Underway
<1>2. CASE DeleteConversation
    BY <1>2 DEF DeleteConversation, Underway
<1>3. ASSUME NEW r \in Talks, LoadConversation(r) PROVE Kept
    BY <1>1, <1>3 DEF LoadConversation, TalkGoes
<1>4. ASSUME NEW r \in Talks, UpdateSend(r) PROVE Kept
    <2>1. <<Question(r), Answer(r)>> \in Seq(TalkMessages)
        BY MessagesOfTalks
    <2>2. overlapped \/ (inRegistry /\ loaded[r] = history /\ \A u \in Underway : u = r)
        BY <1>4 DEF UpdateSend, TalkGoes
    <2>3. overlapped \/ IsPrefix(history, history')
        BY <1>4, <2>1, <2>2, Extended DEF UpdateSend
    <2>4. overlapped' \/ LoadedIsCurrent'
        BY <1>4, <2>2 DEF UpdateSend, TalkGoes
    <2> QED
        BY <1>4, <2>2, <2>3, <2>4 DEF UpdateSend
<1>5. ASSUME NEW r \in Talks, UpdateStream(r) PROVE Kept
    <2>1. <<Question(r)>> \in Seq(TalkMessages)
        BY MessagesOfTalks
    <2>2. overlapped \/ (inRegistry /\ loaded[r] = history /\ \A u \in Underway : u = r)
        BY <1>5 DEF UpdateStream, TalkGoes
    <2>3. history' = loaded[r] \o <<Question(r)>>
        BY <1>5, <2>1, AppendIsConcat, MessagesOfTalks DEF UpdateStream
    <2>4. overlapped \/ IsPrefix(history, history')
        BY <2>1, <2>2, <2>3, Extended
    <2>5. overlapped' \/ LoadedIsCurrent'
        BY <1>5, <2>2 DEF UpdateStream, TalkGoes
    <2> QED
        BY <1>5, <2>2, <2>4, <2>5 DEF UpdateStream
<1>6. ASSUME NEW r \in Talks, RequestFails(r) PROVE Kept
    BY <1>1, <1>6 DEF RequestFails
<1>7. ASSUME NEW r \in Streams, ReceiveMessage(r) PROVE Kept
    BY <1>1, <1>7 DEF ReceiveMessage, TalkGoes
<1>8. ASSUME NEW r \in Streams, StoreStreamed(r) \/ Disconnect(r) PROVE Kept
    BY <1>1, <1>8 DEF StoreStreamed, Disconnect, TalkGoes
<1>9. CASE UNCHANGED historyVars
    BY <1>1, <1>9 DEF historyVars
<1> QED
    BY <1>2, <1>3, <1>4, <1>5, <1>6, <1>7, <1>8, <1>9 DEF HistoryNext

LEMMA HistoryAlways == HistorySpec => []HistoryInv
<1>1. HistoryInv /\ [HistoryNext]_historyVars => HistoryInv'
    BY HistoryTypes, TalkRowSteps, LoadedSteps DEF HistoryInv
<1> QED
    BY <1>1, HistoryStart, PTL DEF HistorySpec

\* The history only grows unless requests cross, for any requests.
THEOREM HistoryOnlyGrows == HistorySpec => HistoryGrows
<1>1. HistoryInv /\ [HistoryNext]_historyVars =>
          [MessagesStay]_historyVars
    BY LoadedSteps DEF MessagesStay
<1> QED
    BY <1>1, HistoryAlways, PTL DEF HistorySpec, HistoryGrows

\* A deleted conversation is not brought back unless requests cross its
\* deletion, for any requests.
THEOREM DeletionIsKept == HistorySpec => DeletedStaysDeleted
<1>1. HistoryInv /\ [HistoryNext]_historyVars =>
          [ComesBackEmpty]_historyVars
    BY LoadedSteps DEF ComesBackEmpty
<1> QED
    BY <1>1, HistoryAlways, PTL DEF HistorySpec, DeletedStaysDeleted

\* In the database an answer follows its question, once, for any requests.
THEOREM AnswersFollowQuestions == HistorySpec => []AnswersFollow
<1>1. HistoryInv => AnswersFollow
    BY DEF HistoryInv, RowsInv
<1> QED
    BY <1>1, HistoryAlways, PTL

\* All three together: both stores keep what went into them.
THEOREM StoresKeepMessages == HistorySpec => HistoryIsKept
<1>1. [MessagesStay]_historyVars /\ [ComesBackEmpty]_historyVars /\ AnswersFollow' =>
          [MessagesStay /\ ComesBackEmpty /\ AnswersFollow']_historyVars
    OBVIOUS
<1> QED
    BY <1>1, HistoryOnlyGrows, DeletionIsKept, AnswersFollowQuestions, PTL
    DEF HistoryIsKept, HistoryGrows, DeletedStaysDeleted
=============================================================================
