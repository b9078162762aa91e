------------------------------ MODULE Packages ------------------------------
(***************************************************************************)
(* The marketplace (backend/marketplace/): the registry's catalogue, the   *)
(* dependency resolution and the installer with its backups.               *)
(*                                                                         *)
(* MarketplaceService keeps its lock through an installation, an uninstall *)
(* and a rollback, so one of them runs at a time; a release may be         *)
(* registered at any moment, also between two looks of a resolution at the *)
(* catalogue.  resolve_dependencies is its recursive dfs() spelled out:    *)
(* `path' is the stack of its calls with the dependencies each has still   *)
(* to go through, `wanted' the call that is about to be made.  A version   *)
(* constraint is the set of versions that match it.  A package whose       *)
(* signature, checksum or compatibility is refused changes nothing and is  *)
(* left out.                                                               *)
(***************************************************************************)
EXTENDS Integers, Sequences

CONSTANTS PackageIds,
          Versions,      \* versions as their position in the order
          Releases,      \* PackageMetadata: package, version and dependencies
          NoRelease,     \* no installation is under way
          NoCall,        \* dfs() is between two calls
          NotInstalled

Requirement == [package : PackageIds, versions : SUBSET Versions]

Record == [version : Versions, backups : Seq(Versions)]

ASSUME PackagesAssumption ==
    /\ Versions \subseteq Int
    /\ Releases \subseteq [package : PackageIds, version : Versions, requires : SUBSET Requirement]
    /\ NoRelease \notin Releases /\ NoCall \notin Requirement /\ NotInstalled \notin Record

VARIABLES catalogue,   \* PackageRegistry._packages
          installed,   \* PackageManager._installed
          target,      \* the release install() was called for
          wanted,      \* the package and constraint dfs() is called with
          path,        \* the calls of dfs() that resolve their dependencies
          resolved,    \* resolved_sequence, and with it resolved_map
          replaced,    \* history: the versions the updates of each package replaced
          cameBack     \* history: packages a version of which was installed again

packageVars == <<catalogue, installed, target, wanted, path, resolved, replaced, cameBack>>
resolutionVars == <<target, wanted, path, resolved>>

PackagesTypeOK ==
    /\ catalogue \subseteq Releases
    /\ installed \in [PackageIds -> Record \cup {NotInstalled}]
    /\ target \in Releases \cup {NoRelease}
    /\ wanted \in Requirement \cup {NoCall}
    /\ path \in Seq([release : Releases, left : SUBSET Requirement])
    /\ resolved \in Seq(Releases)
    /\ replaced \in [PackageIds -> Seq(Versions)]
    /\ cameBack \subseteq PackageIds

PackagesInit ==
    /\ catalogue = {}
    /\ installed = [p \in PackageIds |-> NotInstalled]
    /\ target = NoRelease /\ wanted = NoCall /\ path = <<>> /\ resolved = <<>>
    /\ replaced = [p \in PackageIds |-> <<>>]
    /\ cameBack = {}

---------------------------------------------------------------------------
(* The registry. *)

\* register_package: a version that is there is replaced.
RegisterPackage(r) ==
    /\ catalogue' = {s \in catalogue : s.package # r.package \/ s.version # r.version} \cup {r}
    /\ UNCHANGED <<installed, resolutionVars, replaced, cameBack>>

---------------------------------------------------------------------------
(* resolve_dependencies *)

\* install_package, and update_package with a newer release.
InstallPackage(r) ==
    /\ target = NoRelease
    /\ r \in catalogue
    /\ target' = r
    /\ wanted' = [package |-> r.package, versions |-> {r.version}]
    /\ UNCHANGED <<catalogue, installed, path, resolved, replaced, cameBack>>

OnPath(p) == \E i \in 1..Len(path) : path[i].release.package = p

Candidates(d) == {r \in catalogue : r.package = d.package /\ r.version \in d.versions}

IsResolved(p) == \E i \in 1..Len(resolved) : resolved[i].package = p

MetByResolved(d) ==
    \E i \in 1..Len(resolved) : resolved[i].package = d.package /\ resolved[i].version \in d.versions

MetByInstalled(d) ==
    installed[d.package] # NotInstalled /\ installed[d.package].version \in d.versions

\* A call of dfs() that raises no error of its own.
Passes(d) ==
    /\ ~OnPath(d.package)
    /\ Candidates(d) # {}
    /\ IsResolved(d.package) => MetByResolved(d)

Abandon ==
    /\ target' = NoRelease /\ wanted' = NoCall /\ path' = <<>> /\ resolved' = <<>>

\* DependencyResolutionError: a cycle, a missing package or a conflict.
ResolutionFails ==
    /\ wanted # NoCall
    /\ ~Passes(wanted)
    /\ Abandon
    /\ UNCHANGED <<catalogue, installed, replaced, cameBack>>

\* Faulty variant: a package that was resolved is not looked at again.
RequirementKnown ==
    /\ wanted # NoCall
    /\ IF IsResolved(wanted.package) THEN ~OnPath(wanted.package)
       ELSE Passes(wanted) /\ MetByInstalled(wanted)
    /\ wanted' = NoCall
    /\ UNCHANGED <<catalogue, installed, target, path, resolved, replaced, cameBack>>

\* The package was resolved to a version that matches, or is not resolved and
\* installed in one.
RequirementMet ==
    /\ wanted # NoCall
    /\ Passes(wanted)
    /\ IsResolved(wanted.package) \/ MetByInstalled(wanted)
    /\ wanted' = NoCall
    /\ UNCHANGED <<catalogue, installed, target, path, resolved, replaced, cameBack>>

\* Otherwise the newest matching release has its dependencies resolved first.
EnterRelease(r) ==
    /\ wanted # NoCall
    /\ Passes(wanted) /\ ~IsResolved(wanted.package) /\ ~MetByInstalled(wanted)
    /\ r \in Candidates(wanted) /\ \A s \in Candidates(wanted) : s.version <= r.version
    /\ path' = Append(path, [release |-> r, left |-> r.requires])
    /\ wanted' = NoCall
    /\ UNCHANGED <<catalogue, installed, target, resolved, replaced, cameBack>>

LastCall == path[Len(path)]

NextDependency(d) ==
    /\ wanted = NoCall /\ path # <<>>
    /\ d \in LastCall.left
    /\ path' = [path EXCEPT ![Len(path)] = [release |-> @.release, left |-> @.left \ {d}]]
    /\ wanted' = d
    /\ UNCHANGED <<catalogue, installed, target, resolved, replaced, cameBack>>

LeaveRelease ==
    /\ wanted = NoCall /\ path # <<>>
    /\ LastCall.left = {}
    /\ resolved' = Append(resolved, LastCall.release)
    /\ path' = SubSeq(path, 1, Len(path) - 1)
    /\ UNCHANGED <<catalogue, installed, target, wanted, replaced, cameBack>>

---------------------------------------------------------------------------
(* The installer. *)

In(v, s) == \E i \in 1..Len(s) : s[i] = v

\* install_local: the version that was active goes to the backups, once.
Replace(old, v) ==
    IF old = NotInstalled THEN [version |-> v, backups |-> <<>>]
    ELSE [version |-> v,
          backups |-> IF In(old.version, old.backups) THEN old.backups
                      ELSE Append(old.backups, old.version)]

ResolvedVersion(p) == resolved[CHOOSE i \in 1..Len(resolved) : resolved[i].package = p].version

Resolution == target # NoRelease /\ wanted = NoCall /\ path = <<>>

\* The packages of resolved_sequence are installed one after the other; each
\* is there once.  The histories are ours.
InstallResolved ==
    LET updated == {p \in PackageIds : IsResolved(p) /\ installed[p] # NotInstalled}
        back == {p \in updated : In(ResolvedVersion(p), replaced[p])}
    IN /\ Resolution
       /\ installed' = [p \in PackageIds |->
             IF IsResolved(p) THEN Replace(installed[p], ResolvedVersion(p)) ELSE installed[p]]
       /\ cameBack' = cameBack \cup back
       /\ replaced' = [p \in PackageIds |->
             IF p \in cameBack' THEN <<>>
             ELSE IF p \in updated THEN Append(replaced[p], installed[p].version)
             ELSE replaced[p]]
       /\ Abandon
       /\ UNCHANGED catalogue

Uninstall(p) ==
    /\ target = NoRelease
    /\ installed[p] # NotInstalled
    /\ installed' = [installed EXCEPT ![p] = NotInstalled]
    /\ replaced' = [replaced EXCEPT ![p] = <<>>]
    /\ cameBack' = cameBack \ {p}
    /\ UNCHANGED <<catalogue, resolutionVars>>

Shorter(s) == SubSeq(s, 1, Len(s) - 1)

HasBackup(p) == target = NoRelease /\ installed[p] # NotInstalled /\ installed[p].backups # <<>>

ForgetLast(p) ==
    replaced' = [replaced EXCEPT ![p] = IF @ = <<>> THEN @ ELSE Shorter(@)]

\* Faulty variant: the record install_local made is left as it is, with the
\* version that was rolled back in its backups.
RollbackKeepingBackup(p) ==
    /\ HasBackup(p)
    /\ LET b == installed[p].backups
       IN installed' = [installed EXCEPT ![p] = Replace([@ EXCEPT !.backups = Shorter(b)], b[Len(b)])]
    /\ ForgetLast(p)
    /\ UNCHANGED <<catalogue, resolutionVars, cameBack>>

\* rollback: the last backup becomes the active version, and the others stay.
Rollback(p) ==
    /\ HasBackup(p)
    /\ LET b == installed[p].backups
       IN installed' = [installed EXCEPT ![p] = [version |-> b[Len(b)], backups |-> Shorter(b)]]
    /\ ForgetLast(p)
    /\ UNCHANGED <<catalogue, resolutionVars, cameBack>>

---------------------------------------------------------------------------
PackagesNext ==
    \/ \E r \in Releases : RegisterPackage(r) \/ InstallPackage(r) \/ EnterRelease(r)
    \/ ResolutionFails \/ RequirementMet \/ LeaveRelease \/ InstallResolved
    \/ \E d \in Requirement : NextDependency(d)
    \/ \E p \in PackageIds : Uninstall(p) \/ Rollback(p)

PackagesSpec == PackagesInit /\ [][PackagesNext]_packageVars

---------------------------------------------------------------------------
\* What is resolved can be installed in that order: no package twice, and each
\* requirement of a release met by an earlier one or by what is installed,
\* whatever is registered meanwhile.  In the end the target is there in the
\* version that was asked for.
ResolutionIsSound ==
    /\ \A i \in 1..Len(resolved), d \in Requirement :
          d \in resolved[i].requires =>
              \/ \E j \in 1..(i - 1) : /\ resolved[j].package = d.package
                                       /\ resolved[j].version \in d.versions
              \/ MetByInstalled(d)
    /\ \A i, j \in 1..Len(resolved) : resolved[i].package = resolved[j].package => i = j
    /\ Resolution => LET d == [package |-> target.package, versions |-> {target.version}]
                     IN IF IsResolved(d.package) THEN MetByResolved(d) ELSE MetByInstalled(d)

\* A rollback brings back the version the last update replaced, and after more
\* rollbacks the ones before it, through updates that a resolution made on the
\* way; only a package of which a version was installed a second time is no
\* longer backed up in order.
RollbackRestores ==
    \A p \in PackageIds : Rollback(p) =>
        \/ p \in cameBack
        \/ LET s == replaced[p] IN s # <<>> /\ installed'[p].version = s[Len(s)]

RollbackUndoesTheUpdate == [][RollbackRestores]_packageVars

\* So each step of a resolution or rollback leaves the versions asked for.
VersionsAreAsAskedFor == [][ResolutionIsSound' /\ RollbackRestores]_packageVars

---------------------------------------------------------------------------
\* Claims of the documentation that the code does not keep.

\* "DependencyResolutionError: On circular dependency, conflict, or missing
\* package." (dependency_manager.py:43): what one resolution installs has its
\* requirements met when it is installed.
ConflictsAreRaised ==
    [][Resolution /\ target' = NoRelease =>
          \A i \in 1..Len(resolved) : \A d \in resolved[i].requires : MetByInstalled(d)']_packageVars

\* "Rolls back the package to its previous cached backup version."
\* (package_installer.py:105): a rollback leaves the active version.
RollbackChangesTheVersion ==
    [][\A p \in PackageIds : Rollback(p) => installed'[p].version # installed[p].version]_packageVars
=============================================================================
