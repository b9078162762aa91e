---------------------------- MODULE ConfigReload ----------------------------
(***************************************************************************)
(* ConfigWatcher and ConfigManager (backend/config/config_watcher.py,      *)
(* config_manager.py): the watch loop and callers of force_reload check    *)
(* the same file, without a lock until the settings are merged.  Versions  *)
(* of the file are numbered by their modification time; version 1 is the   *)
(* one the constructor finds, whose time it takes and whose settings it    *)
(* does not read.  A version that does not parse is left as it is.         *)
(***************************************************************************)
EXTENDS Naturals

CONSTANTS Checkers, Watcher,   \* the threads that check the file; the watch loop
          LastVersion,         \* bound: the last version of the file
          Unreadable           \* the versions that do not parse

ASSUME ConfigAssumption ==
    /\ Watcher \in Checkers
    /\ LastVersion \in Nat \ {0}
    /\ Unreadable \subseteq 2..LastVersion

VARIABLES file,            \* the version on disk
          active,          \* _active
          lastModified,    \* _last_modified
          checker,         \* where each checker is in force_check
          mtime, read,     \* the time and the settings it has read
          settings,        \* the version merged last, 0 for the environment's
          checksCrossed          \* history: two checkers had settings to merge at once

configVars == <<file, active, lastModified, checker, mtime, read, settings, checksCrossed>>

FileVersions == 0..LastVersion

ConfigTypeOK ==
    /\ file \in FileVersions /\ lastModified \in FileVersions /\ settings \in FileVersions
    /\ active \in BOOLEAN /\ checksCrossed \in BOOLEAN
    /\ checker \in [Checkers -> {"away", "compare", "note", "open", "merge"}]
    /\ mtime \in [Checkers -> FileVersions] /\ read \in [Checkers -> FileVersions]

ConfigInit ==
    /\ file = 1 /\ lastModified = 1 /\ settings = 0
    /\ active = TRUE /\ checksCrossed = FALSE
    /\ checker = [k \in Checkers |-> "away"]
    /\ mtime = [k \in Checkers |-> 0] /\ read = [k \in Checkers |-> 0]

EditFile ==
    /\ file < LastVersion
    /\ file' = file + 1
    /\ UNCHANGED <<active, lastModified, checker, mtime, read, settings, checksCrossed>>

\* shutdown(): the loop ends with the check it is in.
StopWatcher ==
    /\ active
    /\ active' = FALSE
    /\ UNCHANGED <<file, lastModified, checker, mtime, read, settings, checksCrossed>>

\* force_check: getmtime
ReadTime(k) ==
    /\ checker[k] = "away"
    /\ k = Watcher => active
    /\ mtime' = [mtime EXCEPT ![k] = file]
    /\ checker' = [checker EXCEPT ![k] = "compare"]
    /\ UNCHANGED <<file, active, lastModified, read, settings, checksCrossed>>

\* if mtime > self._last_modified
CompareTimes(k) ==
    /\ checker[k] = "compare"
    /\ checker' = [checker EXCEPT ![k] = IF mtime[k] > lastModified THEN "note" ELSE "away"]
    /\ UNCHANGED <<file, active, lastModified, mtime, read, settings, checksCrossed>>

\* self._last_modified = mtime, which another checker may have moved on from.
NoteTime(k) ==
    /\ checker[k] = "note"
    /\ lastModified' = mtime[k]
    /\ checker' = [checker EXCEPT ![k] = "open"]
    /\ UNCHANGED <<file, active, mtime, read, settings, checksCrossed>>

\* Faulty variant: what is merged was read with the time.
LoadNoted(k) ==
    /\ checker[k] = "open"
    /\ file \notin Unreadable
    /\ read' = [read EXCEPT ![k] = mtime[k]]
    /\ checker' = [checker EXCEPT ![k] = "merge"]
    /\ checksCrossed' = (checksCrossed \/ \E l \in Checkers \ {k} : checker[l] = "merge")
    /\ UNCHANGED <<file, active, lastModified, mtime, settings>>

\* _reload_file: json.load of the file as it is now.
LoadFile(k) ==
    /\ checker[k] = "open"
    /\ file \notin Unreadable
    /\ read' = [read EXCEPT ![k] = file]
    /\ checker' = [checker EXCEPT ![k] = "merge"]
    /\ checksCrossed' = (checksCrossed \/ \E l \in Checkers \ {k} : checker[l] = "merge")
    /\ UNCHANGED <<file, active, lastModified, mtime, settings>>

\* Faulty variant: the watch loop does not survive a file that does not parse.
LoadKills(k) ==
    /\ checker[k] = "open"
    /\ file \in Unreadable
    /\ checker' = [checker EXCEPT ![k] = IF k = Watcher THEN "dead" ELSE "away"]
    /\ UNCHANGED <<file, active, lastModified, mtime, read, settings, checksCrossed>>

\* It does not parse: logged.
LoadFails(k) ==
    /\ checker[k] = "open"
    /\ file \in Unreadable
    /\ checker' = [checker EXCEPT ![k] = "away"]
    /\ UNCHANGED <<file, active, lastModified, mtime, read, settings, checksCrossed>>

\* Faulty variant: the time is taken from the file again, after the load.
MergeAndNote(k) ==
    /\ checker[k] = "merge"
    /\ settings' = read[k]
    /\ lastModified' = file
    /\ checker' = [checker EXCEPT ![k] = "away"]
    /\ UNCHANGED <<file, active, mtime, read, checksCrossed>>

\* update_settings, under the manager's lock.
MergeSettings(k) ==
    /\ checker[k] = "merge"
    /\ settings' = read[k]
    /\ checker' = [checker EXCEPT ![k] = "away"]
    /\ UNCHANGED <<file, active, lastModified, mtime, read, checksCrossed>>

CheckStep(k) ==
    \/ ReadTime(k) \/ CompareTimes(k) \/ NoteTime(k) \/ LoadFile(k) \/ LoadFails(k)
    \/ MergeSettings(k)

ConfigNext == (\E k \in Checkers : CheckStep(k)) \/ EditFile \/ StopWatcher

\* The loop goes on while it is active, and whoever checks the file finishes.
ConfigFairness ==
    \A k \in Checkers : WF_configVars(IF k = Watcher THEN CheckStep(k)
                                      ELSE checker[k] # "away" /\ CheckStep(k))

ConfigSpec == ConfigInit /\ [][ConfigNext]_configVars /\ ConfigFairness

---------------------------------------------------------------------------
\* A version whose time was noted was read, or a later one was: when no check
\* is under way and the file has not been edited since the last one, its
\* settings are in force, unless it does not parse, nobody has edited it since
\* the start, or two checkers crossed.
NotedMeansMerged ==
    (\A k \in Checkers : checker[k] = "away") /\ lastModified = file =>
        settings = file \/ file \in Unreadable \/ file = 1 \/ checksCrossed

\* The settings never go back to an older version of the file, unless two
\* checkers crossed and the one that had read first merged last.
NotUndone == settings' >= settings \/ checksCrossed

SettingsGoForward == [][NotUndone]_configVars

\* So with each step the settings follow the file, and only forwards.
SettingsFollowTheFile == [][NotedMeansMerged' /\ NotUndone]_configVars

\* The watch loop outlives files that do not parse: the last version of the
\* file comes into force if it parses, the watcher is not shut down and no two
\* checkers crossed.
LastVersionIsMerged ==
    file = LastVersion /\ LastVersion \notin Unreadable ~>
        settings = LastVersion \/ ~active \/ checksCrossed
=============================================================================
