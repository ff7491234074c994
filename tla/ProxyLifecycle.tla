--------------------------- MODULE ProxyLifecycle ---------------------------
(***************************************************************************)
(* The life of a hub: core/hub.rs (start, stop, Drop), core/shutdown.rs    *)
(* (crash marker and recovery) and the ProxyGuard of system/proxy_guard/   *)
(* windows.rs and macos.rs, over any number of sessions with crashes       *)
(* between any two writes and with writes that fail.                       *)
(*                                                                         *)
(* What outlives a process is the system's proxy settings, the backup file *)
(* proxy-settings.bak, the crash-marker file and the global Git setting.   *)
(* The actors are the hub process and a `recover` command; both execute    *)
(* recover_all.  A value is "off" (0 or the empty string), "ours" (our PAC *)
(* URL) or one the user chose.  The guard of Linux changes nothing.        *)
(***************************************************************************)
EXTENDS Integers, Sequences, SequencesExt

CONSTANTS
  Systems,      \* "windows", "macos"
  UserValues,   \* what the user may have in a setting, "off" included
  MaxSessions,  \* bound: hub starts
  MaxRecovers,  \* bound: recover commands
  MaxFails      \* bound: failing file, registry or networksetup operations

ASSUME LifecycleConstants ==
  /\ Systems \subseteq {"windows", "macos"}
  /\ "off" \in UserValues /\ "ours" \notin UserValues
  /\ MaxSessions \in Nat /\ MaxRecovers \in Nat /\ MaxFails \in Nat

Values == UserValues \cup {"ours"}
Actors == {"hub", "cli"}

\* proxy-settings.bak: no file, one that does not parse, the empty file of macOS.
Missing == <<>>
Torn == <<"torn">>
Flag == <<"flag">>

VARIABLES
  os,        \* the system the hub was built for
  registry,  \* the Internet Settings, or the settings of the network services
  bak,       \* proxy-settings.bak: the manual settings, Flag, Torn or Missing
  marker,    \* crash-marker exists
  git,       \* the global Git proxy: the user's own, or "none"
  pc,        \* what hub and cli do next
  nth,       \* number of the next setting that an actor writes
  loaded,    \* the backup an actor's recovery works from
  saved,     \* ProxyGuard.state, kept for the guard's lifetime
  guarded,   \* HakimiHub.proxy_guard is Some, with set_by_us = true
  dying,     \* the hub is being dropped instead of stopped
  beside,    \* whether the user may run recover beside a hub
  crashed,   \* history: a process was killed
  wanted,    \* history: the user's own settings
  sessions, recovers, fails  \* counters for the bounds

disk == <<registry, bak, marker, git>>
memory == <<nth, loaded, saved, guarded, dying>>
ghost == <<os, beside, crashed, wanted>>
counters == <<sessions, recovers, fails>>
vars == <<disk, pc, memory, ghost, counters>>

\* The settings in the order set_proxy writes them: the values of the Internet
\* Settings key, or of two network services the web proxies (http and https, which
\* networksetup turns off one after the other and nothing else touches) and the PAC.
Fields ==
  IF os = "windows"
  THEN <<"ProxyEnable", "ProxyServer", "ProxyOverride", "AutoConfigURL">>
  ELSE <<"Web1", "Pac1", "Web2", "Pac2">>
PacFields == {"AutoConfigURL", "Pac1", "Pac2"} \cap ToSet(Fields)
Manual == ToSet(Fields) \ PacFields    \* SystemProxySettings, the backup

\* Those that are written back: on macOS only the PAC URL is taken away.
UndoFields == IF os = "windows" THEN Fields ELSE <<"Pac1", "Pac2">>

Pick(f, names) == [n \in names |-> f[n]]
Goto(a, label) == pc' = [pc EXCEPT ![a] = label]

\* A file or registry operation of an actor may fail; then it goes to `label`.
Fail(a, label) ==
  /\ fails < MaxFails
  /\ fails' = fails + 1
  /\ Goto(a, label)
  /\ UNCHANGED <<disk, memory, ghost, sessions, recovers>>

\* networksetup is run and its result ignored, as are the errors of recovery.
Ignored(change) ==
  \/ change /\ UNCHANGED fails
  \/ fails < MaxFails /\ fails' = fails + 1 /\ UNCHANGED registry

Init ==
  /\ os \in Systems /\ beside \in BOOLEAN /\ crashed = FALSE
  /\ wanted \in [ToSet(Fields) -> UserValues]
  /\ registry = wanted
  /\ git = "user"
  /\ bak = Missing
  /\ marker = FALSE
  /\ pc = [a \in Actors |-> "down"]
  /\ nth = [a \in Actors |-> 1]
  /\ loaded = [a \in Actors |-> Missing]
  /\ saved = Missing
  /\ guarded = FALSE
  /\ dying = FALSE
  /\ sessions = 0 /\ recovers = 0 /\ fails = 0

-----------------------------------------------------------------------------
(* CrashRecovery::recover_all, by the hub at its start and by the cli *)

\* restore_proxy_settings: without a backup it returns; a read that fails, or a
\* backup that does not parse, only warns.
RecoverRead(a) ==
  /\ pc[a] = "rec_read"
  /\ \/ /\ bak \in {Missing, Torn}
        /\ Goto(a, "rec_git")
        /\ UNCHANGED <<loaded, nth, counters>>
        /\ UNCHANGED <<disk, saved, guarded, dying, ghost>>
     \/ /\ bak \notin {Missing, Torn}
        /\ loaded' = [loaded EXCEPT ![a] = bak]
        /\ nth' = [nth EXCEPT ![a] = 1]
        /\ Goto(a, "rec_write")
        /\ UNCHANGED <<disk, saved, guarded, dying, ghost, counters>>
     \/ os = "windows" /\ bak # Missing /\ Fail(a, "rec_git")

\* The manual values come from the backup, the PAC URL becomes empty; a value
\* that cannot be written is skipped.
RecoverWrite(a) ==
  LET f == UndoFields[nth[a]]
      last == nth[a] = Len(UndoFields)
  IN
  /\ pc[a] = "rec_write"
  /\ Ignored(registry' = [registry EXCEPT ![f] =
                            IF f \in Manual THEN loaded[a][f] ELSE "off"])
  /\ nth' = [nth EXCEPT ![a] = IF last THEN 1 ELSE @ + 1]
  /\ Goto(a, IF last THEN "rec_delete" ELSE "rec_write")
  /\ UNCHANGED <<bak, marker, git, loaded, saved, guarded, dying, ghost, sessions, recovers>>

RecoverDelete(a) ==
  /\ pc[a] = "rec_delete"
  /\ bak' = Missing
  /\ Goto(a, "rec_git")
  /\ UNCHANGED <<registry, marker, git, memory, ghost, counters>>

\* git::config::teardown, which has no originals and therefore unsets.
RecoverGit(a) ==
  /\ pc[a] = "rec_git"
  /\ git' = "none"
  /\ Goto(a, "rec_cleanup")
  /\ UNCHANGED <<registry, bak, marker, memory, ghost, counters>>

\* cleanup_temp_files removes the backup, restored or not.
RecoverCleanup(a) ==
  /\ pc[a] = "rec_cleanup"
  /\ bak' = Missing
  /\ Goto(a, "rec_marker")
  /\ UNCHANGED <<registry, marker, git, memory, ghost, counters>>

\* remove_crash_marker; an error ends start (nothing was set up) or recover.
RecoverMarker(a) ==
  /\ pc[a] = "rec_marker"
  /\ \/ /\ marker' = FALSE
        /\ Goto(a, IF a = "hub" THEN "mark" ELSE "down")
        /\ UNCHANGED <<registry, bak, git, memory, ghost, counters>>
     \/ marker /\ Fail(a, "down")

Recovery(a) ==
  \/ RecoverRead(a) \/ RecoverWrite(a) \/ RecoverDelete(a)
  \/ RecoverGit(a) \/ RecoverCleanup(a) \/ RecoverMarker(a)

-----------------------------------------------------------------------------
(* HakimiHub::start *)

\* Mutant: a marker left by a crash is overwritten without recovery.
StartHub_NoRecovery ==
  /\ pc["hub"] = "down"
  /\ sessions < MaxSessions
  /\ sessions' = sessions + 1
  /\ Goto("hub", "mark")
  /\ UNCHANGED <<disk, memory, ghost, recovers, fails>>

\* The single-instance lock is taken and the marker looked for.
StartHub ==
  /\ pc["hub"] = "down"
  /\ sessions < MaxSessions
  /\ sessions' = sessions + 1
  /\ Goto("hub", IF marker THEN "rec_read" ELSE "mark")
  /\ UNCHANGED <<disk, memory, ghost, recovers, fails>>

\* create_crash_marker; running becomes true only afterwards, so a failure
\* leaves nothing for Drop to do.
CreateMarker ==
  /\ pc["hub"] = "mark"
  /\ \/ /\ marker' = TRUE
        /\ Goto("hub", "init")
        /\ UNCHANGED <<registry, bak, git, memory, ghost, counters>>
     \/ Fail("hub", "down")

\* DNS resolver and CA: an error drops the hub.  Without auto_set_system_proxy
\* the proxy settings are left alone.
InitServices ==
  /\ pc["hub"] = "init"
  /\ \/ /\ \/ Goto("hub", "save") \/ Goto("hub", "serving")
        /\ UNCHANGED <<disk, memory, ghost, counters>>
     \/ Fail("hub", "drop")

\* Mutant: the settings are written before the backup is complete.
SaveBackup_Early ==
  /\ pc["hub"] = "save"
  /\ saved' = IF os = "windows" THEN registry ELSE Missing
  /\ bak' = Torn
  /\ nth' = [nth EXCEPT !["hub"] = 1]
  /\ Goto("hub", "pac")
  /\ UNCHANGED <<registry, marker, git, loaded, guarded, dying, ghost, counters>>

\* ProxyGuard::set_proxy, Windows: the current state is read, and fs::write of
\* the backup begins.  macOS: an empty file is created, if it can be.
SaveBackup ==
  /\ pc["hub"] = "save"
  /\ \/ /\ saved' = IF os = "windows" THEN registry ELSE Missing
        /\ bak' = IF os = "windows" THEN Torn ELSE Flag
        /\ nth' = [nth EXCEPT !["hub"] = 1]
        /\ Goto("hub", IF os = "windows" THEN "backup" ELSE "pac")
        /\ UNCHANGED <<registry, marker, git, loaded, guarded, dying, ghost, counters>>
     \/ Fail("hub", IF os = "windows" THEN "drop" ELSE "pac")

WriteBackup ==
  /\ pc["hub"] = "backup"
  /\ \/ /\ bak' = Pick(saved, Manual)
        /\ Goto("hub", "pac")
        /\ UNCHANGED <<registry, marker, git, memory, ghost, counters>>
     \/ Fail("hub", "drop")

\* write_pac_config: one value after the other.  An error leaves set_proxy
\* before set_by_us, so the guard, dropped on the way out, does nothing; on macOS
\* it is ignored.
WritePac ==
  LET f == Fields[nth["hub"]]
      last == nth["hub"] = Len(Fields)
  IN
  /\ pc["hub"] = "pac"
  /\ \/ /\ IF os = "windows"
           THEN registry' = [registry EXCEPT ![f] = IF f \in Manual THEN "off" ELSE "ours"]
                /\ UNCHANGED fails
           ELSE Ignored(registry' = [registry EXCEPT ![f] =
                                       IF f \in Manual THEN "off" ELSE "ours"])
        /\ nth' = [nth EXCEPT !["hub"] = @ + 1]
        /\ guarded' = last
        /\ Goto("hub", IF last THEN "serving" ELSE "pac")
        /\ UNCHANGED <<bak, marker, git, loaded, saved, dying, ghost, sessions, recovers>>
     \/ os = "windows" /\ Fail("hub", "drop")

-----------------------------------------------------------------------------
(* HakimiHub::stop and Drop *)

\* Mutant: stop restores only if the backup file is still there.
StopHub_NeedsBackup ==
  /\ pc["hub"] = "serving"
  /\ nth' = [nth EXCEPT !["hub"] = 1]
  /\ Goto("hub", IF guarded /\ bak # Missing THEN "restore" ELSE "unmark")
  /\ UNCHANGED <<disk, loaded, saved, guarded, dying, ghost, counters>>

\* A signal: stop takes the guard, if there is one.
StopHub ==
  /\ pc["hub"] = "serving"
  /\ nth' = [nth EXCEPT !["hub"] = 1]
  /\ Goto("hub", IF guarded THEN "restore" ELSE "unmark")
  /\ UNCHANGED <<disk, loaded, saved, guarded, dying, ghost, counters>>

\* start returns an error, or panics while serving: Drop sees running = true.
DropHub ==
  /\ pc["hub"] \in {"drop", "serving"}
  /\ dying' = TRUE
  /\ nth' = [nth EXCEPT !["hub"] = 1]
  /\ Goto("hub", IF guarded THEN "restore" ELSE "unmark")
  /\ UNCHANGED <<disk, loaded, saved, guarded, ghost, counters>>

\* Mutant: AutoConfigURL is left as it is.
WriteSavedState_KeepsPac ==
  LET f == UndoFields[nth["hub"]] IN
  /\ pc["hub"] = "restore"
  /\ registry' = [registry EXCEPT ![f] = IF f \in Manual THEN saved[f] ELSE @]
  /\ nth' = [nth EXCEPT !["hub"] = @ + 1]
  /\ Goto("hub", IF nth["hub"] = Len(UndoFields) THEN "delete" ELSE "restore")
  /\ UNCHANGED <<bak, marker, git, loaded, saved, guarded, dying, ghost, counters>>

\* restore_sync writes the saved state back, or takes our PAC URL away.  An error
\* ends stop at once, with marker and backup still there; Drop only warns and goes
\* on, and macOS ignores it.
WriteSavedState ==
  LET f == UndoFields[nth["hub"]] IN
  /\ pc["hub"] = "restore"
  /\ \/ /\ IF os = "windows"
           THEN registry' = [registry EXCEPT ![f] = saved[f]] /\ UNCHANGED fails
           ELSE Ignored(registry' = [registry EXCEPT ![f] = "off"])
        /\ nth' = [nth EXCEPT !["hub"] = @ + 1]
        /\ Goto("hub", IF nth["hub"] = Len(UndoFields) THEN "delete" ELSE "restore")
        /\ UNCHANGED <<bak, marker, git, loaded, saved, guarded, dying, ghost, sessions,
                       recovers>>
     \/ os = "windows" /\ Fail("hub", IF dying THEN "unmark" ELSE "exit")

DeleteBackup ==
  /\ pc["hub"] = "delete"
  /\ bak' = Missing
  /\ Goto("hub", "unmark")
  /\ UNCHANGED <<registry, marker, git, memory, ghost, counters>>

\* remove_crash_marker, release_single_instance and the end of the process.
RemoveMarker ==
  /\ pc["hub"] = "unmark"
  /\ \/ /\ marker' = FALSE
        /\ Goto("hub", "exit")
        /\ UNCHANGED <<registry, bak, git, memory, ghost, counters>>
     \/ marker /\ Fail("hub", "exit")

Reset(a) ==
  /\ nth' = [nth EXCEPT ![a] = 1]
  /\ loaded' = [loaded EXCEPT ![a] = Missing]
  /\ IF a = "hub" THEN saved' = Missing /\ guarded' = FALSE /\ dying' = FALSE
                  ELSE UNCHANGED <<saved, guarded, dying>>
  /\ Goto(a, "down")

Exit == pc["hub"] = "exit" /\ Reset("hub") /\ UNCHANGED <<disk, ghost, counters>>

\* The process is killed; what it kept in memory is gone.
Crash(a) ==
  /\ pc[a] \notin {"down", "exit"}
  /\ Reset(a)
  /\ crashed' = TRUE
  /\ UNCHANGED <<disk, os, beside, wanted, counters>>

\* `recover` runs recover_all without looking at the single-instance lock.
StartRecover ==
  /\ pc["cli"] = "down"
  /\ beside \/ pc["hub"] = "down"
  /\ recovers < MaxRecovers
  /\ recovers' = recovers + 1
  /\ Goto("cli", "rec_read")
  /\ UNCHANGED <<disk, memory, ghost, sessions, fails>>

\* The bounds are used up.
Finished ==
  /\ sessions = MaxSessions /\ recovers = MaxRecovers
  /\ \A a \in Actors : pc[a] = "down"
  /\ UNCHANGED vars

\* A user who does not run recover beside a hub does not start one during it.
Hub ==
  \/ /\ beside \/ pc["cli"] = "down"
     /\ StartHub
  \/ CreateMarker \/ InitServices \/ SaveBackup \/ WriteBackup \/ WritePac
  \/ StopHub \/ DropHub \/ WriteSavedState \/ DeleteBackup \/ RemoveMarker \/ Exit

Next ==
  \/ Hub \/ StartRecover \/ Finished
  \/ \E a \in Actors : Recovery(a) \/ Crash(a)

Spec == Init /\ [][Next]_vars

-----------------------------------------------------------------------------
(* Properties *)

\* No PAC URL of ours is left, and on Windows the manual settings are the user's.
\* On macOS set_proxy turns them off and nothing turns them on again.
NoPac == \A f \in PacFields : registry[f] # "ours"
ManualRestored == os = "windows" => Pick(registry, Manual) = Pick(wanted, Manual)
NobodyRuns == \A a \in Actors : pc[a] = "down"
BackupGood == IF os = "windows" THEN bak = Pick(wanted, Manual) ELSE bak = Flag

\* As long as no operation has failed and recover is used as documented: while
\* nobody runs, settings that still carry a session's changes come with the marker
\* that makes the next start recover, and with a backup of exactly the user's
\* manual settings (macOS: the flag file).  A crash between any two writes, of the
\* backup, of set_proxy, of stop or of a recovery itself, never strands the user.
Recoverable ==
  fails = 0 /\ ~beside /\ NobodyRuns /\ ~(ManualRestored /\ NoPac) => marker /\ BackupGood

\* Under the same conditions: when start is done with the recovery, the user's
\* manual settings are back and the PAC URL of the crashed session is gone.
\* set_proxy never takes a former session's settings for the user's.
RecoveredBeforeSetup ==
  fails = 0 /\ ~beside /\ pc["hub"] \in {"mark", "init", "save"} => ManualRestored /\ NoPac

\* Even if writes fail, a stop that goes on to remove the marker has put every
\* value back, AutoConfigURL included.  On macOS, where failures are ignored, it
\* has taken our PAC URL away if there were none.
CleanStopRestores ==
  ~beside /\ pc["hub"] = "unmark" /\ guarded /\ ~dying =>
    IF os = "windows" THEN registry = saved ELSE fails = 0 => NoPac

\* A `recover` run beside a live hub, or while hubs stop and start, does no lasting
\* harm as long as nothing crashes or fails: once all are done, the user has the
\* manual settings back and no PAC URL of ours.
QuietMeansRestored ==
  ~crashed /\ fails = 0 /\ NobodyRuns => ManualRestored /\ NoPac

=============================================================================
