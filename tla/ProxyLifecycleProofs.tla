------------------------ MODULE ProxyLifecycleProofs ------------------------
(***************************************************************************)
(* Proofs about ProxyLifecycle: that a hub never strands its user, for any *)
(* settings the user may have, any number of sessions and of recover       *)
(* commands, and crashes between any two writes.  The last part is about   *)
(* SingleInstance, the lock that `start` takes before it touches any       *)
(* setting, for any set of PIDs and any bounds.                            *)
(***************************************************************************)
EXTENDS ProxyLifecycle, SingleInstance, TLAPS

Names == ToSet(Fields)
RecoveryLabels ==
  {"rec_read", "rec_write", "rec_delete", "rec_git", "rec_cleanup", "rec_marker"}
HubLabels ==
  {"mark", "init", "save", "backup", "pac", "serving", "drop", "restore", "delete",
   "unmark", "exit"}

\* A setting is as its user wants it, as far as anybody puts it back.
Fixed(f) ==
  IF f \in PacFields THEN registry[f] # "ours" ELSE os = "windows" => registry[f] = wanted[f]
Restored == \A f \in Names : Fixed(f)

\* The settings that an actor has put back before its next one.
FixedBefore(n) == \A i \in 1..Len(UndoFields) : i < n => Fixed(UndoFields[i])

\* What a backup has to be, and what the guard has to remember.
GoodBackup == IF os = "windows" THEN Pick(wanted, Manual) ELSE Flag
GoodState ==
  os = "windows" => \A f \in Names : IF f \in PacFields THEN saved[f] # "ours"
                                                        ELSE saved[f] = wanted[f]

-----------------------------------------------------------------------------
(* The invariant *)

\* Where an actor has begun no list of writes, or has ended one of recovery.
Unwritten == (RecoveryLabels \ {"rec_write"}) \cup {"down", "mark", "init", "save"}

Backups == IF os = "windows" THEN [Manual -> Values] ELSE {Flag}

Types ==
  /\ os \in {"windows", "macos"}
  /\ wanted \in [Names -> UserValues] /\ registry \in [Names -> Values]
  /\ bak \in Backups \cup {Missing, Torn}
  /\ fails \in Nat
  /\ pc \in [Actors -> RecoveryLabels \cup HubLabels \cup {"down"}]
  /\ pc["cli"] \in RecoveryLabels \cup {"down"}
  /\ nth \in [Actors -> Nat]
  /\ \A a \in Actors : pc[a] \in {"rec_write", "restore"} => nth[a] \in 1..Len(UndoFields)
  /\ pc["hub"] \in {"backup", "pac"} => nth["hub"] \in 1..Len(Fields)
  /\ \A a \in Actors : pc[a] \in Unwritten => nth[a] = 1
  /\ loaded \in [Actors -> Backups \cup {Missing}]
  /\ \A a \in Actors : pc[a] = "rec_write" => loaded[a] \in Backups
  /\ guarded \/ pc["hub"] \in {"backup", "pac"} =>
       (os = "windows" => saved \in [Names -> Values])
  /\ guarded => pc["hub"] \in {"serving", "restore", "delete", "unmark", "exit"}
  /\ pc["hub"] \in {"restore", "delete"} => guarded
  /\ pc["hub"] = "backup" => os = "windows"

\* recover and a hub run together only if the user does so.
Alone == ~beside => pc["hub"] = "down" \/ pc["cli"] = "down"

\* Nothing has failed, and recover was not both run beside a hub and mixed with
\* crashes.
Regular == fails = 0 /\ (~beside \/ ~crashed)

\* Then a backup and the guard hold the user's settings, which are in force except
\* while a session has them changed.
HubSession ==
  /\ pc["hub"] \in {"mark", "init", "save", "backup", "delete", "unmark", "exit"} => Restored
  /\ pc["hub"] = "serving" /\ ~guarded => Restored
  /\ guarded \/ pc["hub"] \in {"backup", "pac"} => GoodState
  /\ pc["hub"] = "restore" => FixedBefore(nth["hub"])
  /\ pc["hub"] # "drop"
Session ==
  /\ bak \in {Missing, Torn, GoodBackup}
  /\ \A a \in Actors : pc[a] = "rec_write" => loaded[a] = GoodBackup
  /\ HubSession

\* One at a time: changed settings have a marker and a backup, which go only when
\* the settings are back.
Sheltered ==
  /\ ~Restored => marker /\ bak = GoodBackup
  /\ pc["hub"] \in {"init", "save", "backup", "pac", "serving", "restore"} => marker
  /\ pc["hub"] \in {"pac", "restore"} \/ (guarded /\ pc["hub"] = "serving") => bak = GoodBackup
  /\ \A a \in Actors : pc[a] = "rec_write" => bak = GoodBackup /\ FixedBefore(nth[a])
  /\ \A a \in Actors :
       pc[a] \in {"rec_delete", "rec_git", "rec_cleanup", "rec_marker"} => Restored

\* Without crashes no hub finds a marker, and every hub leaves the settings restored.
Orderly ==
  /\ pc["hub"] \notin RecoveryLabels
  /\ pc["hub"] \in {"down", "mark", "exit"} => ~marker
  /\ pc["hub"] = "down" => Restored

\* What restore_sync has written is what the guard remembers, failures or not.
WrittenBack ==
  /\ pc["hub"] = "restore" =>
       \A i \in 1..4 : i < nth["hub"] => registry[Fields[i]] = saved[Fields[i]]
  /\ pc["hub"] = "delete" \/ (pc["hub"] = "unmark" /\ guarded /\ ~dying) => registry = saved

Inv ==
  /\ Types /\ Alone
  /\ Regular => Session
  /\ fails = 0 /\ ~beside => Sheltered
  /\ fails = 0 /\ ~crashed => Orderly
  /\ os = "windows" /\ ~beside => WrittenBack

-----------------------------------------------------------------------------
(* The settings *)

\* The settings of either system, and those that are put back.
LEMMA FieldFacts ==
  ASSUME os \in {"windows", "macos"}
  PROVE  /\ Len(Fields) = 4 /\ Len(UndoFields) \in 1..4 /\ Len(UndoFields) \in Nat
         /\ Names = Manual \cup PacFields /\ Manual \cap PacFields = {}
         /\ \A i \in 1..4 : Fields[i] \in Names
         /\ \A i \in 1..Len(UndoFields) : UndoFields[i] \in Names
         /\ os = "windows" => UndoFields = Fields
         /\ os = "macos" => \A i \in 1..Len(UndoFields) : UndoFields[i] \in PacFields
         /\ \A f \in Names : os = "windows" \/ f \in PacFields =>
              \E i \in 1..Len(UndoFields) : UndoFields[i] = f
         /\ os = "windows" => {"ProxyEnable", "ProxyServer"} \subseteq Manual
         /\ 1 \in 1..Len(UndoFields) /\ 1 \in 1..Len(Fields)
  <1>1. CASE os = "windows"
    <2>1. /\ Fields = <<"ProxyEnable", "ProxyServer", "ProxyOverride", "AutoConfigURL">>
          /\ UndoFields = Fields
      BY <1>1 DEF Fields, UndoFields
    <2>2. Names = {"ProxyEnable", "ProxyServer", "ProxyOverride", "AutoConfigURL"}
      BY <2>1 DEF Names, ToSet
    <2>3. PacFields = {"AutoConfigURL"} /\ Manual = {"ProxyEnable", "ProxyServer", "ProxyOverride"}
      BY <2>2 DEF Names, PacFields, Manual
    <2> QED
      BY <1>1, <2>1, <2>2, <2>3
  <1>2. CASE os = "macos"
    <2>1. Fields = <<"Web1", "Pac1", "Web2", "Pac2">> /\ UndoFields = <<"Pac1", "Pac2">>
      BY <1>2 DEF Fields, UndoFields
    <2>2. Names = {"Web1", "Pac1", "Web2", "Pac2"}
      BY <2>1 DEF Names, ToSet
    <2>3. PacFields = {"Pac1", "Pac2"} /\ Manual = {"Web1", "Web2"}
      BY <2>2 DEF Names, PacFields, Manual
    <2> QED
      BY <1>2, <2>1, <2>2, <2>3
  <1> QED
    BY <1>1, <1>2

\* They are the same throughout.
LEMMA SameFields ==
  ASSUME UNCHANGED <<os, wanted>>
  PROVE  /\ Fields' = Fields /\ UndoFields' = UndoFields /\ Names' = Names
         /\ PacFields' = PacFields /\ Manual' = Manual
         /\ Backups' = Backups /\ GoodBackup' = GoodBackup
  BY DEF Fields, UndoFields, Names, PacFields, Manual, Backups, GoodBackup

\* Restored is what the properties say.
LEMMA RestoredIs == Types => (Restored <=> ManualRestored /\ NoPac)
  BY FieldFacts DEF Types, Restored, Fixed, ManualRestored, NoPac, Pick

\* A good backup is neither missing nor torn.
LEMMA BackupIs ==
  ASSUME Types
  PROVE  /\ GoodBackup \in Backups /\ Missing \notin Backups /\ Torn \notin Backups
         /\ os = "windows" => \A f \in Manual : GoodBackup[f] = wanted[f]
  <1>1. CASE os = "windows"
    <2>1. GoodBackup = [n \in Manual |-> wanted[n]] /\ Backups = [Manual -> Values]
      BY <1>1 DEF GoodBackup, Backups, Pick
    <2>2. \A n \in Manual : wanted[n] \in Values
      BY FieldFacts DEF Types, Values
    <2>3. "ProxyEnable" \in Manual /\ "ProxyServer" \in Manual
      BY <1>1, FieldFacts
    <2>4. DOMAIN Missing = {} /\ DOMAIN Torn = {1}
      BY DEF Missing, Torn
    <2>5. ASSUME NEW b \in [Manual -> Values] PROVE b # Missing /\ b # Torn
      <3>1. DOMAIN b = Manual
        OBVIOUS
      <3> QED
        BY <2>3, <2>4, <3>1
    <2> QED
      BY <2>1, <2>2, <2>5
  <1>2. CASE os = "macos"
    <2>1. Flag # Missing /\ Flag # Torn
      BY DEF Flag, Missing, Torn
    <2> QED
      BY <1>2, <2>1 DEF GoodBackup, Backups
  <1> QED
    BY <1>1, <1>2 DEF Types

-----------------------------------------------------------------------------
(* Types *)

\* The two actors.
LEMMA TwoActors == Actors = {"hub", "cli"} /\ "hub" \in Actors /\ "cli" \in Actors
  BY DEF Actors

Labels == RecoveryLabels \cup HubLabels \cup {"down"}

\* What the other actor has of its own does not change.
OthersKept(a) ==
  \A b \in Actors : b # a => pc'[b] = pc[b] /\ nth'[b] = nth[b] /\ loaded'[b] = loaded[b]

\* An actor goes on.
LEMMA Moves ==
  ASSUME Types, NEW a \in Actors, NEW label \in Labels, Goto(a, label)
  PROVE  /\ pc' \in [Actors -> Labels] /\ pc'[a] = label
         /\ \A b \in Actors : b # a => pc'[b] = pc[b]
         /\ UNCHANGED <<nth, loaded>> => OthersKept(a)
  BY DEF Types, Goto, Labels, OthersKept

\* A step of one actor keeps every type if what it sets has it.
LEMMA TypesMove ==
  ASSUME Types, UNCHANGED <<os, wanted>>, NEW a \in Actors, OthersKept(a),
         registry' \in [Names -> Values], bak' \in Backups \cup {Missing, Torn}, fails' \in Nat,
         pc' \in [Actors -> Labels], nth' \in [Actors -> Nat],
         loaded' \in [Actors -> Backups \cup {Missing}],
         pc'[a] \in {"rec_write", "restore"} => nth'[a] \in 1..Len(UndoFields),
         pc'[a] \in {"backup", "pac"} => nth'[a] \in 1..Len(Fields),
         pc'[a] \in Unwritten => nth'[a] = 1,
         pc'[a] = "rec_write" => loaded'[a] \in Backups,
         a = "cli" => UNCHANGED <<saved, guarded>> /\ pc'[a] \in RecoveryLabels \cup {"down"},
         a = "hub" =>
           /\ guarded' => pc'[a] \in {"serving", "restore", "delete", "unmark", "exit"}
           /\ pc'[a] \in {"restore", "delete"} => guarded'
           /\ pc'[a] = "backup" => os = "windows"
           /\ guarded' \/ pc'[a] \in {"backup", "pac"} =>
                (os = "windows" => saved' \in [Names -> Values])
  PROVE  Types'
  <1>1. Fields' = Fields /\ UndoFields' = UndoFields /\ Names' = Names /\ Backups' = Backups
    BY SameFields
  <1>2. /\ (os \in {"windows", "macos"})' /\ (wanted \in [Names -> UserValues])'
        /\ (registry \in [Names -> Values])' /\ (bak \in Backups \cup {Missing, Torn})'
        /\ (loaded \in [Actors -> Backups \cup {Missing}])'
    BY <1>1 DEF Types
  <1>3. ASSUME NEW b \in Actors
        PROVE  /\ pc'[b] \in {"rec_write", "restore"} => nth'[b] \in 1..Len(UndoFields')
               /\ pc'[b] = "rec_write" => loaded'[b] \in Backups'
               /\ pc'[b] \in Unwritten => nth'[b] = 1
    BY <1>1 DEF Types, OthersKept
  <1>4. CASE a = "hub"
    <2>1. pc'["cli"] = pc["cli"]
      BY <1>4, TwoActors DEF OthersKept
    <2>2. /\ pc'["hub"] \in {"backup", "pac"} => nth'["hub"] \in 1..Len(Fields')
          /\ guarded' => pc'["hub"] \in {"serving", "restore", "delete", "unmark", "exit"}
          /\ pc'["hub"] \in {"restore", "delete"} => guarded'
          /\ pc'["hub"] = "backup" => os' = "windows"
          /\ guarded' \/ pc'["hub"] \in {"backup", "pac"} =>
               (os' = "windows" => saved' \in [Names' -> Values])
      BY <1>1, <1>4
    <2> QED
      BY <1>2, <1>3, <2>1, <2>2 DEF Types, Labels
  <1>5. CASE a = "cli"
    <2>1. pc'["hub"] = pc["hub"] /\ nth'["hub"] = nth["hub"] /\ UNCHANGED <<saved, guarded>>
      BY <1>5, TwoActors DEF OthersKept
    <2>2. /\ pc'["hub"] \in {"backup", "pac"} => nth'["hub"] \in 1..Len(Fields')
          /\ guarded' => pc'["hub"] \in {"serving", "restore", "delete", "unmark", "exit"}
          /\ pc'["hub"] \in {"restore", "delete"} => guarded'
          /\ pc'["hub"] = "backup" => os' = "windows"
          /\ guarded' \/ pc'["hub"] \in {"backup", "pac"} =>
               (os' = "windows" => saved' \in [Names' -> Values])
      BY <1>1, <2>1 DEF Types
    <2> QED
      BY <1>2, <1>3, <1>5, <2>2 DEF Types, Labels
  <1> QED
    BY <1>4, <1>5, TwoActors

\* A step that changes the label and files only.
LEMMA TypesStep ==
  ASSUME Types, UNCHANGED <<os, wanted, registry, nth, loaded, saved, guarded>>,
         NEW a \in Actors, NEW label \in Labels, Goto(a, label), fails' \in Nat,
         bak' \in Backups \cup {Missing, Torn},
         a = "cli" => label \in RecoveryLabels \cup {"down"},
         label \notin {"rec_write", "restore", "backup", "delete"},
         label \in Unwritten => pc[a] \in Unwritten,
         label = "pac" => /\ nth[a] \in 1..Len(Fields)
                          /\ os = "windows" => saved \in [Names -> Values],
         a = "hub" /\ guarded => label \in {"exit", "unmark"}
  PROVE  Types'
  <1>1. /\ registry' \in [Names -> Values] /\ nth' \in [Actors -> Nat]
        /\ loaded' \in [Actors -> Backups \cup {Missing}]
        /\ guarded' => (os = "windows" => saved' \in [Names -> Values])
        /\ label \in Unwritten => nth'[a] = 1
    BY DEF Types
  <1>2. pc' \in [Actors -> Labels] /\ pc'[a] = label /\ OthersKept(a)
    BY Moves
  <1> QED
    BY <1>1, <1>2, TypesMove

\* A failure changes the label only.
LEMMA FailTypes ==
  ASSUME Types, NEW a \in Actors, NEW label \in Labels, Fail(a, label),
         label \in {"rec_git", "down"} \/ (a = "hub" /\ label \in {"drop", "exit", "unmark"})
           \/ (a = "hub" /\ label = "pac" /\ nth["hub"] \in 1..Len(Fields) /\ os = "macos"),
         label \in Unwritten => pc[a] \in Unwritten,
         a = "hub" /\ guarded => label \in {"exit", "unmark"}
  PROVE  Types'
  <1>1. /\ UNCHANGED <<os, wanted, registry, nth, loaded, saved, guarded>>
        /\ Goto(a, label) /\ fails' \in Nat /\ bak' \in Backups \cup {Missing, Torn}
    BY DEF Fail, disk, memory, ghost, Types
  <1>2. a = "cli" => label \in RecoveryLabels \cup {"down"}
    BY DEF RecoveryLabels
  <1>3. os = "macos" => os # "windows"
    OBVIOUS
  <1> QED
    BY <1>1, <1>2, <1>3, TypesStep

\* A write to the settings that is ignored if it fails.
LEMMA IgnoredTypes ==
  ASSUME Types, NEW f \in Names, NEW v \in Values, Ignored(registry' = [registry EXCEPT ![f] = v])
  PROVE  /\ registry' \in [Names -> Values] /\ fails' \in Nat
         /\ fails' = 0 => fails = 0 /\ registry' = [registry EXCEPT ![f] = v]
  <1>1. \/ registry' = [registry EXCEPT ![f] = v] /\ fails' = fails
        \/ fails' = fails + 1 /\ registry' = registry
    BY DEF Ignored
  <1>2. [registry EXCEPT ![f] = v] \in [Names -> Values] /\ registry \in [Names -> Values]
    BY DEF Types
  <1>3. fails \in Nat
    BY DEF Types
  <1> QED
    BY <1>1, <1>2, <1>3

\* Recovery keeps every variable's type.
LEMMA TypesRecovery ==
  ASSUME Types, NEW a \in Actors, Recovery(a)
  PROVE  Types'
  <1> USE DEF disk, memory, ghost, counters
  <1>1. UNCHANGED <<os, wanted>>
    BY DEF Recovery, RecoverRead, RecoverWrite, RecoverDelete, RecoverGit, RecoverCleanup,
           RecoverMarker, Fail
  <1>2. /\ Len(UndoFields) \in 1..4 /\ Names = Manual \cup PacFields
        /\ \A i \in 1..Len(UndoFields) : UndoFields[i] \in Names
        /\ os = "macos" => \A i \in 1..Len(UndoFields) : UndoFields[i] \in PacFields
        /\ Manual \cap PacFields = {}
    BY FieldFacts DEF Types
  <1>3. /\ pc[a] \in RecoveryLabels => (a = "hub" => ~guarded)
        /\ {"rec_read", "rec_delete", "rec_git", "rec_cleanup", "rec_marker"} \subseteq Unwritten
        /\ "rec_write" \notin Unwritten
    BY DEF Types, RecoveryLabels, Unwritten
  <1>4. /\ registry \in [Names -> Values] /\ bak \in Backups \cup {Missing, Torn}
        /\ fails \in Nat /\ nth \in [Actors -> Nat]
        /\ loaded \in [Actors -> Backups \cup {Missing}]
    BY DEF Types
  <1>5. /\ {"rec_write", "rec_delete", "rec_git", "rec_cleanup", "rec_marker", "down"}
             \subseteq RecoveryLabels \cup {"down"}
        /\ {"rec_write", "rec_delete", "rec_git", "rec_cleanup", "rec_marker", "mark", "down"}
             \subseteq Labels
    BY DEF RecoveryLabels, HubLabels, Labels
  <1>6. CASE RecoverRead(a)
    <2>1. (a = "hub" => ~guarded) /\ pc[a] \in Unwritten
      BY <1>3, <1>6 DEF RecoverRead, RecoveryLabels
    <2>2. CASE Fail(a, "rec_git")
      BY <1>5, <2>1, <2>2, FailTypes
    <2>3. CASE /\ Goto(a, "rec_git")
               /\ UNCHANGED <<loaded, nth, counters, disk, saved, guarded, dying, ghost>>
      BY <1>4, <1>5, <2>1, <2>3, TypesStep
    <2>4. CASE /\ bak \notin {Missing, Torn} /\ loaded' = [loaded EXCEPT ![a] = bak]
               /\ nth' = [nth EXCEPT ![a] = 1] /\ Goto(a, "rec_write")
               /\ UNCHANGED <<disk, saved, guarded, dying, ghost, counters>>
      <3>1. pc' \in [Actors -> Labels] /\ pc'[a] = "rec_write"
        BY <1>5, <2>4, Moves
      <3>2. /\ bak \in Backups /\ loaded' \in [Actors -> Backups \cup {Missing}]
            /\ loaded'[a] = bak
        BY <1>4, <2>4
      <3>3. nth' \in [Actors -> Nat] /\ nth'[a] = 1
        BY <1>4, <2>4
      <3>4. OthersKept(a)
        BY <1>4, <2>4 DEF OthersKept, Goto, Types
      <3>5. /\ registry' \in [Names -> Values] /\ bak' \in Backups \cup {Missing, Torn}
            /\ fails' \in Nat /\ UNCHANGED <<saved, guarded>> /\ (a = "hub" => ~guarded')
        BY <1>4, <2>1, <2>4
      <3>6. nth'[a] \in 1..Len(UndoFields)
        BY <3>3, FieldFacts DEF Types
      <3> QED
        BY <1>1, <1>3, <1>5, <3>1, <3>2, <3>3, <3>4, <3>5, <3>6, TypesMove
    <2> QED
      BY <1>6, <2>2, <2>3, <2>4 DEF RecoverRead
  <1>7. CASE RecoverWrite(a)
    <2> DEFINE f == UndoFields[nth[a]]
               v == IF f \in Manual THEN loaded[a][f] ELSE "off"
               label == IF nth[a] = Len(UndoFields) THEN "rec_delete" ELSE "rec_write"
    <2>1. /\ pc[a] = "rec_write"
          /\ nth' = [nth EXCEPT ![a] = IF nth[a] = Len(UndoFields) THEN 1 ELSE nth[a] + 1]
          /\ Goto(a, label) /\ UNCHANGED <<bak, loaded, saved, guarded>>
          /\ Ignored(registry' = [registry EXCEPT ![f] = v])
      BY <1>7 DEF RecoverWrite
    <2>2. nth[a] \in 1..Len(UndoFields) /\ loaded[a] \in Backups /\ f \in Names
      BY <1>2, <2>1 DEF Types
    <2>3. f \in Manual => os = "windows"
      BY <1>2, <2>2 DEF Types
    <2>4. v \in Values
      BY <2>2, <2>3, LifecycleConstants DEF Backups, Values
    <2> HIDE DEF v, f
    <2>5. registry' \in [Names -> Values] /\ fails' \in Nat
      BY <2>1, <2>2, <2>4, IgnoredTypes
    <2>6. nth' \in [Actors -> Nat] /\ nth'[a] = IF label = "rec_delete" THEN 1 ELSE nth[a] + 1
      BY <1>4, <2>1, <2>2
    <2>7. label \in {"rec_write", "rec_delete"}
      OBVIOUS
    <2>12. label = "rec_write" => nth'[a] \in 1..Len(UndoFields)
      BY <1>2, <2>2, <2>6
    <2> HIDE DEF label
    <2>8. pc' \in [Actors -> Labels] /\ pc'[a] = label
      BY <1>5, <2>1, <2>7, Moves
    <2>10. OthersKept(a)
      BY <1>4, <2>1 DEF OthersKept, Goto, Types
    <2>11. /\ loaded' \in [Actors -> Backups \cup {Missing}] /\ loaded'[a] \in Backups
           /\ bak' \in Backups \cup {Missing, Torn} /\ (a = "hub" => ~guarded')
      BY <1>3, <1>4, <2>1, <2>2 DEF RecoveryLabels
    <2> QED
      BY <1>1, <1>3, <1>5, <2>1, <2>5, <2>6, <2>7, <2>8, <2>10, <2>11, <2>12, TypesMove
  <1>8. CASE RecoverDelete(a) \/ RecoverGit(a) \/ RecoverCleanup(a)
    <2>1. /\ \E label \in {"rec_git", "rec_cleanup", "rec_marker"} : Goto(a, label)
          /\ UNCHANGED <<os, wanted, registry, nth, loaded, saved, guarded, fails>>
          /\ bak' \in Backups \cup {Missing, Torn}
          /\ (a = "hub" => ~guarded) /\ pc[a] \in Unwritten
      BY <1>1, <1>3, <1>4, <1>8 DEF RecoverDelete, RecoverGit, RecoverCleanup, RecoveryLabels
    <2> QED
      BY <1>4, <1>5, <2>1, TypesStep
  <1>9. CASE RecoverMarker(a)
    <2>1. (a = "hub" => ~guarded) /\ pc[a] \in Unwritten
      BY <1>3, <1>9 DEF RecoverMarker, RecoveryLabels
    <2>2. CASE Fail(a, "down")
      BY <1>5, <2>1, <2>2, FailTypes
    <2>3. CASE ~Fail(a, "down")
      <3>1. /\ Goto(a, IF a = "hub" THEN "mark" ELSE "down")
            /\ UNCHANGED <<os, wanted, registry, bak, nth, loaded, saved, guarded, fails>>
        BY <1>9, <2>3 DEF RecoverMarker
      <3> QED
        BY <1>4, <1>5, <2>1, <3>1, TypesStep
    <2> QED
      BY <2>2, <2>3
  <1> QED
    BY <1>6, <1>7, <1>8, <1>9 DEF Recovery

\* The hub's start, up to its changed settings.
LEMMA TypesStart ==
  ASSUME Types,
         StartHub \/ CreateMarker \/ InitServices \/ SaveBackup \/ WriteBackup \/ WritePac
  PROVE  Types'
  <1> USE DEF disk, memory, ghost, counters
  <1> DEFINE a == "hub"
  <1>1. UNCHANGED <<os, wanted>> /\ a \in Actors
    BY TwoActors DEF StartHub, CreateMarker, InitServices, SaveBackup, WriteBackup, WritePac, Fail
  <1>2. /\ Len(Fields) = 4 /\ \A i \in 1..4 : Fields[i] \in Names
        /\ Names = Manual \cup PacFields /\ Manual \subseteq Names
    BY FieldFacts DEF Types
  <1>3. /\ registry \in [Names -> Values] /\ bak \in Backups \cup {Missing, Torn}
        /\ fails \in Nat /\ nth \in [Actors -> Nat]
        /\ loaded \in [Actors -> Backups \cup {Missing}]
    BY DEF Types
  <1>4. {"mark", "init", "save", "backup", "pac", "serving", "drop", "rec_read", "down"}
          \subseteq Labels /\ "rec_read" \in RecoveryLabels
    BY DEF RecoveryLabels, HubLabels, Labels
  <1>5. /\ pc["hub"] \in {"down", "mark", "init", "save", "backup", "pac"} => ~guarded
        /\ {"down", "mark", "init", "save"} \subseteq Unwritten
        /\ {"drop", "backup", "pac", "serving"} \cap Unwritten = {}
    BY DEF Types, Unwritten, RecoveryLabels
  <1>6. CASE StartHub
    <2>1. ~guarded /\ pc["hub"] \in Unwritten
      BY <1>5, <1>6 DEF StartHub
    <2>2. /\ Goto("hub", IF marker THEN "rec_read" ELSE "mark")
          /\ UNCHANGED <<os, wanted, registry, bak, nth, loaded, saved, guarded, fails>>
      BY <1>6 DEF StartHub
    <2> QED
      BY <1>1, <1>3, <1>4, <2>1, <2>2, TypesStep
  <1>7. CASE CreateMarker
    <2>1. ~guarded /\ pc["hub"] \in Unwritten
      BY <1>5, <1>7 DEF CreateMarker
    <2>2. CASE Fail("hub", "down")
      BY <1>1, <1>4, <2>1, <2>2, FailTypes
    <2>3. CASE ~Fail("hub", "down")
      <3>1. /\ Goto("hub", "init")
            /\ UNCHANGED <<os, wanted, registry, bak, nth, loaded, saved, guarded, fails>>
        BY <1>7, <2>3 DEF CreateMarker
      <3> QED
        BY <1>1, <1>3, <1>4, <2>1, <3>1, TypesStep
    <2> QED
      BY <2>2, <2>3
  <1>8. CASE InitServices
    <2>1. ~guarded /\ pc["hub"] \in Unwritten
      BY <1>5, <1>8 DEF InitServices
    <2>2. CASE Fail("hub", "drop")
      BY <1>1, <1>4, <2>1, <2>2, FailTypes
    <2>3. CASE ~Fail("hub", "drop")
      <3>1. /\ Goto("hub", "save") \/ Goto("hub", "serving")
            /\ UNCHANGED <<os, wanted, registry, bak, nth, loaded, saved, guarded, fails>>
        BY <1>8, <2>3 DEF InitServices
      <3> QED
        BY <1>1, <1>3, <1>4, <2>1, <3>1, TypesStep
    <2> QED
      BY <2>2, <2>3
  <1>9. CASE SaveBackup
    <2>1. ~guarded /\ pc["hub"] = "save" /\ nth["hub"] = 1
      BY <1>1, <1>5, <1>9 DEF SaveBackup, Types
    <2>2. CASE Fail("hub", IF os = "windows" THEN "drop" ELSE "pac")
      <3>1. CASE os = "windows"
        BY <1>1, <1>5, <1>4, <2>1, <2>2, <3>1, FailTypes
      <3>2. CASE os # "windows"
        <4>1. nth["hub"] \in 1..Len(Fields)
          BY <2>1, FieldFacts DEF Types
        <4> QED
          BY <1>1, <1>5, <1>4, <2>1, <2>2, <3>2, <4>1, FailTypes DEF Types
      <3> QED
        BY <3>1, <3>2
    <2>3. CASE /\ saved' = IF os = "windows" THEN registry ELSE Missing
               /\ bak' = IF os = "windows" THEN Torn ELSE Flag
               /\ nth' = [nth EXCEPT !["hub"] = 1]
               /\ Goto("hub", IF os = "windows" THEN "backup" ELSE "pac")
               /\ UNCHANGED <<registry, marker, git, loaded, guarded, dying, ghost, counters>>
      <3>1. /\ pc' \in [Actors -> Labels] /\ pc'[a] = IF os = "windows" THEN "backup" ELSE "pac"
        BY <1>1, <1>4, <2>3, Moves
      <3>2. nth' \in [Actors -> Nat] /\ nth'[a] = 1 /\ nth'[a] \in 1..Len(Fields)
        BY <1>1, <1>2, <1>3, <2>3, FieldFacts DEF Types
      <3>3. OthersKept(a)
        BY <1>3, <2>3 DEF OthersKept, Goto, Types
      <3>4. bak' \in Backups \cup {Missing, Torn}
        BY <2>3 DEF Backups
      <3>5. os = "windows" => saved' \in [Names -> Values]
        BY <1>3, <2>3
      <3>6. /\ registry' \in [Names -> Values] /\ fails' \in Nat /\ ~guarded'
            /\ loaded' \in [Actors -> Backups \cup {Missing}]
        BY <1>3, <2>1, <2>3
      <3> QED
        BY <1>1, <3>1, <3>2, <3>3, <3>4, <3>5, <3>6, TypesMove
    <2> QED
      BY <1>9, <2>2, <2>3 DEF SaveBackup
  <1>10. CASE WriteBackup
    <2>1. ~guarded /\ pc["hub"] = "backup" /\ os = "windows" /\ saved \in [Names -> Values]
      BY <1>5, <1>10 DEF WriteBackup, Types
    <2>2. CASE Fail("hub", "drop")
      BY <1>1, <1>5, <1>4, <2>1, <2>2, FailTypes
    <2>3. CASE ~Fail("hub", "drop")
      <3>1. /\ Goto("hub", "pac") /\ bak' = Pick(saved, Manual)
            /\ UNCHANGED <<os, wanted, registry, nth, loaded, saved, guarded, fails>>
        BY <1>10, <2>3 DEF WriteBackup
      <3>2. bak' \in Backups \cup {Missing, Torn}
        BY <1>2, <2>1, <3>1 DEF Backups, Pick
      <3>3. nth["hub"] \in 1..Len(Fields)
        BY <2>1 DEF Types
      <3> QED
        BY <1>1, <1>5, <1>3, <1>4, <2>1, <3>1, <3>2, <3>3, TypesStep
    <2> QED
      BY <2>2, <2>3
  <1>11. CASE WritePac
    <2> DEFINE f == Fields[nth["hub"]]
               v == IF f \in Manual THEN "off" ELSE "ours"
               last == nth["hub"] = Len(Fields)
    <2>1. /\ ~guarded /\ pc["hub"] = "pac" /\ nth["hub"] \in 1..Len(Fields)
          /\ os = "windows" => saved \in [Names -> Values]
      BY <1>5, <1>11 DEF WritePac, Types
    <2>2. CASE Fail("hub", "drop")
      BY <1>1, <1>5, <1>4, <2>1, <2>2, FailTypes
    <2>3. CASE ~Fail("hub", "drop")
      <3>1. /\ Goto("hub", IF last THEN "serving" ELSE "pac") /\ guarded' = last
            /\ nth' = [nth EXCEPT !["hub"] = nth["hub"] + 1]
            /\ UNCHANGED <<bak, loaded, saved>>
            /\ \/ registry' = [registry EXCEPT ![f] = v] /\ UNCHANGED fails
               \/ Ignored(registry' = [registry EXCEPT ![f] = v])
        BY <1>11, <2>3 DEF WritePac
      <3>2. f \in Names /\ v \in Values
        BY <1>2, <2>1, LifecycleConstants DEF Values
      <3> HIDE DEF f, v
      <3>3. registry' \in [Names -> Values] /\ fails' \in Nat
        BY <1>3, <3>1, <3>2, IgnoredTypes
      <3>4. pc' \in [Actors -> Labels] /\ pc'[a] = IF last THEN "serving" ELSE "pac"
        BY <1>1, <1>4, <3>1, Moves
      <3>5. nth' \in [Actors -> Nat] /\ nth'[a] = nth[a] + 1
        BY <1>1, <1>3, <3>1
      <3>6. ~last => nth'[a] \in 1..Len(Fields)
        BY <1>2, <2>1, <3>5
      <3>7. OthersKept(a)
        BY <1>3, <3>1 DEF OthersKept, Goto, Types
      <3>8. /\ bak' \in Backups \cup {Missing, Torn}
            /\ loaded' \in [Actors -> Backups \cup {Missing}]
            /\ os = "windows" => saved' \in [Names -> Values]
        BY <1>3, <2>1, <3>1
      <3>9. guarded' => last
        BY <3>1
      <3> HIDE DEF last
      <3> QED
        BY <1>1, <1>5, <3>3, <3>4, <3>5, <3>6, <3>7, <3>8, <3>9, TypesMove
    <2> QED
      BY <2>2, <2>3
  <1> QED
    BY <1>6, <1>7, <1>8, <1>9, <1>10, <1>11

\* The hub's end.
LEMMA TypesStop ==
  ASSUME Types, StopHub \/ DropHub \/ WriteSavedState \/ DeleteBackup \/ RemoveMarker
  PROVE  Types'
  <1> USE DEF disk, memory, ghost, counters
  <1> DEFINE a == "hub"
  <1>1. UNCHANGED <<os, wanted>> /\ a \in Actors
    BY TwoActors DEF StopHub, DropHub, WriteSavedState, DeleteBackup, RemoveMarker, Fail
  <1>2. /\ Len(UndoFields) \in 1..4
        /\ \A i \in 1..Len(UndoFields) : UndoFields[i] \in Names
    BY FieldFacts DEF Types
  <1>3. /\ registry \in [Names -> Values] /\ bak \in Backups \cup {Missing, Torn}
        /\ fails \in Nat /\ nth \in [Actors -> Nat]
        /\ loaded \in [Actors -> Backups \cup {Missing}]
        /\ guarded => (os = "windows" => saved \in [Names -> Values])
    BY DEF Types
  <1>4. {"restore", "delete", "unmark", "exit"} \subseteq Labels
    BY DEF HubLabels, Labels
  <1>5. {"restore", "delete", "unmark", "exit"} \cap Unwritten = {}
    BY DEF Unwritten, RecoveryLabels
  <1>6. CASE StopHub \/ DropHub
    <2>1. /\ Goto("hub", IF guarded THEN "restore" ELSE "unmark")
          /\ nth' = [nth EXCEPT !["hub"] = 1]
          /\ UNCHANGED <<registry, bak, loaded, saved, guarded, fails>>
      BY <1>6 DEF StopHub, DropHub
    <2>2. pc' \in [Actors -> Labels] /\ pc'[a] = IF guarded THEN "restore" ELSE "unmark"
      BY <1>1, <1>4, <2>1, Moves
    <2>3. nth' \in [Actors -> Nat] /\ nth'[a] = 1
      BY <1>1, <1>3, <2>1
    <2>4. nth'[a] \in 1..Len(UndoFields)
      BY <2>3, FieldFacts DEF Types
    <2>5. OthersKept(a)
      BY <1>3, <2>1 DEF OthersKept, Goto, Types
    <2>6. /\ registry' \in [Names -> Values] /\ bak' \in Backups \cup {Missing, Torn}
          /\ fails' \in Nat /\ loaded' \in [Actors -> Backups \cup {Missing}]
          /\ guarded' = guarded /\ (guarded => (os = "windows" => saved' \in [Names -> Values]))
      BY <1>3, <2>1
    <2> QED
      BY <1>1, <1>5, <2>2, <2>3, <2>4, <2>5, <2>6, TypesMove
  <1>7. CASE WriteSavedState
    <2> DEFINE f == UndoFields[nth["hub"]]
               label == IF nth["hub"] = Len(UndoFields) THEN "delete" ELSE "restore"
    <2>1. /\ pc["hub"] = "restore" /\ nth["hub"] \in 1..Len(UndoFields) /\ guarded
          /\ os = "windows" => saved \in [Names -> Values]
      BY <1>1, <1>7 DEF WriteSavedState, Types
    <2>2. CASE Fail("hub", IF dying THEN "unmark" ELSE "exit")
      BY <1>1, <1>4, <1>5, <2>1, <2>2, FailTypes
    <2>3. CASE ~Fail("hub", IF dying THEN "unmark" ELSE "exit")
      <3>1. /\ IF os = "windows"
               THEN registry' = [registry EXCEPT ![f] = saved[f]] /\ UNCHANGED fails
               ELSE Ignored(registry' = [registry EXCEPT ![f] = "off"])
            /\ nth' = [nth EXCEPT !["hub"] = nth["hub"] + 1]
            /\ Goto("hub", label)
            /\ UNCHANGED <<bak, loaded, saved, guarded>>
        BY <1>7, <2>3 DEF WriteSavedState
      <3>2. f \in Names /\ "off" \in Values
        BY <1>2, <2>1, LifecycleConstants DEF Values
      <3>3. label \in {"delete", "restore"}
        OBVIOUS
      <3>4. nth' \in [Actors -> Nat] /\ nth'[a] = nth[a] + 1
        BY <1>1, <1>3, <3>1
      <3>5. label = "restore" => nth'[a] \in 1..Len(UndoFields)
        BY <1>2, <2>1, <3>4
      <3> HIDE DEF f, label
      <3>6. registry' \in [Names -> Values] /\ fails' \in Nat
        <4>1. CASE os = "windows"
          BY <1>3, <2>1, <3>1, <3>2, <4>1
        <4>2. CASE os # "windows"
          BY <3>1, <3>2, <4>2, IgnoredTypes
        <4> QED
          BY <4>1, <4>2
      <3>7. pc' \in [Actors -> Labels] /\ pc'[a] = label
        BY <1>1, <1>4, <3>1, <3>3, Moves
      <3>8. OthersKept(a)
        BY <1>3, <3>1 DEF OthersKept, Goto, Types
      <3>9. /\ bak' \in Backups \cup {Missing, Torn} /\ guarded'
            /\ loaded' \in [Actors -> Backups \cup {Missing}]
            /\ os = "windows" => saved' \in [Names -> Values]
        BY <1>3, <2>1, <3>1
      <3> QED
        BY <1>1, <1>5, <3>3, <3>4, <3>5, <3>6, <3>7, <3>8, <3>9, TypesMove
    <2> QED
      BY <2>2, <2>3
  <1>8. CASE DeleteBackup
    <2>1. /\ Goto("hub", "unmark") /\ bak' = Missing
          /\ UNCHANGED <<os, wanted, registry, nth, loaded, saved, guarded, fails>>
      BY <1>8 DEF DeleteBackup
    <2> QED
      BY <1>1, <1>3, <1>4, <1>5, <2>1, TypesStep
  <1>9. CASE RemoveMarker
    <2>1. CASE Fail("hub", "exit")
      BY <1>1, <1>4, <1>5, <2>1, FailTypes
    <2>2. CASE ~Fail("hub", "exit")
      <3>1. /\ Goto("hub", "exit")
            /\ UNCHANGED <<os, wanted, registry, bak, nth, loaded, saved, guarded, fails>>
        BY <1>9, <2>2 DEF RemoveMarker
      <3> QED
        BY <1>1, <1>3, <1>4, <1>5, <3>1, TypesStep
    <2> QED
      BY <2>1, <2>2
  <1> QED
    BY <1>6, <1>7, <1>8, <1>9

\* An actor that ends forgets what it had.
LEMMA TypesReset ==
  ASSUME Types, NEW a \in Actors, Reset(a), UNCHANGED <<disk, os, wanted, counters>>
  PROVE  Types'
  <1> USE DEF disk, counters
  <1>1. /\ registry' \in [Names -> Values] /\ bak' \in Backups \cup {Missing, Torn}
        /\ fails' \in Nat /\ nth \in [Actors -> Nat]
        /\ loaded \in [Actors -> Backups \cup {Missing}]
    BY DEF Types
  <1>2. /\ Goto(a, "down") /\ nth' = [nth EXCEPT ![a] = 1]
        /\ loaded' = [loaded EXCEPT ![a] = Missing]
        /\ a = "hub" => guarded' = FALSE
        /\ a # "hub" => UNCHANGED <<saved, guarded>>
    BY DEF Reset
  <1>3. "down" \in Labels /\ "down" \in RecoveryLabels \cup {"down"}
    BY DEF Labels
  <1>4. pc' \in [Actors -> Labels] /\ pc'[a] = "down"
    BY <1>2, <1>3, Moves
  <1>5. nth' \in [Actors -> Nat] /\ nth'[a] = 1
    BY <1>1, <1>2
  <1>6. loaded' \in [Actors -> Backups \cup {Missing}]
    BY <1>1, <1>2
  <1>7. OthersKept(a)
    BY <1>1, <1>2 DEF OthersKept, Goto, Types
  <1>8. /\ a = "cli" => UNCHANGED <<saved, guarded>>
        /\ a = "hub" => ~guarded'
    BY <1>2
  <1> QED
    BY <1>1, <1>3, <1>4, <1>5, <1>6, <1>7, <1>8, TypesMove

\* Every step keeps every variable's type.
LEMMA TypesNext == Types /\ [Next]_vars => Types'
  <1> SUFFICES ASSUME Types, [Next]_vars PROVE Types'
    OBVIOUS
  <1> USE DEF disk, memory, ghost, counters
  <1>1. CASE Exit
    BY <1>1, TypesReset, TwoActors DEF Exit
  <1>2. ASSUME NEW a \in Actors, Crash(a) PROVE Types'
    BY <1>2, TypesReset DEF Crash
  <1>3. CASE StartRecover
    <2>1. /\ Goto("cli", "rec_read") /\ pc["cli"] = "down"
          /\ UNCHANGED <<os, wanted, registry, bak, nth, loaded, saved, guarded, fails>>
      BY <1>3 DEF StartRecover
    <2>2. /\ "rec_read" \in Labels /\ "rec_read" \in RecoveryLabels \cup {"down"}
          /\ "down" \in Unwritten
      BY DEF Labels, RecoveryLabels, Unwritten
    <2>3. bak \in Backups \cup {Missing, Torn} /\ fails \in Nat
      BY DEF Types
    <2> QED
      BY <2>1, <2>2, <2>3, TypesStep, TwoActors
  <1>4. CASE UNCHANGED vars
    <2>1. UNCHANGED <<os, wanted, registry, bak, fails, pc, nth, loaded, saved, guarded>>
      BY <1>4 DEF vars
    <2>2. /\ Fields' = Fields /\ UndoFields' = UndoFields /\ Names' = Names
          /\ Backups' = Backups
      BY <2>1, SameFields
    <2> QED
      BY <2>1, <2>2 DEF Types
  <1> QED
    BY <1>1, <1>2, <1>3, <1>4, TypesRecovery, TypesStart, TypesStop
    DEF Next, Hub, Finished

-----------------------------------------------------------------------------
(* Steps on the settings *)

\* Fixed, of the settings after a step.
FixedNext(f) ==
  IF f \in PacFields THEN registry'[f] # "ours" ELSE os = "windows" => registry'[f] = wanted[f]

\* A step that undoes nobody's restoration.
Harmless == \A f \in Names : Fixed(f) => FixedNext(f)

LEMMA NextFixed ==
  ASSUME UNCHANGED <<os, wanted>>
  PROVE  /\ Restored' <=> \A f \in Names : FixedNext(f)
         /\ \A a \in Actors :
              FixedBefore(nth[a])' <=>
                \A i \in 1..Len(UndoFields) : i < nth'[a] => FixedNext(UndoFields[i])
  BY SameFields DEF Restored, Fixed, FixedBefore, FixedNext

\* Settings that nobody writes stay as they are.
LEMMA NotWritten ==
  ASSUME UNCHANGED <<os, wanted, registry>>
  PROVE  Harmless /\ (Restored' <=> Restored)
  BY SameFields DEF Restored, Fixed, Harmless, FixedNext

\* A step that harms nothing keeps what is restored.
LEMMA HarmlessKeeps ==
  ASSUME Types, UNCHANGED <<os, wanted>>, Harmless
  PROVE  /\ Restored => Restored'
         /\ \A a \in Actors : nth'[a] = nth[a] /\ FixedBefore(nth[a]) => FixedBefore(nth[a])'
  <1>1. \A i \in 1..Len(UndoFields) : UndoFields[i] \in Names
    BY FieldFacts DEF Types
  <1> QED
    BY <1>1, NextFixed DEF Restored, Harmless, FixedBefore

\* A right value is written.
LEMMA WriteFixes ==
  ASSUME Types, NEW f \in Names, NEW v, registry' = [registry EXCEPT ![f] = v],
         f \in PacFields => v # "ours",
         f \notin PacFields /\ os = "windows" => v = wanted[f]
  PROVE  Harmless /\ FixedNext(f)
  BY DEF Types, Harmless, Fixed, FixedNext

\* The next setting is put back, and perhaps it was the last.
LEMMA OneMoreFixed ==
  ASSUME Types, UNCHANGED <<os, wanted>>, NEW a \in Actors, nth[a] \in 1..Len(UndoFields),
         Harmless, FixedNext(UndoFields[nth[a]]), FixedBefore(nth[a])
  PROVE  /\ nth[a] = Len(UndoFields) => Restored'
         /\ nth'[a] = nth[a] + 1 => FixedBefore(nth[a])'
  <1>1. Len(UndoFields) \in Nat /\ \A i \in 1..Len(UndoFields) : UndoFields[i] \in Names
    BY FieldFacts DEF Types
  <1>2. \A i \in 1..Len(UndoFields) : i < nth[a] + 1 => FixedNext(UndoFields[i])
    BY <1>1 DEF Harmless, FixedBefore
  <1>3. nth'[a] = nth[a] + 1 => FixedBefore(nth[a])'
    BY <1>2, NextFixed
  <1>4. ASSUME nth[a] = Len(UndoFields) PROVE Restored'
    <2>1. \A i \in 1..Len(UndoFields) : FixedNext(UndoFields[i])
      BY <1>1, <1>2, <1>4
    <2>2. \A f \in Names : FixedNext(f)
      <3>1. ASSUME NEW f \in Names, os = "windows" \/ f \in PacFields PROVE FixedNext(f)
        <4>1. PICK i \in 1..Len(UndoFields) : UndoFields[i] = f
          BY <3>1, FieldFacts DEF Types
        <4> QED
          BY <2>1, <4>1
      <3> QED
        BY <3>1 DEF FixedNext
    <2> QED
      BY <2>2, NextFixed
  <1> QED
    BY <1>3, <1>4

\* recover_all writes what the backup says, if the backup is good.
LEMMA RecoveryFixes ==
  ASSUME Types, NEW a \in Actors, RecoverWrite(a), fails' = 0, loaded[a] = GoodBackup
  PROVE  Harmless /\ FixedNext(UndoFields[nth[a]]) /\ nth[a] \in 1..Len(UndoFields)
  <1> DEFINE f == UndoFields[nth[a]]
             v == IF f \in Manual THEN loaded[a][f] ELSE "off"
  <1>1. /\ nth[a] \in 1..Len(UndoFields) /\ f \in Names /\ Names = Manual \cup PacFields
        /\ Manual \cap PacFields = {} /\ (f \in Manual => os = "windows")
    BY FieldFacts DEF RecoverWrite, Types
  <1>2. \A g \in Manual : os = "windows" => loaded[a][g] = wanted[g]
    BY BackupIs
  <1>3. wanted[f] \in UserValues
    BY <1>1 DEF Types
  <1>4. /\ f \in PacFields => v # "ours"
        /\ f \notin PacFields => v = wanted[f]
    BY <1>1, <1>2
  <1>5. v \in Values
    BY <1>1, <1>2, <1>3, LifecycleConstants DEF Values
  <1>6. Ignored(registry' = [registry EXCEPT ![f] = v])
    BY DEF RecoverWrite
  <1> HIDE DEF f, v
  <1>7. registry' = [registry EXCEPT ![f] = v]
    BY <1>1, <1>5, <1>6, IgnoredTypes
  <1>8. Harmless /\ FixedNext(f)
    BY <1>1, <1>4, <1>7, WriteFixes
  <1> QED
    BY <1>1, <1>8 DEF f

\* restore_sync writes what the guard remembers, if that is right.
LEMMA RestoreFixes ==
  ASSUME Types, WriteSavedState, fails' = 0, GoodState
  PROVE  Harmless /\ FixedNext(UndoFields[nth["hub"]]) /\ nth["hub"] \in 1..Len(UndoFields)
  <1> DEFINE f == UndoFields[nth["hub"]]
             v == IF os = "windows" THEN saved[f] ELSE "off"
  <1>1. /\ nth["hub"] \in 1..Len(UndoFields) /\ f \in Names /\ Names = Manual \cup PacFields
        /\ os = "macos" => f \in PacFields
        /\ guarded
    BY FieldFacts, TwoActors DEF WriteSavedState, Types
  <1>2. /\ f \in PacFields => v # "ours"
        /\ f \notin PacFields /\ os = "windows" => v = wanted[f]
    BY <1>1 DEF GoodState
  <1>3. v \in Values
    BY <1>1, LifecycleConstants DEF Types, Values
  <1>4. fails \in Nat
    BY DEF Types
  <1>5. ~Fail("hub", IF dying THEN "unmark" ELSE "exit")
    BY <1>4 DEF Fail
  <1>6. \/ registry' = [registry EXCEPT ![f] = v]
        \/ Ignored(registry' = [registry EXCEPT ![f] = v])
    BY <1>5 DEF WriteSavedState
  <1> HIDE DEF f, v
  <1>7. registry' = [registry EXCEPT ![f] = v]
    BY <1>1, <1>3, <1>6, IgnoredTypes
  <1>8. Harmless /\ FixedNext(f)
    BY <1>1, <1>2, <1>7, WriteFixes
  <1> QED
    BY <1>1, <1>8 DEF f

-----------------------------------------------------------------------------
(* Steps that do not fail *)

\* What does not change, but for the counters and a crash.
Settled == UNCHANGED <<os, wanted, beside, crashed>>

\* The steps of recover_all.
RecoversOn(a) ==
  \/ /\ pc[a] = "rec_read" /\ pc'[a] = "rec_git" /\ bak \in {Missing, Torn}
     /\ UNCHANGED <<registry, bak, marker>>
  \/ /\ pc[a] = "rec_read" /\ pc'[a] = "rec_write" /\ bak \notin {Missing, Torn}
     /\ loaded'[a] = bak /\ nth'[a] = 1
     /\ UNCHANGED <<registry, bak, marker>>
  \/ /\ pc[a] = "rec_write" /\ RecoverWrite(a)
     /\ \/ nth[a] = Len(UndoFields) /\ pc'[a] = "rec_delete"
        \/ nth[a] # Len(UndoFields) /\ pc'[a] = "rec_write" /\ nth'[a] = nth[a] + 1
     /\ loaded'[a] = loaded[a]
     /\ UNCHANGED <<bak, marker>>
  \/ /\ pc[a] = "rec_delete" /\ pc'[a] = "rec_git" /\ bak' = Missing
     /\ UNCHANGED <<registry, marker>>
  \/ /\ pc[a] = "rec_git" /\ pc'[a] = "rec_cleanup"
     /\ UNCHANGED <<registry, bak, marker>>
  \/ /\ pc[a] = "rec_cleanup" /\ pc'[a] = "rec_marker" /\ bak' = Missing
     /\ UNCHANGED <<registry, marker>>
  \/ /\ pc[a] = "rec_marker" /\ ~marker'
     /\ \/ a = "hub" /\ pc'[a] = "mark"
        \/ a = "cli" /\ pc'[a] = "down"
     /\ UNCHANGED <<registry, bak>>

LEMMA RecoveryWorks ==
  ASSUME Types, NEW a \in Actors, Recovery(a), fails' = 0
  PROVE  /\ fails = 0 /\ Settled /\ OthersKept(a) /\ UNCHANGED <<saved, guarded>>
         /\ RecoversOn(a)
  <1> USE DEF disk, memory, ghost, counters
  <1>1. fails \in Nat /\ pc \in [Actors -> Labels] /\ nth \in [Actors -> Nat]
    BY DEF Types, Labels
  <1>2. loaded \in [Actors -> Backups \cup {Missing}]
    BY DEF Types
  <1>3. \A label : ~Fail(a, label)
    BY <1>1 DEF Fail
  <1>4. CASE RecoverRead(a)
    <2>1. CASE bak \in {Missing, Torn}
      BY <1>1, <1>2, <1>3, <1>4, <2>1 DEF RecoverRead, Goto, Settled, OthersKept, RecoversOn
    <2>2. CASE bak \notin {Missing, Torn}
      BY <1>1, <1>2, <1>3, <1>4, <2>2 DEF RecoverRead, Goto, Settled, OthersKept, RecoversOn
    <2> QED
      BY <2>1, <2>2
  <1>5. CASE RecoverWrite(a)
    <2>1. fails = 0
      BY <1>1, <1>5 DEF RecoverWrite, Ignored
    <2> QED
      BY <1>1, <1>2, <1>5, <2>1 DEF RecoverWrite, Goto, Settled, OthersKept, RecoversOn
  <1>6. CASE RecoverDelete(a)
    BY <1>1, <1>6 DEF RecoverDelete, Goto, Settled, OthersKept, RecoversOn
  <1>7. CASE RecoverGit(a)
    BY <1>1, <1>7 DEF RecoverGit, Goto, Settled, OthersKept, RecoversOn
  <1>8. CASE RecoverCleanup(a)
    BY <1>1, <1>8 DEF RecoverCleanup, Goto, Settled, OthersKept, RecoversOn
  <1>9. CASE RecoverMarker(a)
    BY <1>1, <1>3, <1>9, TwoActors DEF RecoverMarker, Goto, Settled, OthersKept, RecoversOn
  <1> QED
    BY <1>4, <1>5, <1>6, <1>7, <1>8, <1>9 DEF Recovery

\* The steps of start, stop and Drop.
HubGoesOn ==
  \/ /\ pc["hub"] = "down" /\ (beside \/ pc["cli"] = "down")
     /\ \/ marker /\ pc'["hub"] = "rec_read"
        \/ ~marker /\ pc'["hub"] = "mark"
     /\ UNCHANGED <<registry, bak, marker, saved, guarded>>
  \/ /\ pc["hub"] = "mark" /\ pc'["hub"] = "init" /\ marker'
     /\ UNCHANGED <<registry, bak, saved, guarded>>
  \/ /\ pc["hub"] = "init" /\ pc'["hub"] \in {"save", "serving"}
     /\ UNCHANGED <<registry, bak, marker, saved, guarded>>
  \/ /\ pc["hub"] = "save" /\ UNCHANGED <<registry, marker, guarded>>
     /\ \/ os = "windows" /\ pc'["hub"] = "backup" /\ saved' = registry /\ bak' = Torn
        \/ os = "macos" /\ pc'["hub"] = "pac" /\ bak' = Flag
  \/ /\ pc["hub"] = "backup" /\ pc'["hub"] = "pac" /\ bak' = Pick(saved, Manual)
     /\ UNCHANGED <<registry, marker, saved, guarded>>
  \/ /\ pc["hub"] = "pac" /\ UNCHANGED <<bak, marker, saved>>
     /\ \/ pc'["hub"] = "pac" /\ ~guarded'
        \/ pc'["hub"] = "serving" /\ guarded'
  \/ /\ pc["hub"] \in {"serving", "drop"} /\ nth'["hub"] = 1
     /\ \/ guarded /\ pc'["hub"] = "restore"
        \/ ~guarded /\ pc'["hub"] = "unmark"
     /\ UNCHANGED <<registry, bak, marker, saved, guarded>>
  \/ /\ pc["hub"] = "restore" /\ WriteSavedState
     /\ \/ nth["hub"] = Len(UndoFields) /\ pc'["hub"] = "delete"
        \/ nth["hub"] # Len(UndoFields) /\ pc'["hub"] = "restore" /\ nth'["hub"] = nth["hub"] + 1
     /\ UNCHANGED <<bak, marker, saved, guarded>>
  \/ /\ pc["hub"] = "delete" /\ pc'["hub"] = "unmark" /\ bak' = Missing
     /\ UNCHANGED <<registry, marker, saved, guarded>>
  \/ /\ pc["hub"] = "unmark" /\ pc'["hub"] = "exit" /\ ~marker'
     /\ UNCHANGED <<registry, bak, saved, guarded>>
  \/ /\ pc["hub"] = "exit" /\ pc'["hub"] = "down" /\ ~guarded'
     /\ UNCHANGED <<registry, bak, marker>>

LEMMA HubWorks ==
  ASSUME Types, Hub, fails' = 0
  PROVE  /\ fails = 0 /\ Settled /\ OthersKept("hub")
         /\ HubGoesOn
  <1> USE DEF disk, memory, ghost, counters
  <1>1. fails \in Nat /\ pc \in [Actors -> Labels] /\ nth \in [Actors -> Nat] /\ "hub" \in Actors
    BY TwoActors DEF Types, Labels
  <1>2. loaded \in [Actors -> Backups \cup {Missing}] /\ os \in {"windows", "macos"}
    BY DEF Types
  <1>3. \A label : ~Fail("hub", label)
    BY <1>1 DEF Fail
  <1>4. CASE (beside \/ pc["cli"] = "down") /\ StartHub
    BY <1>1, <1>4 DEF StartHub, Goto, Settled, OthersKept, HubGoesOn
  <1>5. CASE CreateMarker
    BY <1>1, <1>3, <1>5 DEF CreateMarker, Goto, Settled, OthersKept, HubGoesOn
  <1>6. CASE InitServices
    BY <1>1, <1>3, <1>6 DEF InitServices, Goto, Settled, OthersKept, HubGoesOn
  <1>7. CASE SaveBackup
    BY <1>1, <1>2, <1>3, <1>7 DEF SaveBackup, Goto, Settled, OthersKept, HubGoesOn
  <1>8. CASE WriteBackup
    BY <1>1, <1>3, <1>8 DEF WriteBackup, Goto, Settled, OthersKept, HubGoesOn
  <1>9. CASE WritePac
    <2>1. fails = 0
      BY <1>1, <1>3, <1>9 DEF WritePac, Ignored
    <2>2. /\ pc["hub"] = "pac"
          /\ pc' = [pc EXCEPT !["hub"] = IF nth["hub"] = Len(Fields) THEN "serving" ELSE "pac"]
          /\ guarded' = (nth["hub"] = Len(Fields))
          /\ nth' = [nth EXCEPT !["hub"] = nth["hub"] + 1]
          /\ UNCHANGED <<bak, marker, loaded, saved, os, wanted, beside, crashed>>
      BY <1>3, <1>9 DEF WritePac, Goto
    <2>3. /\ nth["hub"] = Len(Fields) => guarded'
          /\ nth["hub"] # Len(Fields) => ~guarded'
      BY <2>2
    <2> QED
      BY <1>1, <2>1, <2>2, <2>3 DEF Settled, OthersKept, HubGoesOn
  <1>10. CASE StopHub \/ DropHub
    BY <1>1, <1>10 DEF StopHub, DropHub, Goto, Settled, OthersKept, HubGoesOn
  <1>11. CASE WriteSavedState
    <2>1. fails = 0
      BY <1>1, <1>3, <1>11 DEF WriteSavedState, Ignored
    <2>2. /\ pc["hub"] = "restore"
          /\ pc' = [pc EXCEPT !["hub"] =
                      IF nth["hub"] = Len(UndoFields) THEN "delete" ELSE "restore"]
          /\ nth' = [nth EXCEPT !["hub"] = nth["hub"] + 1]
          /\ UNCHANGED <<bak, marker, loaded, saved, guarded, os, wanted, beside, crashed>>
      BY <1>3, <1>11 DEF WriteSavedState, Goto
    <2> QED
      BY <1>1, <1>11, <2>1, <2>2 DEF Settled, OthersKept, HubGoesOn
  <1>12. CASE DeleteBackup
    BY <1>1, <1>12 DEF DeleteBackup, Goto, Settled, OthersKept, HubGoesOn
  <1>13. CASE RemoveMarker
    BY <1>1, <1>3, <1>13 DEF RemoveMarker, Goto, Settled, OthersKept, HubGoesOn
  <1>14. CASE Exit
    BY <1>1, <1>2, <1>14 DEF Exit, Reset, Goto, Settled, OthersKept, HubGoesOn
  <1> QED
    BY <1>4, <1>5, <1>6, <1>7, <1>8, <1>9, <1>10, <1>11, <1>12, <1>13, <1>14 DEF Hub

-----------------------------------------------------------------------------
(* The user's settings are safe *)

Safe ==
  /\ Regular => Session
  /\ fails = 0 /\ ~beside => Sheltered
  /\ fails = 0 /\ ~crashed => Orderly

\* Session after a step of one actor.
LEMMA SessionMove ==
  ASSUME Types, Session, UNCHANGED <<os, wanted>>, NEW a \in Actors, OthersKept(a),
         bak' \in {Missing, Torn, GoodBackup},
         pc'[a] = "rec_write" => loaded'[a] = GoodBackup,
         a = "cli" => Harmless /\ UNCHANGED <<saved, guarded>>,
         a = "hub" => HubSession'
  PROVE  Session'
  <1>1. GoodBackup' = GoodBackup /\ Names' = Names /\ PacFields' = PacFields
    BY SameFields
  <1>2. \A b \in Actors : pc'[b] = "rec_write" => loaded'[b] = GoodBackup
    BY DEF Session, OthersKept
  <1>3. ASSUME a = "cli" PROVE HubSession'
    <2>1. pc'["hub"] = pc["hub"] /\ nth'["hub"] = nth["hub"]
      BY <1>3, TwoActors DEF OthersKept
    <2>2. UNCHANGED <<saved, guarded>>
      BY <1>3
    <2>3. /\ Restored => Restored'
          /\ FixedBefore(nth["hub"]) => FixedBefore(nth["hub"])'
      BY <1>3, <2>1, HarmlessKeeps, TwoActors
    <2>4. GoodState => GoodState'
      BY <1>1, <2>2 DEF GoodState
    <2> QED
      BY <2>1, <2>2, <2>3, <2>4 DEF Session, HubSession
  <1> QED
    BY <1>1, <1>2, <1>3, TwoActors DEF Session

\* Sheltered after a step of the only actor that runs.
LEMMA ShelteredMove ==
  ASSUME Types', NEW a \in Actors, \A b \in Actors : b # a => pc'[b] = "down",
         ~Restored' => marker' /\ bak' = GoodBackup',
         pc'[a] \in {"init", "save", "backup", "pac", "serving", "restore"} => marker',
         pc'[a] \in {"pac", "restore"} \/ (guarded' /\ pc'[a] = "serving") => bak' = GoodBackup',
         pc'[a] = "rec_write" => bak' = GoodBackup' /\ FixedBefore(nth[a])',
         pc'[a] \in {"rec_delete", "rec_git", "rec_cleanup", "rec_marker"} => Restored'
  PROVE  Sheltered'
  <1>1. ASSUME NEW b \in Actors
        PROVE  /\ pc'[b] = "rec_write" => bak' = GoodBackup' /\ FixedBefore(nth[b])'
               /\ pc'[b] \in {"rec_delete", "rec_git", "rec_cleanup", "rec_marker"} => Restored'
    <2>1. CASE b = a
      BY <2>1
    <2>2. CASE b # a
      BY <2>2
    <2> QED
      BY <2>1, <2>2
  <1>2. /\ pc'["hub"] \in {"init", "save", "backup", "pac", "serving", "restore"} => marker'
        /\ pc'["hub"] \in {"pac", "restore"} \/ (guarded' /\ pc'["hub"] = "serving") =>
             bak' = GoodBackup'
    BY TwoActors
  <1> QED
    BY <1>1, <1>2 DEF Sheltered

\* While one actor runs, the other does not.
LEMMA OtherDown ==
  ASSUME Alone, ~beside, NEW a \in Actors, pc[a] # "down", OthersKept(a)
  PROVE  \A b \in Actors : b # a => pc'[b] = "down"
  BY TwoActors DEF Alone, OthersKept

\* Recovery puts the user's settings back and leaves none of ours.
LEMMA SafeRecovery ==
  ASSUME Types, Alone, Safe, Types', NEW a \in Actors, Recovery(a)
  PROVE  Safe'
  <1> SUFFICES ASSUME fails' = 0 PROVE Safe'
    BY DEF Safe, Regular
  <1>1. /\ fails = 0 /\ Settled /\ OthersKept(a) /\ UNCHANGED <<saved, guarded>>
        /\ RecoversOn(a)
    BY RecoveryWorks
  <1>2. UNCHANGED <<os, wanted, beside, crashed>>
    BY <1>1 DEF Settled
  <1>3. /\ bak' \in {bak, Missing} /\ (marker' = marker \/ ~marker')
        /\ pc[a] \in RecoveryLabels
        /\ pc[a] # "rec_write" => registry' = registry
        /\ pc[a] = "rec_write" => RecoverWrite(a)
    BY <1>1 DEF RecoversOn, RecoveryLabels
  <1>4. GoodBackup' = GoodBackup /\ GoodBackup \notin {Missing, Torn}
    BY <1>2, SameFields, BackupIs
  <1>5. ASSUME Session PROVE Harmless
    <2>1. CASE pc[a] = "rec_write"
      BY <1>3, <1>5, <2>1, RecoveryFixes DEF Session
    <2>2. CASE pc[a] # "rec_write"
      BY <1>2, <1>3, <2>2, NotWritten
    <2> QED
      BY <2>1, <2>2
  <1>6. (~guarded' /\ ~guarded) \/ a = "cli"
    BY <1>1, <1>3, TwoActors DEF Types, RecoveryLabels
  <1>7. ASSUME ~crashed PROVE a = "cli" /\ Orderly /\ Session
    BY <1>1, <1>3, <1>7, TwoActors DEF Safe, Orderly, Regular
  <1>8. ASSUME ~beside PROVE Sheltered /\ Session
    BY <1>1, <1>8 DEF Safe, Regular
  <1>9. ASSUME Regular PROVE Session'
    <2>1. Session /\ Harmless
      BY <1>5, <1>7, <1>8, <1>9 DEF Regular
    <2>2. bak' \in {Missing, Torn, GoodBackup}
      BY <1>3, <2>1 DEF Session
    <2>3. pc'[a] = "rec_write" => loaded'[a] = GoodBackup
      BY <1>1, <2>1 DEF RecoversOn, Session
    <2>4. ASSUME a = "hub" PROVE HubSession'
      <3>1. Sheltered
        BY <1>7, <1>8, <1>9, <2>4 DEF Regular
      <3>2. pc'["hub"] \in RecoveryLabels \/ (pc'["hub"] = "mark" /\ pc["hub"] = "rec_marker")
        BY <1>1, <2>4 DEF RecoversOn, RecoveryLabels
      <3>3. pc["hub"] = "rec_marker" => Restored'
        BY <1>2, <1>3, <2>4, <3>1, NotWritten, TwoActors DEF Sheltered
      <3> QED
        BY <1>6, <2>4, <3>2, <3>3 DEF HubSession, RecoveryLabels
    <2> QED
      BY <1>1, <1>2, <2>1, <2>2, <2>3, <2>4, SessionMove
  <1>10. ASSUME ~beside PROVE Sheltered'
    <2>1. pc[a] # "down"
      BY <1>3 DEF RecoveryLabels
    <2>2. Sheltered /\ Session /\ Harmless
      BY <1>5, <1>8, <1>10
    <2>3. \A b \in Actors : b # a => pc'[b] = "down"
      BY <1>1, <1>10, <2>1, OtherDown
    <2>4. Restored => Restored'
      BY <1>2, <2>2, HarmlessKeeps
    <2>5. pc[a] \in {"rec_delete", "rec_git", "rec_cleanup", "rec_marker"} => Restored
      BY <2>2 DEF Sheltered
    <2>6. pc[a] = "rec_read" /\ pc'[a] = "rec_git" => Restored
      BY <1>1, <1>4, <2>2 DEF RecoversOn, Sheltered
    <2>7. pc[a] = "rec_read" /\ pc'[a] = "rec_write" =>
            bak' = GoodBackup /\ FixedBefore(nth[a])'
      <3>1. SUFFICES ASSUME pc[a] = "rec_read", pc'[a] = "rec_write"
                     PROVE  bak' = GoodBackup /\ FixedBefore(nth[a])'
        OBVIOUS
      <3>2. bak' = bak /\ bak \notin {Missing, Torn} /\ nth'[a] = 1
        BY <1>1, <3>1 DEF RecoversOn
      <3>3. \A i \in 1..Len(UndoFields) : ~(i < 1)
        BY FieldFacts DEF Types
      <3> QED
        BY <1>2, <2>2, <3>2, <3>3, NextFixed DEF Session
    <2>8. pc[a] = "rec_write" =>
            /\ bak' = GoodBackup /\ marker' = marker
            /\ pc'[a] = "rec_write" => FixedBefore(nth[a])'
            /\ pc'[a] # "rec_write" => Restored'
      <3>1. SUFFICES ASSUME pc[a] = "rec_write"
                     PROVE  /\ bak' = GoodBackup /\ marker' = marker
                            /\ pc'[a] = "rec_write" => FixedBefore(nth[a])'
                            /\ pc'[a] # "rec_write" => Restored'
        OBVIOUS
      <3>2. bak = GoodBackup /\ FixedBefore(nth[a]) /\ loaded[a] = GoodBackup
        BY <2>2, <3>1 DEF Sheltered, Session
      <3>3. FixedNext(UndoFields[nth[a]]) /\ nth[a] \in 1..Len(UndoFields)
        BY <1>3, <3>1, <3>2, RecoveryFixes
      <3>4. /\ nth[a] = Len(UndoFields) => Restored'
            /\ nth'[a] = nth[a] + 1 => FixedBefore(nth[a])'
        BY <1>2, <2>2, <3>2, <3>3, OneMoreFixed
      <3>5. /\ UNCHANGED <<bak, marker>>
            /\ \/ nth[a] = Len(UndoFields) /\ pc'[a] = "rec_delete"
               \/ pc'[a] = "rec_write" /\ nth'[a] = nth[a] + 1
        BY <1>1, <3>1 DEF RecoversOn
      <3> QED
        BY <3>2, <3>4, <3>5
    <2>9. /\ pc[a] = "rec_read" => UNCHANGED <<bak, marker>>
          /\ pc'[a] \in {"down", "mark"} \cup RecoveryLabels
          /\ pc[a] = "rec_read" => pc'[a] \in {"rec_git", "rec_write"}
          /\ pc[a] \notin {"rec_read", "rec_write"} => pc'[a] # "rec_write"
      BY <1>1 DEF RecoversOn, RecoveryLabels
    <2>10. ~Restored' => marker' /\ bak' = GoodBackup
      BY <1>3, <2>2, <2>4, <2>5, <2>8, <2>9 DEF Sheltered, RecoveryLabels
    <2>11. pc'[a] \in {"rec_delete", "rec_git", "rec_cleanup", "rec_marker"} => Restored'
      BY <1>3, <2>4, <2>5, <2>6, <2>8, <2>9 DEF RecoveryLabels
    <2>12. pc'[a] = "rec_write" => bak' = GoodBackup /\ FixedBefore(nth[a])'
      BY <1>3, <2>7, <2>8, <2>9 DEF RecoveryLabels
    <2>13. pc'[a] \notin {"init", "save", "backup", "pac", "serving", "restore"}
      BY <2>9 DEF RecoveryLabels
    <2> QED
      BY <1>4, <2>3, <2>10, <2>11, <2>12, <2>13, ShelteredMove
  <1>11. ASSUME ~crashed PROVE Orderly'
    <2>1. a = "cli" /\ Orderly /\ Harmless
      BY <1>5, <1>7, <1>11
    <2>2. pc'["hub"] = pc["hub"]
      BY <1>1, <2>1, TwoActors DEF OthersKept
    <2>3. Restored => Restored'
      BY <1>2, <2>1, HarmlessKeeps
    <2> QED
      BY <1>3, <2>1, <2>2, <2>3 DEF Orderly
  <1> QED
    BY <1>1, <1>2, <1>9, <1>10, <1>11 DEF Safe, Regular

\* What the guard remembers after a step.
LEMMA GoodStateMove ==
  ASSUME Types, UNCHANGED <<os, wanted>>
  PROVE  /\ saved' = saved /\ GoodState => GoodState'
         /\ saved' = registry /\ Restored => GoodState'
         /\ os = "macos" => GoodState'
  <1>1. Names' = Names /\ PacFields' = PacFields
    BY SameFields
  <1> QED
    BY <1>1 DEF GoodState, Restored, Fixed

\* The hub changes the settings only after their backup, and puts them back.
LEMMA SafeHub ==
  ASSUME Types, Alone, Safe, Types', Hub
  PROVE  Safe'
  <1> SUFFICES ASSUME fails' = 0 PROVE Safe'
    BY DEF Safe, Regular
  <1>1. fails = 0 /\ Settled /\ OthersKept("hub") /\ HubGoesOn
    BY HubWorks
  <1>2. UNCHANGED <<os, wanted, beside, crashed>> /\ "hub" \in Actors
    BY <1>1, TwoActors DEF Settled
  <1>3. GoodBackup' = GoodBackup
    BY <1>2, SameFields
  <1>4. pc["hub"] \notin {"pac", "restore"} => (Restored' <=> Restored)
    <2>1. pc["hub"] \notin {"pac", "restore"} => registry' = registry
      BY <1>1 DEF HubGoesOn
    <2> QED
      BY <1>2, <2>1, NotWritten
  <1>5. ASSUME ~crashed PROVE Orderly /\ Session
    BY <1>1, <1>5 DEF Safe, Regular
  <1>6. ASSUME ~beside PROVE Sheltered /\ Session
    BY <1>1, <1>6 DEF Safe, Regular
  <1>7. ASSUME Session, pc["hub"] = "restore"
        PROVE  /\ nth["hub"] = Len(UndoFields) => Restored'
               /\ nth'["hub"] = nth["hub"] + 1 => FixedBefore(nth["hub"])'
               /\ Restored => Restored'
    <2>1. WriteSavedState /\ GoodState /\ FixedBefore(nth["hub"])
      BY <1>1, <1>7 DEF HubGoesOn, Session, HubSession, Types
    <2>2. Harmless /\ FixedNext(UndoFields[nth["hub"]]) /\ nth["hub"] \in 1..Len(UndoFields)
      BY <2>1, RestoreFixes
    <2> QED
      BY <1>2, <2>1, <2>2, OneMoreFixed, HarmlessKeeps
  <1>8. ASSUME Regular PROVE Session'
    <2>1. Session
      BY <1>5, <1>6, <1>8 DEF Regular
    <2>2. pc["hub"] = "down" /\ ~marker => Restored
      BY <1>5, <1>6, <1>8 DEF Regular, Orderly, Sheltered
    <2>3. guarded => pc["hub"] \in {"serving", "restore", "delete", "unmark", "exit"}
      BY DEF Types
    <2>4. bak' \in {Missing, Torn, GoodBackup}
      <3>1. os = "windows" /\ pc["hub"] = "backup" => Pick(saved, Manual) = GoodBackup
        BY <2>1, FieldFacts DEF Session, HubSession, GoodState, GoodBackup, Pick, Types
      <3>2. pc["hub"] = "backup" => os = "windows"
        BY DEF Types
      <3>3. os = "macos" => Flag = GoodBackup
        BY DEF GoodBackup
      <3> QED
        BY <1>1, <2>1, <3>1, <3>2, <3>3 DEF HubGoesOn, Session
    <2>5. pc'["hub"] # "rec_write" /\ pc'["hub"] # "drop"
      BY <1>1 DEF HubGoesOn
    <2>6. guarded' \/ pc'["hub"] \in {"backup", "pac"} => GoodState'
      <3>1. pc["hub"] = "save" => Restored
        BY <2>1 DEF Session, HubSession
      <3>2. guarded \/ pc["hub"] \in {"backup", "pac"} => GoodState
        BY <2>1 DEF Session, HubSession
      <3>3. /\ saved' = saved /\ GoodState => GoodState'
            /\ saved' = registry /\ Restored => GoodState'
            /\ os = "macos" => GoodState'
        BY <1>2, GoodStateMove
      <3> QED
        BY <1>1, <2>3, <3>1, <3>2, <3>3 DEF HubGoesOn
    <2>7. /\ pc'["hub"] \in {"mark", "init", "save", "backup", "delete", "unmark", "exit"} =>
               Restored'
          /\ pc'["hub"] = "serving" /\ ~guarded' => Restored'
      <3>1. /\ pc["hub"] \in {"mark", "init", "save", "backup", "delete", "unmark", "exit"} =>
                 Restored
            /\ pc["hub"] = "serving" /\ ~guarded => Restored
            /\ pc["hub"] # "drop"
        BY <2>1 DEF Session, HubSession
      <3> QED
        BY <1>1, <1>4, <1>7, <2>1, <2>2, <3>1 DEF HubGoesOn
    <2>8. pc'["hub"] = "restore" => FixedBefore(nth["hub"])'
      <3>1. nth'["hub"] = 1 => FixedBefore(nth["hub"])'
        <4>1. \A i \in 1..Len(UndoFields) : ~(i < 1)
          BY FieldFacts DEF Types
        <4> QED
          BY <1>2, <4>1, NextFixed
      <3> QED
        BY <1>1, <1>7, <2>1, <3>1 DEF HubGoesOn
    <2>9. HubSession'
      BY <2>5, <2>6, <2>7, <2>8 DEF HubSession
    <2> QED
      BY <1>1, <1>2, <2>1, <2>4, <2>5, <2>9, SessionMove
  <1>9. ASSUME ~beside PROVE Sheltered'
    <2>1. Sheltered /\ Session /\ Session'
      BY <1>1, <1>6, <1>8, <1>9 DEF Regular
    <2>2. \A b \in Actors : b # "hub" => pc'[b] = "down"
      <3>1. pc["cli"] = "down"
        BY <1>1, <1>2, <1>9 DEF HubGoesOn, Alone
      <3> QED
        BY <1>1, <3>1, TwoActors DEF OthersKept
    <2>3. pc'["hub"] \in {"init", "save", "backup", "pac", "serving", "restore"} => marker'
      BY <1>1, <2>1 DEF HubGoesOn, Sheltered, Session, HubSession
    <2>4. /\ pc'["hub"] \in {"pac", "restore"} \/ (guarded' /\ pc'["hub"] = "serving") =>
               bak' = GoodBackup
      <3>1. os = "windows" /\ pc["hub"] = "backup" => Pick(saved, Manual) = GoodBackup
        BY <2>1, FieldFacts DEF Session, HubSession, GoodState, GoodBackup, Pick, Types
      <3>2. pc["hub"] = "backup" => os = "windows"
        BY DEF Types
      <3>3. os = "macos" => Flag = GoodBackup
        BY DEF GoodBackup
      <3>4. guarded => pc["hub"] \in {"serving", "restore", "delete", "unmark", "exit"}
        BY DEF Types
      <3>5. /\ pc["hub"] \in {"pac", "restore"} => bak = GoodBackup
            /\ guarded /\ pc["hub"] = "serving" => bak = GoodBackup
            /\ pc["hub"] # "drop"
        BY <2>1 DEF Sheltered, Session, HubSession
      <3> QED
        BY <1>1, <3>1, <3>2, <3>3, <3>4, <3>5 DEF HubGoesOn
    <2>5. ~Restored' => marker' /\ bak' = GoodBackup
      <3>1. /\ pc["hub"] \in {"mark", "init", "save", "backup", "delete", "unmark", "exit"} =>
                 Restored
            /\ pc["hub"] # "drop"
            /\ ~Restored => marker /\ bak = GoodBackup
            /\ pc["hub"] \in {"pac", "restore"} => marker /\ bak = GoodBackup
        BY <2>1 DEF Sheltered, Session, HubSession
      <3> QED
        BY <1>1, <1>4, <3>1 DEF HubGoesOn
    <2>6. /\ pc'["hub"] # "rec_write"
          /\ pc'["hub"] \notin {"rec_delete", "rec_git", "rec_cleanup", "rec_marker"}
      BY <1>1 DEF HubGoesOn
    <2> QED
      BY <1>2, <1>3, <2>2, <2>3, <2>4, <2>5, <2>6, ShelteredMove
  <1>10. ASSUME ~crashed PROVE Orderly'
    <2>1. Orderly /\ Session
      BY <1>5, <1>10
    <2>2. pc["hub"] = "exit" => Restored
      BY <2>1 DEF Session, HubSession
    <2> QED
      BY <1>1, <1>4, <2>1, <2>2 DEF HubGoesOn, Orderly, RecoveryLabels
  <1> QED
    BY <1>1, <1>2, <1>8, <1>9, <1>10 DEF Safe, Regular

\* A crash leaves the files and the settings as they are.
LEMMA SafeCrash ==
  ASSUME Types, Alone, Safe, Types', NEW a \in Actors, Crash(a)
  PROVE  Safe'
  <1>1. UNCHANGED <<os, wanted, beside, registry, bak, marker, fails>> /\ crashed'
    BY DEF Crash, disk, counters
  <1>2. /\ pc'[a] = "down" /\ OthersKept(a) /\ pc[a] # "down"
        /\ a = "cli" => UNCHANGED <<saved, guarded>>
        /\ a = "hub" => ~guarded'
    BY TwoActors DEF Crash, Reset, Goto, OthersKept, Types
  <1>3. GoodBackup' = GoodBackup /\ Harmless /\ (Restored' <=> Restored)
    BY <1>1, SameFields, NotWritten
  <1>4. ASSUME Session PROVE Session'
    <2>1. bak' \in {Missing, Torn, GoodBackup}
      BY <1>1, <1>4 DEF Session
    <2>2. a = "hub" => HubSession'
      BY <1>2 DEF HubSession
    <2> QED
      BY <1>1, <1>2, <1>3, <1>4, <2>1, <2>2, SessionMove
  <1>5. ASSUME ~beside, Sheltered PROVE Sheltered'
    <2>1. \A b \in Actors : b # a => pc'[b] = "down"
      BY <1>2, <1>5, OtherDown
    <2>2. ~Restored' => marker' /\ bak' = GoodBackup'
      BY <1>1, <1>3, <1>5 DEF Sheltered
    <2> QED
      BY <1>2, <2>1, <2>2, ShelteredMove
  <1> QED
    BY <1>1, <1>4, <1>5 DEF Safe, Regular

\* A recover command begins.
LEMMA SafeRecover ==
  ASSUME Types, Safe, Types', StartRecover
  PROVE  Safe'
  <1>1. UNCHANGED <<os, wanted, beside, crashed, registry, bak, marker, fails, saved, guarded>>
    BY DEF StartRecover, disk, memory, ghost
  <1>2. /\ pc'["cli"] = "rec_read" /\ OthersKept("cli") /\ "cli" \in Actors
        /\ beside \/ pc["hub"] = "down"
    BY TwoActors DEF StartRecover, Goto, OthersKept, Types, memory
  <1>3. GoodBackup' = GoodBackup /\ Harmless /\ (Restored' <=> Restored)
    BY <1>1, SameFields, NotWritten
  <1>4. ASSUME Session PROVE Session'
    <2>1. bak' \in {Missing, Torn, GoodBackup}
      BY <1>1, <1>4 DEF Session
    <2> QED
      BY <1>1, <1>2, <1>3, <1>4, <2>1, SessionMove
  <1>5. ASSUME ~beside, Sheltered PROVE Sheltered'
    <2>1. \A b \in Actors : b # "cli" => pc'[b] = "down"
      BY <1>2, <1>5, TwoActors DEF OthersKept
    <2>2. ~Restored' => marker' /\ bak' = GoodBackup'
      BY <1>1, <1>3, <1>5 DEF Sheltered
    <2> QED
      BY <1>2, <2>1, <2>2, ShelteredMove
  <1>6. ASSUME Orderly PROVE Orderly'
    BY <1>1, <1>2, <1>3, <1>6, TwoActors DEF Orderly, OthersKept
  <1> QED
    BY <1>1, <1>4, <1>5, <1>6 DEF Safe, Regular

\* Nothing happens.
LEMMA SafeStutter ==
  ASSUME Types, Safe, UNCHANGED vars
  PROVE  Safe'
  <1>1. UNCHANGED <<os, wanted, beside, crashed, registry, bak, marker, fails, saved, guarded,
                    pc, nth, loaded>>
    BY DEF vars, disk, memory, ghost, counters
  <1>2. GoodBackup' = GoodBackup /\ Harmless /\ (Restored' <=> Restored)
    BY <1>1, SameFields, NotWritten
  <1>3. \A a \in Actors : FixedBefore(nth[a]) => FixedBefore(nth[a])'
    BY <1>1, <1>2, HarmlessKeeps
  <1>4. Session => Session'
    <2>1. OthersKept("cli") /\ "cli" \in Actors
      BY <1>1, TwoActors DEF OthersKept
    <2>2. ASSUME Session
          PROVE  bak' \in {Missing, Torn, GoodBackup} /\
                 (pc'["cli"] = "rec_write" => loaded'["cli"] = GoodBackup)
      BY <1>1, <2>1, <2>2 DEF Session
    <2> QED
      BY <1>1, <1>2, <2>1, <2>2, SessionMove
  <1>5. Sheltered => Sheltered'
    BY <1>1, <1>2, <1>3 DEF Sheltered
  <1>6. Orderly => Orderly'
    BY <1>1, <1>2 DEF Orderly
  <1> QED
    BY <1>1, <1>4, <1>5, <1>6 DEF Safe, Regular

-----------------------------------------------------------------------------
(* What restore_sync has written *)

\* Every value that the guard remembers is in its place in the end.
LEMMA WriteBack ==
  ASSUME Types, os = "windows", WrittenBack, WriteSavedState, os' = os
  PROVE  WrittenBack'
  <1> USE DEF disk, memory, ghost, counters
  <1> DEFINE f == Fields[nth["hub"]]
  <1>1. Fields' = Fields
    BY DEF Fields
  <1>2. /\ UndoFields = Fields /\ Len(Fields) = 4
        /\ \A i \in 1..4 : Fields[i] \in Names
        /\ \A g \in Names : \E i \in 1..4 : Fields[i] = g
    BY FieldFacts DEF Types
  <1>3. /\ pc["hub"] = "restore" /\ nth["hub"] \in 1..4 /\ guarded
        /\ registry \in [Names -> Values] /\ saved \in [Names -> Values]
        /\ pc \in [Actors -> Labels] /\ nth \in [Actors -> Nat] /\ "hub" \in Actors
    BY <1>2, TwoActors DEF WriteSavedState, Types, Labels
  <1>4. CASE Fail("hub", IF dying THEN "unmark" ELSE "exit")
    BY <1>3, <1>4 DEF Fail, Goto, WrittenBack
  <1>5. CASE ~Fail("hub", IF dying THEN "unmark" ELSE "exit")
    <2>1. /\ registry' = [registry EXCEPT ![f] = saved[f]]
          /\ nth' = [nth EXCEPT !["hub"] = nth["hub"] + 1]
          /\ pc' = [pc EXCEPT !["hub"] = IF nth["hub"] = 4 THEN "delete" ELSE "restore"]
          /\ saved' = saved
      BY <1>2, <1>5 DEF WriteSavedState, Goto
    <2>2. /\ nth'["hub"] = nth["hub"] + 1
          /\ pc'["hub"] = IF nth["hub"] = 4 THEN "delete" ELSE "restore"
      BY <1>3, <2>1
    <2>3. \A i \in 1..4 : i < nth["hub"] => registry[Fields[i]] = saved[Fields[i]]
      BY <1>3 DEF WrittenBack
    <2>4. f \in Names /\ registry' \in [Names -> Values]
      BY <1>2, <1>3, <2>1
    <2>5. ASSUME NEW i \in 1..4, i < nth["hub"] + 1
          PROVE  registry'[Fields[i]] = saved[Fields[i]]
      <3>1. CASE i = nth["hub"]
        BY <1>3, <2>1, <2>4, <3>1
      <3>2. CASE i < nth["hub"]
        <4> HIDE DEF f
        <4> QED
          BY <1>2, <1>3, <2>1, <2>3, <2>4, <3>2
      <3> QED
        BY <1>3, <2>5, <3>1, <3>2
    <2>6. ASSUME nth["hub"] = 4 PROVE registry' = saved
      <3>1. \A i \in 1..4 : registry'[Fields[i]] = saved[Fields[i]]
        BY <2>5, <2>6
      <3>2. \A g \in Names : registry'[g] = saved[g]
        BY <1>2, <3>1
      <3> QED
        BY <1>3, <2>4, <3>2
    <2> QED
      BY <1>1, <2>1, <2>2, <2>5, <2>6 DEF WrittenBack
  <1> QED
    BY <1>4, <1>5

\* No other step disturbs that.
LEMMA WrittenBackNext ==
  ASSUME Types, Alone, os = "windows", ~beside, WrittenBack, [Next]_vars
  PROVE  WrittenBack'
  <1> USE DEF disk, memory, ghost, counters
  <1> DEFINE Elsewhere == pc'["hub"] \notin {"restore", "delete", "unmark"}
  <1>1. Elsewhere => WrittenBack'
    BY DEF WrittenBack
  <1>2. pc \in [Actors -> Labels] /\ nth \in [Actors -> Nat] /\ "hub" \in Actors
    BY TwoActors DEF Types, Labels
  <1>3. ASSUME NEW a \in Actors, Recovery(a) \/ Crash(a) PROVE Elsewhere
    <2>1. CASE a = "hub"
      BY <1>2, <1>3, <2>1 DEF Recovery, RecoverRead, RecoverWrite, RecoverDelete, RecoverGit,
         RecoverCleanup, RecoverMarker, Fail, Crash, Reset, Goto
    <2>2. CASE a = "cli"
      <3>1. pc["hub"] = "down"
        BY <1>3, <2>2 DEF Alone, Recovery, RecoverRead, RecoverWrite, RecoverDelete, RecoverGit,
           RecoverCleanup, RecoverMarker, Crash
      <3>2. pc'["hub"] = pc["hub"]
        BY <1>2, <1>3, <2>2 DEF Recovery, RecoverRead, RecoverWrite, RecoverDelete, RecoverGit,
           RecoverCleanup, RecoverMarker, Fail, Crash, Reset, Goto
      <3> QED
        BY <3>1, <3>2
    <2> QED
      BY <2>1, <2>2, TwoActors
  <1>4. CASE StartRecover
    BY <1>1, <1>2, <1>4 DEF StartRecover, Goto
  <1>5. CASE StartHub \/ CreateMarker \/ InitServices
    BY <1>1, <1>2, <1>5 DEF StartHub, CreateMarker, InitServices, Fail, Goto
  <1>6. CASE SaveBackup \/ WriteBackup \/ WritePac
    BY <1>1, <1>2, <1>6 DEF SaveBackup, WriteBackup, WritePac, Fail, Goto
  <1>7. CASE StopHub \/ DropHub
    <2>1. /\ nth'["hub"] = 1 /\ pc'["hub"] = (IF guarded THEN "restore" ELSE "unmark")
          /\ guarded' = guarded
      BY <1>2, <1>7 DEF StopHub, DropHub, Goto
    <2>2. \A i \in 1..4 : ~(i < 1)
      OBVIOUS
    <2> QED
      BY <2>1, <2>2 DEF WrittenBack
  <1>8. CASE WriteSavedState
    <2>1. os' = os
      BY <1>8 DEF WriteSavedState, Fail
    <2> QED
      BY <1>8, <2>1, WriteBack
  <1>9. CASE DeleteBackup
    BY <1>2, <1>9 DEF DeleteBackup, Goto, WrittenBack
  <1>10. CASE RemoveMarker \/ Exit
    BY <1>1, <1>2, <1>10 DEF RemoveMarker, Exit, Reset, Fail, Goto
  <1>11. CASE UNCHANGED vars
    BY <1>11 DEF vars, WrittenBack, Fields
  <1> QED
    BY <1>1, <1>3, <1>4, <1>5, <1>6, <1>7, <1>8, <1>9, <1>10, <1>11 DEF Next, Hub, Finished

-----------------------------------------------------------------------------
(* The invariant holds *)

\* The user runs hub and recover one at a time, or does not.
LEMMA AloneNext == Types /\ Alone /\ [Next]_vars => Alone' /\ UNCHANGED <<os, wanted, beside>>
  <1> SUFFICES ASSUME Types, Alone, [Next]_vars PROVE Alone' /\ UNCHANGED <<os, wanted, beside>>
    OBVIOUS
  <1> USE DEF disk, memory, ghost, counters
  <1>1. pc \in [Actors -> Labels] /\ "hub" \in Actors /\ "cli" \in Actors
    BY TwoActors DEF Types, Labels
  <1>2. ASSUME NEW a \in Actors, Recovery(a)
        PROVE  /\ UNCHANGED <<os, wanted, beside>> /\ pc[a] # "down"
               /\ \A b \in Actors : b # a => pc'[b] = pc[b]
    BY <1>1, <1>2 DEF Recovery, RecoverRead, RecoverWrite, RecoverDelete, RecoverGit,
       RecoverCleanup, RecoverMarker, Fail, Goto
  <1>3. ASSUME NEW a \in Actors, Crash(a)
        PROVE  /\ UNCHANGED <<os, wanted, beside>> /\ pc[a] # "down"
               /\ \A b \in Actors : b # a => pc'[b] = pc[b]
    BY <1>1, <1>3 DEF Crash, Reset, Goto
  <1>4. ASSUME NEW a \in Actors, Recovery(a) \/ Crash(a)
        PROVE  Alone' /\ UNCHANGED <<os, wanted, beside>>
    BY <1>1, <1>2, <1>3, <1>4, TwoActors DEF Alone
  <1>5. CASE Hub
    <2>1. UNCHANGED <<os, wanted, beside>> /\ pc'["cli"] = pc["cli"]
      BY <1>1, <1>5 DEF Hub, StartHub, CreateMarker, InitServices, SaveBackup, WriteBackup,
         WritePac, StopHub, DropHub, WriteSavedState, DeleteBackup, RemoveMarker, Exit, Reset,
         Fail, Goto
    <2>2. beside \/ pc["cli"] = "down"
      BY <1>5 DEF Hub, Alone, CreateMarker, InitServices, SaveBackup, WriteBackup,
         WritePac, StopHub, DropHub, WriteSavedState, DeleteBackup, RemoveMarker, Exit
    <2> QED
      BY <2>1, <2>2 DEF Alone
  <1>6. CASE StartRecover
    BY <1>1, <1>6 DEF StartRecover, Goto, Alone
  <1>7. CASE UNCHANGED vars
    BY <1>7 DEF vars, Alone
  <1> QED
    BY <1>4, <1>5, <1>6, <1>7 DEF Next, Finished

\* Nothing is changed yet.
LEMMA InvInit == Init => Inv
  <1> SUFFICES ASSUME Init PROVE Inv
    OBVIOUS
  <1>1. /\ os \in {"windows", "macos"} /\ wanted \in [Names -> UserValues] /\ registry = wanted
        /\ bak = Missing /\ ~marker /\ ~guarded /\ ~crashed /\ fails = 0
        /\ pc = [a \in Actors |-> "down"] /\ nth = [a \in Actors |-> 1]
        /\ loaded = [a \in Actors |-> Missing]
    BY LifecycleConstants DEF Init, Names
  <1>2. \A a \in Actors : pc[a] = "down" /\ nth[a] = 1 /\ loaded[a] = Missing
    BY <1>1
  <1>3. Restored
    <2>1. \A f \in Names : wanted[f] # "ours"
      BY <1>1, LifecycleConstants
    <2> QED
      BY <1>1, <2>1 DEF Restored, Fixed
  <1>4. Types
    <2>1. wanted \in [Names -> Values]
      BY <1>1 DEF Values
    <2> QED
      BY <1>1, <1>2, <2>1, TwoActors DEF Types, Unwritten
  <1>5. Safe /\ WrittenBack /\ Alone
    BY <1>1, <1>2, <1>3, TwoActors DEF Safe, Session, HubSession, Sheltered, Orderly,
       WrittenBack, Alone, RecoveryLabels
  <1> QED
    BY <1>4, <1>5 DEF Inv, Safe

\* Every step keeps the invariant.
LEMMA InvNext == Inv /\ [Next]_vars => Inv'
  <1> SUFFICES ASSUME Inv, [Next]_vars PROVE Inv'
    OBVIOUS
  <1>1. Types /\ Alone /\ Safe /\ (os = "windows" /\ ~beside => WrittenBack)
    BY DEF Inv, Safe
  <1>2. Types' /\ Alone' /\ UNCHANGED <<os, wanted, beside>>
    BY <1>1, TypesNext, AloneNext
  <1>3. os' = "windows" /\ ~beside' => WrittenBack'
    BY <1>1, <1>2, WrittenBackNext
  <1>4. Safe'
    BY <1>1, <1>2, SafeRecovery, SafeHub, SafeCrash, SafeRecover, SafeStutter DEF Next, Finished
  <1> QED
    BY <1>2, <1>3, <1>4 DEF Inv, Safe

\* The inductive invariant: types, one actor at a time unless the user does otherwise,
\* and what ties settings, backup, marker and the guard's memory together.
THEOREM InvariantHolds == Spec => []Inv
  BY InvInit, InvNext, PTL DEF Spec

-----------------------------------------------------------------------------
(* The properties *)

\* A backup is good when the properties say so.
LEMMA GoodIs == BackupGood <=> bak = GoodBackup
  BY DEF BackupGood, GoodBackup

\* The settings a crash of hub.rs, shutdown.rs or a ProxyGuard leaves changed come
\* with the marker and the backup that the next start recovers from, whatever the
\* user's settings and however many sessions, crashes and recoveries went before.
THEOREM ChangedIsRecoverable == Spec => []Recoverable
  <1>1. Inv => Recoverable
    BY RestoredIs, GoodIs DEF Inv, Sheltered, Recoverable
  <1> QED
    BY <1>1, InvariantHolds, PTL

\* HakimiHub::start sets nothing up before recover_all has given the user's settings
\* back: what set_proxy saves as the user's is the user's.
THEOREM RecoveryComesFirst == Spec => []RecoveredBeforeSetup
  <1>1. Inv => RecoveredBeforeSetup
    BY RestoredIs DEF Inv, Regular, Session, HubSession, RecoveredBeforeSetup
  <1> QED
    BY <1>1, InvariantHolds, PTL

\* A stop that goes on to remove the crash marker has written back every value the
\* guard had saved (windows.rs), however many writes failed before; on macOS, without
\* failures, none of our PAC URLs is left.
THEOREM StopWritesBack == Spec => []CleanStopRestores
  <1>1. Inv => CleanStopRestores
    <2> SUFFICES ASSUME Inv, ~beside, pc["hub"] = "unmark", guarded, ~dying
                 PROVE  IF os = "windows" THEN registry = saved ELSE fails = 0 => NoPac
      BY DEF CleanStopRestores
    <2>1. CASE os = "windows"
      BY <2>1 DEF Inv, WrittenBack
    <2>2. CASE os # "windows"
      BY <2>2, RestoredIs DEF Inv, Regular, Session, HubSession
    <2> QED
      BY <2>1, <2>2
  <1> QED
    BY <1>1, InvariantHolds, PTL

\* recover commands at any moment of any session, without crash or failure, leave the
\* user's settings in force once everybody has ended.
THEOREM RecoverDoesNoHarm == Spec => []QuietMeansRestored
  <1>1. Inv => QuietMeansRestored
    BY RestoredIs, TwoActors DEF Inv, Orderly, QuietMeansRestored, NobodyRuns
  <1> QED
    BY <1>1, InvariantHolds, PTL

-----------------------------------------------------------------------------
(* The lock that `start` takes before all this: SingleInstance *)

\* A process has its file locked exactly from a successful flock until it
\* releases it; nobody has a file open that was not created; until a file is
\* unlinked that somebody has open, every open file is the one at the path; and
\* until a start empties the file of a running hub, that file holds its PID.
Open == {"flock", "write", "running", "unlock"}

LockInv ==
  /\ \A p \in Procs : doing[p] \in Open => fd[p] \in 1..inodes
  /\ \A p \in Procs : doing[p] \in {"write", "running", "unlock"} => flock[fd[p]] = p
  /\ \A p \in Procs : doing[p] = "act" => seen[p] \in Procs
  /\ path <= inodes

PathInv ==
  /\ ~orphaned => \A p \in Procs : doing[p] \in Open => fd[p] = path
  /\ ~truncated => \A p \in Procs : doing[p] = "running" => content[fd[p]] = p

InstanceInv == TypeOK /\ LockInv /\ PathInv

\* No process runs at first.
LEMMA InstanceInvInit == LockInit => InstanceInv
  <1> SUFFICES ASSUME LockInit PROVE InstanceInv
    OBVIOUS
  <1>1. TypeOK
    <2>1. 0 \in 0..MaxInodes
      BY InstanceConstants
    <2>2. /\ content \in [Inodes -> Procs \cup {NoProc}]
          /\ flock \in [Inodes -> Procs \cup {NoProc}]
          /\ fd \in [Procs -> 0..MaxInodes]
      BY <2>1 DEF LockInit
    <2> QED BY <2>1, <2>2 DEF LockInit, TypeOK, Doings
  <1>2. LockInv /\ PathInv
    BY DEF LockInit, LockInv, PathInv, Open
  <1> QED BY <1>1, <1>2 DEF InstanceInv

\* The death of p takes no lock from anybody else.
LEMMA DiedFacts ==
  ASSUME TypeOK, NEW p \in Procs
  PROVE  /\ Died(p) \in [Inodes -> Procs \cup {NoProc}]
         /\ \A i \in Inodes : flock[i] # p => Died(p)[i] = flock[i]
  BY DEF TypeOK, Died

\* A step keeps LockInv and PathInv if nobody new has a file open, nobody starts
\* to run and nobody who goes on loses the lock.
LEMMA OthersKeep ==
  ASSUME InstanceInv, UNCHANGED <<path, inodes, content, history>>,
         \A q \in Procs : doing'[q] \in Open => doing[q] \in Open /\ fd'[q] = fd[q],
         \A q \in Procs : doing'[q] \in {"write", "running", "unlock"} =>
                            flock'[fd'[q]] = q,
         \A q \in Procs : doing'[q] = "running" => doing[q] = "running",
         \A q \in Procs : doing'[q] = "act" => seen'[q] \in Procs
  PROVE  LockInv' /\ PathInv'
  <1>1. LockInv' BY DEF InstanceInv, LockInv
  <1>2. (~orphaned => \A q \in Procs : doing[q] \in Open => fd[q] = path)'
    BY DEF InstanceInv, PathInv, history
  <1>3. (~truncated => \A q \in Procs : doing[q] = "running" => content[fd[q]] = q)'
    BY DEF InstanceInv, PathInv, history, Open
  <1> QED BY <1>1, <1>2, <1>3 DEF PathInv

\* The types.
LEMMA InstanceTypeStep == InstanceInv /\ [LockNext]_lockVars => TypeOK'
  <1> SUFFICES ASSUME InstanceInv, [LockNext]_lockVars PROVE TypeOK'
    OBVIOUS
  <1> USE InstanceConstants
      DEF InstanceInv, TypeOK, LockInv, Open, Inodes, Doings, Proceed, fileVars, history, Alive
  <1>1. ASSUME NEW p \in Procs, NEW c \in Commands, Launch(p, c) PROVE TypeOK'
    BY <1>1 DEF Launch
  <1>2. ASSUME NEW p \in Procs, TryLockCreate(p) PROVE TypeOK'
    <2>1. /\ path' \in 0..MaxInodes /\ inodes' \in 0..MaxInodes
          /\ fd' \in [Procs -> 0..MaxInodes]
      <3>1. CASE path # 0 /\ fd' = [fd EXCEPT ![p] = path] /\ UNCHANGED <<path, inodes>>
        BY <3>1
      <3>2. CASE /\ inodes < MaxInodes /\ inodes' = inodes + 1 /\ path' = inodes + 1
                 /\ fd' = [fd EXCEPT ![p] = inodes + 1]
        <4>1. inodes + 1 \in 0..MaxInodes
          BY <3>2
        <4> QED BY <3>2, <4>1
      <3> QED BY <1>2, <3>1, <3>2 DEF TryLockCreate
    <2>2. content' \in [Inodes -> Procs \cup {NoProc}]
      BY <1>2 DEF TryLockCreate
    <2>3. doing' \in [Procs -> Doings]
      BY <1>2 DEF TryLockCreate
    <2>4. truncated' \in BOOLEAN
      BY <1>2 DEF TryLockCreate
    <2> QED BY <1>2, <2>1, <2>2, <2>3, <2>4 DEF TryLockCreate
  <1>3. ASSUME NEW p \in Procs, TryLockFlock(p) PROVE TypeOK'
    <2>1. fd[p] \in Inodes
      BY <1>3 DEF TryLockFlock
    <2>2. flock' \in [Inodes -> Procs \cup {NoProc}]
      <3>1. flock' \in {flock, [flock EXCEPT ![fd[p]] = p]} BY <1>3 DEF TryLockFlock
      <3> HIDE DEF Inodes
      <3> QED BY <2>1, <3>1
    <2>3. doing' \in [Procs -> Doings]
      BY <1>3 DEF TryLockFlock
    <2>4. fd' \in [Procs -> 0..MaxInodes]
      <3>1. fd' \in {fd, [fd EXCEPT ![p] = 0]} /\ 0 \in 0..MaxInodes
        BY <1>3 DEF TryLockFlock
      <3> QED BY <3>1
    <2> QED BY <1>3, <2>2, <2>3, <2>4 DEF TryLockFlock
  <1>4. ASSUME NEW p \in Procs, TryLockWrite(p) PROVE TypeOK'
    BY <1>4 DEF TryLockWrite
  <1>5. ASSUME NEW p \in Procs, Signal(p) PROVE TypeOK'
    BY <1>5 DEF Signal
  <1>6. ASSUME NEW p \in Procs, ReleaseUnlock(p) PROVE TypeOK'
    BY <1>6 DEF ReleaseUnlock
  <1>7. ASSUME NEW p \in Procs, RemovePidFile(p) PROVE TypeOK'
    BY <1>7 DEF RemovePidFile
  <1>8. ASSUME NEW p \in Procs, ReadPidFile(p) PROVE TypeOK'
    <2>1. path = 0 \/ path \in Inodes OBVIOUS
    <2>2. seen' \in [Procs -> Procs \cup {NoProc}] /\ doing' \in [Procs -> Doings]
      BY <1>8, <2>1 DEF ReadPidFile
    <2> QED BY <1>8, <2>2 DEF ReadPidFile
  <1>9. ASSUME NEW p \in Procs, StatusCheck(p) PROVE TypeOK'
    BY <1>9 DEF StatusCheck
  <1>10. ASSUME NEW p \in Procs, StopKill(p) PROVE TypeOK'
    <2> DEFINE q == seen[p]
    <2>1. q \in Procs /\ Died(q) \in [Inodes -> Procs \cup {NoProc}]
      BY <1>10, DiedFacts DEF StopKill
    <2>2. /\ flock' \in [Inodes -> Procs \cup {NoProc}] /\ doing' \in [Procs -> Doings]
          /\ fd' \in [Procs -> 0..MaxInodes]
      <3>1. /\ flock' \in {flock, Died(q)}
            /\ fd' \in {fd, [fd EXCEPT ![q] = 0]}
        BY <1>10 DEF StopKill
      <3>2. [doing EXCEPT ![p] = "gone"] \in [Procs -> Doings] OBVIOUS
      <3>3. doing' \in [Procs -> Doings]
        BY <1>10, <2>1, <3>2 DEF StopKill
      <3>4. 0 \in 0..MaxInodes OBVIOUS
      <3>5. fd' \in [Procs -> 0..MaxInodes] BY <2>1, <3>1, <3>4
      <3> QED BY <2>1, <3>1, <3>3, <3>5
    <2> QED BY <1>10, <2>2 DEF StopKill
  <1>11. ASSUME NEW p \in Procs, Dies(p) PROVE TypeOK'
    BY <1>11, DiedFacts DEF Dies
  <1>12. CASE UNCHANGED lockVars
    BY <1>12 DEF lockVars
  <1> QED
    BY <1>1, <1>2, <1>3, <1>4, <1>5, <1>6, <1>7, <1>8, <1>9, <1>10, <1>11, <1>12
       DEF LockNext, ProcStep, AllLaunched

\* The death of q, whatever it was doing.
LEMMA DeathKeeps ==
  ASSUME InstanceInv, NEW q \in Procs, flock' = Died(q), fd' = [fd EXCEPT ![q] = 0],
         UNCHANGED <<path, inodes, content, seen, history>>,
         doing'[q] = "gone", \A r \in Procs \ {q} : doing'[r] \in {doing[r], "gone"}
  PROVE  LockInv' /\ PathInv'
  <1>1. \A i \in Inodes : flock[i] # q => Died(q)[i] = flock[i]
    BY DiedFacts DEF InstanceInv
  <1>2. ASSUME NEW r \in Procs, doing'[r] # "gone"
        PROVE  r # q /\ doing'[r] = doing[r] /\ fd'[r] = fd[r]
    BY <1>2 DEF InstanceInv, TypeOK
  <1>3. ASSUME NEW r \in Procs, doing'[r] \in {"write", "running", "unlock"}
        PROVE  flock'[fd'[r]] = r
    <2>1. r # q /\ doing'[r] = doing[r] /\ fd'[r] = fd[r] BY <1>2, <1>3
    <2>2. flock[fd[r]] = r /\ fd[r] \in Inodes
      BY <1>3, <2>1, InstanceConstants DEF InstanceInv, LockInv, TypeOK, Open, Inodes
    <2> QED BY <1>1, <2>1, <2>2
  <1>4. \A r \in Procs : doing'[r] \in Open => doing[r] \in Open /\ fd'[r] = fd[r]
    BY <1>2 DEF Open
  <1>5. \A r \in Procs : doing'[r] = "running" => doing[r] = "running"
    BY <1>2
  <1>6. \A r \in Procs : doing'[r] = "act" => seen'[r] \in Procs
    BY <1>2 DEF InstanceInv, LockInv
  <1> QED BY <1>3, <1>4, <1>5, <1>6, OthersKeep

\* The steps that touch the file at the path.
LEMMA FileStep ==
  ASSUME InstanceInv, NEW p \in Procs, TryLockCreate(p) \/ TryLockWrite(p) \/ RemovePidFile(p)
  PROVE  LockInv' /\ PathInv'
  <1> USE InstanceConstants DEF InstanceInv, TypeOK, Proceed, Open, Inodes, history
  <1>1. CASE TryLockCreate(p)
    <2>1. /\ doing[p] = "create" /\ doing' = [doing EXCEPT ![p] = "flock"]
          /\ UNCHANGED <<flock, seen, orphaned>>
          /\ truncated' = (truncated \/ \E q \in Procs : doing[q] = "running" /\ fd[q] = path)
      BY <1>1 DEF TryLockCreate
    <2>2. CASE /\ path # 0 /\ content' = [content EXCEPT ![path] = NoProc]
               /\ fd' = [fd EXCEPT ![p] = path] /\ UNCHANGED <<path, inodes>>
      <3>1. LockInv' BY <2>1, <2>2 DEF LockInv
      <3>2. (~orphaned => \A q \in Procs : doing[q] \in Open => fd[q] = path)'
        BY <2>1, <2>2 DEF PathInv
      <3>3. ASSUME ~truncated', NEW q \in Procs, doing'[q] = "running"
            PROVE  content'[fd'[q]] = q
        <4>1. q # p /\ doing[q] = "running" /\ fd'[q] = fd[q] BY <2>1, <2>2, <3>3
        <4>2. fd[q] # path /\ content[fd[q]] = q BY <2>1, <3>3, <4>1 DEF PathInv
        <4>3. fd[q] \in Inodes BY <4>1 DEF LockInv
        <4> QED BY <2>2, <4>1, <4>2, <4>3
      <3> QED BY <3>1, <3>2, <3>3 DEF PathInv
    <2>3. CASE /\ path = 0 /\ inodes' = inodes + 1 /\ path' = inodes + 1
               /\ fd' = [fd EXCEPT ![p] = inodes + 1] /\ UNCHANGED content
      <3>1. LockInv' BY <2>1, <2>3 DEF LockInv
      <3>2. ASSUME ~orphaned', NEW q \in Procs, doing'[q] \in Open PROVE fd'[q] = path'
        <4>1. CASE q = p BY <2>3, <4>1
        <4>2. CASE q # p
          <5>1. doing[q] \in Open BY <2>1, <3>2, <4>2
          <5>2. fd[q] = 0 /\ fd[q] \in 1..inodes
            BY <2>1, <2>3, <3>2, <5>1 DEF PathInv, LockInv
          <5> QED BY <5>2
        <4> QED BY <4>1, <4>2
      <3>3. ASSUME ~truncated', NEW q \in Procs, doing'[q] = "running"
            PROVE  content'[fd'[q]] = q
        BY <2>1, <2>3, <3>3 DEF PathInv
      <3> QED BY <3>1, <3>2, <3>3 DEF PathInv
    <2> QED BY <1>1, <2>2, <2>3 DEF TryLockCreate
  <1>2. CASE TryLockWrite(p)
    <2>1. /\ doing[p] = "write" /\ content' = [content EXCEPT ![fd[p]] = p]
          /\ doing' = [doing EXCEPT ![p] = "running"]
          /\ UNCHANGED <<path, inodes, flock, fd, seen, orphaned, truncated>>
      BY <1>2 DEF TryLockWrite
    <2>2. LockInv' BY <2>1 DEF LockInv
    <2>3. (~orphaned => \A q \in Procs : doing[q] \in Open => fd[q] = path)'
      BY <2>1 DEF PathInv
    <2>4. ASSUME ~truncated', NEW q \in Procs, doing'[q] = "running"
          PROVE  content'[fd'[q]] = q
      <3>1. fd[p] \in Inodes /\ flock[fd[p]] = p BY <2>1 DEF LockInv
      <3>2. CASE q = p BY <2>1, <3>1, <3>2
      <3>3. CASE q # p
        <4>1. doing[q] = "running" BY <2>1, <2>4, <3>3
        <4>2. fd[q] \in Inodes /\ flock[fd[q]] = q /\ content[fd[q]] = q
          BY <2>1, <2>4, <4>1 DEF LockInv, PathInv
        <4>3. fd[q] # fd[p] BY <3>1, <3>3, <4>2
        <4> QED BY <2>1, <4>2, <4>3
      <3> QED BY <3>2, <3>3
    <2> QED BY <2>2, <2>3, <2>4 DEF PathInv
  <1>3. CASE RemovePidFile(p)
    <2>1. /\ doing' = [doing EXCEPT ![p] = "gone"] /\ path' = 0
          /\ UNCHANGED <<inodes, content, flock, fd, seen, truncated>>
          /\ orphaned' = (orphaned \/ (path # 0 /\ \E q \in Procs : fd[q] = path))
      BY <1>3 DEF RemovePidFile
    <2>2. LockInv' BY <2>1 DEF LockInv
    <2>3. ASSUME ~orphaned', NEW q \in Procs, doing'[q] \in Open PROVE FALSE
      <3>1. doing[q] \in Open BY <2>1, <2>3
      <3>2. fd[q] = path /\ fd[q] # 0 BY <2>1, <2>3, <3>1 DEF PathInv, LockInv
      <3> QED BY <2>1, <2>3, <3>2
    <2>4. (~truncated => \A q \in Procs : doing[q] = "running" => content[fd[q]] = q)'
      BY <2>1 DEF PathInv
    <2> QED BY <2>2, <2>3, <2>4 DEF PathInv
  <1> QED BY <1>1, <1>2, <1>3

\* Every step preserves the invariant.
LEMMA InstanceInvStep == InstanceInv /\ [LockNext]_lockVars => InstanceInv'
  <1> SUFFICES ASSUME InstanceInv, [LockNext]_lockVars PROVE LockInv' /\ PathInv'
    BY InstanceTypeStep DEF InstanceInv
  <1> USE InstanceConstants
  <1>0. /\ TypeOK /\ LockInv BY DEF InstanceInv
  <1>1. ASSUME NEW p \in Procs, NEW c \in Commands, Launch(p, c)
        PROVE  LockInv' /\ PathInv'
    <2>1. /\ \E l \in {"create", "read"} : doing' = [doing EXCEPT ![p] = l]
          /\ UNCHANGED <<path, inodes, content, flock, fd, seen, history>>
      BY <1>1 DEF Launch, Proceed, fileVars
    <2> QED BY <1>0, <2>1, OthersKeep DEF TypeOK, LockInv, Open
  <1>2. ASSUME NEW p \in Procs, TryLockFlock(p) PROVE LockInv' /\ PathInv'
    <2>1. doing[p] = "flock" /\ fd[p] \in Inodes
      BY <1>0, <1>2 DEF TryLockFlock, TypeOK, LockInv, Open, Inodes
    <2>2. CASE flock[fd[p]] = NoProc
      <3>1. /\ flock' = [flock EXCEPT ![fd[p]] = p] /\ doing' = [doing EXCEPT ![p] = "write"]
            /\ UNCHANGED <<fd, path, inodes, content, seen, history>>
        BY <1>2, <2>2 DEF TryLockFlock, Proceed
      <3>2. ASSUME NEW q \in Procs, doing'[q] \in {"write", "running", "unlock"}
            PROVE  flock'[fd'[q]] = q
        <4>1. CASE q = p BY <1>0, <2>1, <3>1, <4>1 DEF TypeOK
        <4>2. CASE q # p
          <5>1. flock[fd[q]] = q /\ fd[q] \in Inodes
            BY <1>0, <3>1, <3>2, <4>2 DEF TypeOK, LockInv, Open, Inodes
          <5>2. fd[q] # fd[p] BY <2>2, <5>1
          <5> QED BY <1>0, <3>1, <5>1, <5>2 DEF TypeOK
        <4> QED BY <4>1, <4>2
      <3> QED BY <1>0, <2>1, <3>1, <3>2, OthersKeep DEF TypeOK, LockInv, Open
    <2>3. CASE flock[fd[p]] # NoProc
      <3>1. /\ fd' = [fd EXCEPT ![p] = 0] /\ doing' = [doing EXCEPT ![p] = "gone"]
            /\ UNCHANGED <<flock, path, inodes, content, seen, history>>
        BY <1>2, <2>3 DEF TryLockFlock, Proceed
      <3> QED BY <1>0, <3>1, OthersKeep DEF TypeOK, LockInv, Open
    <2> QED BY <2>2, <2>3
  <1>3. ASSUME NEW p \in Procs, Signal(p) PROVE LockInv' /\ PathInv'
    <2>1. /\ doing[p] = "running" /\ doing' = [doing EXCEPT ![p] = "unlock"]
          /\ UNCHANGED <<flock, fd, path, inodes, content, seen, history>>
      BY <1>3 DEF Signal, Proceed, fileVars
    <2> QED BY <1>0, <2>1, OthersKeep DEF TypeOK, LockInv, Open
  <1>4. ASSUME NEW p \in Procs, ReleaseUnlock(p) PROVE LockInv' /\ PathInv'
    <2>1. /\ doing[p] = "unlock" /\ doing' = [doing EXCEPT ![p] = "unlink"]
          /\ flock' = [flock EXCEPT ![fd[p]] = NoProc] /\ fd' = [fd EXCEPT ![p] = 0]
          /\ UNCHANGED <<path, inodes, content, seen, history>>
      BY <1>4 DEF ReleaseUnlock, Proceed
    <2>2. ASSUME NEW q \in Procs, doing'[q] \in {"write", "running", "unlock"}
          PROVE  flock'[fd'[q]] = q
      <3>1. q # p /\ doing[q] = doing'[q] /\ fd'[q] = fd[q] BY <1>0, <2>1, <2>2 DEF TypeOK
      <3>2. flock[fd[q]] = q /\ fd[q] \in Inodes /\ flock[fd[p]] = p
        BY <1>0, <2>1, <2>2, <3>1 DEF TypeOK, LockInv, Open, Inodes
      <3>3. fd[q] # fd[p] BY <3>1, <3>2
      <3> QED BY <1>0, <2>1, <3>1, <3>2, <3>3 DEF TypeOK
    <2> QED BY <1>0, <2>1, <2>2, OthersKeep DEF TypeOK, LockInv, Open
  <1>5. ASSUME NEW p \in Procs, ReadPidFile(p) PROVE LockInv' /\ PathInv'
    <2>1. /\ seen' = [seen EXCEPT ![p] = IF path = 0 THEN NoProc ELSE content[path]]
          /\ doing' = [doing EXCEPT ![p] = IF path = 0 THEN "gone"
                                     ELSE IF content[path] = NoProc THEN "unlink" ELSE "act"]
          /\ UNCHANGED <<flock, fd, path, inodes, content, history>>
      BY <1>5 DEF ReadPidFile, Proceed, fileVars
    <2>2. path = 0 \/ content[path] \in Procs \cup {NoProc}
      BY <1>0 DEF TypeOK, Inodes
    <2> QED BY <1>0, <2>1, <2>2, OthersKeep DEF TypeOK, LockInv, Open
  <1>6. ASSUME NEW p \in Procs, StatusCheck(p) PROVE LockInv' /\ PathInv'
    <2>1. /\ \E l \in {"gone", "unlink"} : doing' = [doing EXCEPT ![p] = l]
          /\ UNCHANGED <<path, inodes, content, flock, fd, seen, history>>
      BY <1>6 DEF StatusCheck, Proceed, fileVars
    <2> QED BY <1>0, <2>1, OthersKeep DEF TypeOK, LockInv, Open
  <1>7. ASSUME NEW p \in Procs, StopKill(p) PROVE LockInv' /\ PathInv'
    <2> DEFINE q == seen[p]
    <2>1. /\ q \in Procs /\ doing[p] = "act"
          /\ UNCHANGED <<path, inodes, content, seen, history>>
      BY <1>0, <1>7 DEF StopKill, LockInv
    <2>2. CASE doing[q] \in {"running", "unlock", "unlink"}
      <3>1. /\ UNCHANGED <<flock, fd>>
            /\ \E l \in {"unlock", "unlink"} :
                 /\ doing' = [doing EXCEPT ![p] = "gone", ![q] = l]
                 /\ l = "unlock" => doing[q] \in {"running", "unlock"}
        BY <1>0, <1>7, <2>1, <2>2 DEF StopKill, TypeOK
      <3>2. /\ doing'[p] = "gone" /\ doing'[q] \in {"unlock", "unlink"}
            /\ doing'[q] = "unlock" => doing[q] \in {"running", "unlock"}
            /\ \A r \in Procs \ {p, q} : doing'[r] = doing[r]
        BY <1>0, <2>1, <2>2, <3>1 DEF TypeOK
      <3> QED BY <1>0, <2>1, <3>1, <3>2, OthersKeep DEF LockInv, Open
    <2>3. CASE doing[q] \notin {"running", "unlock", "unlink"}
      <3>1. /\ doing' = [doing EXCEPT ![p] = "gone", ![q] = "gone"]
            /\ flock' = Died(q) /\ fd' = [fd EXCEPT ![q] = 0]
        BY <1>0, <1>7, <2>1, <2>3 DEF StopKill, TypeOK
      <3>2. doing'[q] = "gone" /\ \A r \in Procs \ {q} : doing'[r] \in {doing[r], "gone"}
        BY <1>0, <2>1, <3>1 DEF TypeOK
      <3> QED BY <2>1, <3>1, <3>2, DeathKeeps
    <2> QED BY <2>2, <2>3
  <1>8. ASSUME NEW p \in Procs, Dies(p) PROVE LockInv' /\ PathInv'
    <2>1. /\ flock' = Died(p) /\ fd' = [fd EXCEPT ![p] = 0]
          /\ UNCHANGED <<path, inodes, content, seen, history>>
          /\ doing' = [doing EXCEPT ![p] = "gone"]
      BY <1>8 DEF Dies, Proceed
    <2>2. doing'[p] = "gone" /\ \A r \in Procs \ {p} : doing'[r] \in {doing[r], "gone"}
      BY <1>0, <2>1 DEF TypeOK
    <2> QED BY <2>1, <2>2, DeathKeeps
  <1>9. CASE UNCHANGED lockVars
    BY <1>9 DEF lockVars, fileVars, history, InstanceInv, LockInv, PathInv
  <1> QED
    BY <1>1, <1>2, <1>3, <1>4, <1>5, <1>6, <1>7, <1>8, <1>9, FileStep
       DEF LockNext, ProcStep, AllLaunched

\* For any number of processes starting, stopping, crashing and asking for the
\* status: as long as no file is unlinked that a hub or a start has open,
\* acquire_single_instance lets at most one instance run.  Two running instances
\* would hold the lock of the one file at the path.
THEOREM InstanceExclusive == LockSpec => []ExclusiveUntilOrphaned
  <1>1. InstanceInv => ExclusiveUntilOrphaned
    BY DEF InstanceInv, LockInv, PathInv, Open, ExclusiveUntilOrphaned, MutualExclusion, Instances
  <1> QED BY <1>1, InstanceInvInit, InstanceInvStep, PTL DEF LockSpec

\* Under the same condition, and until a second start has emptied the PID file,
\* `stop` finds the running hub in it.
THEOREM StopReachesInstance == LockSpec => []StopFindsInstance
  <1>1. InstanceInv => StopFindsInstance
    BY DEF InstanceInv, LockInv, PathInv, Open, StopFindsInstance
  <1> QED BY <1>1, InstanceInvInit, InstanceInvStep, PTL DEF LockSpec

=============================================================================
