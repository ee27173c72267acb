---------------------------- MODULE ReleaseProofs ----------------------------
(***************************************************************************)
(* Proofs about Release, for any number of runs, faults and writes.        *)
(***************************************************************************)
EXTENDS Release, TLAPS

-----------------------------------------------------------------------------
(* The inductive invariants. *)

\* The phases in which a step of the script or of the recovery is taken.
PhaseInv ==
  /\ pc \in {"precheck", "stopTimer", "record", "merge", "build", "preflight"}
       => phase = "PRECHECK"
  /\ pc = "setEnv" => phase = "ENV_READY"
  /\ pc \in {"stopTunnel", "stopApp", "finalStatus", "finalBackup"} => phase = "QUIESCING"
  /\ pc \in {"releaseCheck", "upNew", "localChecks", "stopFailed", "moveDb", "installDb"}
       => phase = "VALIDATING"
  /\ pc \in {"openTunnel", "publicChecks"} => phase = "LOCAL_HEALTHY"
  /\ pc = "env" => phase \in {"ENV_READY", "QUIESCING", "VALIDATING"}
  /\ pc \in {"version", "up"} => phase \in {"QUIESCING", "VALIDATING"}
  /\ pc = "checkout" => phase \in {"PRECHECK", "ENV_READY", "QUIESCING", "VALIDATING"}
  /\ pc = "reopen" => phase \in {"QUIESCING", "VALIDATING", "LOCAL_HEALTHY"}

\* Where the database on the host is known to hold every accepted write, ...
Current ==
  \/ pc \in {"stopTimer", "record", "merge", "build", "preflight", "setEnv",
             "stopTunnel", "stopApp", "finalStatus", "finalBackup",
             "releaseCheck", "upNew", "localChecks", "openTunnel", "publicChecks", "reopen"}
  \/ pc = "recover" /\ phase \in {"ENV_READY", "QUIESCING", "LOCAL_HEALTHY"}
  \/ pc = "env"
  \/ pc \in {"version", "checkout", "up"} /\ phase # "PRECHECK"

\* ... and where the tunnel is closed, because the writes may be elsewhere ...
Closed ==
  \/ pc \in {"stopApp", "finalStatus", "finalBackup", "releaseCheck", "upNew", "localChecks"}
  \/ pc = "recover" /\ phase = "VALIDATING"
  \/ pc \in {"stopFailed", "moveDb", "installDb"}
  \/ pc \in {"env", "version", "checkout", "up"} /\ phase = "VALIDATING"

\* ... namely in the backup.
BackedUp ==
  \/ pc \in {"releaseCheck", "upNew", "localChecks", "stopFailed", "moveDb", "installDb"}
  \/ pc = "recover" /\ phase = "VALIDATING"

WritesInv ==
  /\ host.tunnel => host.db.writes = accepted
  /\ Current => host.db.writes = accepted
  /\ Closed => ~host.tunnel
  /\ BackedUp => saved.db.writes = accepted

\* From the recording of the old image to the moment it may be started again.
Recorded ==
  \/ pc \in {"merge", "build", "preflight", "setEnv", "stopTunnel", "stopApp",
             "finalStatus", "finalBackup", "releaseCheck", "upNew", "localChecks",
             "stopFailed", "moveDb", "installDb", "env", "version", "up"}
  \/ pc \in {"recover", "checkout"} /\ phase \in {"ENV_READY", "QUIESCING", "VALIDATING"}

OldImage == host.tags[<<saved.checkout, "rollback">>]

\* No image runs: the new release may open the database, or has been stopped.
Stopped ==
  \/ pc \in {"finalStatus", "finalBackup", "releaseCheck", "upNew", "moveDb", "installDb"}
  \/ pc \in {"env", "version", "checkout", "up"} /\ phase = "VALIDATING"

ImagesInv ==
  /\ Paired
  /\ host.image = New => host.tags[host.env] = New
  /\ pc \in {"stopTimer", "record"} => host.image # NoImage
  /\ pc \in {"preflight", "setEnv", "stopTunnel", "stopApp", "finalStatus",
             "finalBackup", "releaseCheck", "upNew"} => host.tags[<<New, "build">>] = New
  /\ pc \in {"stopTunnel", "stopApp", "finalStatus", "finalBackup", "releaseCheck", "upNew"}
       => host.env = <<New, "build">>
  /\ Stopped => host.image = NoImage
  /\ Recorded =>
       IF OldImage = New
       THEN host.tags[saved.env] = New /\ host.tags[host.env] = New
       ELSE /\ phase = "VALIDATING" => New \notin saved.db.opened
            /\ phase = "VALIDATING" /\ pc \in {"env", "version", "checkout", "up"}
                 => New \notin host.db.opened
            /\ phase # "VALIDATING" => New \notin host.db.opened /\ host.image # New

-----------------------------------------------------------------------------
(* Types and phases. *)

\* Writing one field of the host leaves a host.
LEMMA HostEdits ==
  ASSUME NEW h \in Hosts
  PROVE  /\ \A c \in Commits : [h EXCEPT !.checkout = c] \in Hosts
         /\ \A b \in BOOLEAN : [h EXCEPT !.dirty = b] \in Hosts
         /\ \A b \in BOOLEAN : [h EXCEPT !.tunnel = b] \in Hosts
         /\ \A b \in BOOLEAN : [h EXCEPT !.timer = b] \in Hosts
         /\ \A v \in Versions : [h EXCEPT !.env = v] \in Hosts
         /\ \A i \in Images : [h EXCEPT !.image = i] \in Hosts
         /\ \A d \in Databases : [h EXCEPT !.db = d] \in Hosts
         /\ \A v \in Versions, i \in Images : [h EXCEPT !.tags[v] = i] \in Hosts
<1>1. \A c \in Commits : [h EXCEPT !.checkout = c] \in Hosts
  BY DEF Hosts
<1>2. \A b \in BOOLEAN : [h EXCEPT !.dirty = b] \in Hosts
  BY DEF Hosts
<1>3. \A b \in BOOLEAN : [h EXCEPT !.tunnel = b] \in Hosts
  BY DEF Hosts
<1>4. \A b \in BOOLEAN : [h EXCEPT !.timer = b] \in Hosts
  BY DEF Hosts
<1>5. \A v \in Versions : [h EXCEPT !.env = v] \in Hosts
  BY DEF Hosts
<1>6. \A i \in Images : [h EXCEPT !.image = i] \in Hosts
  BY DEF Hosts
<1>7. \A d \in Databases : [h EXCEPT !.db = d] \in Hosts
  BY DEF Hosts
<1>8. \A v \in Versions, i \in Images : [h EXCEPT !.tags[v] = i] \in Hosts
  BY DEF Hosts
<1> QED
  BY <1>1, <1>2, <1>3, <1>4, <1>5, <1>6, <1>7, <1>8

\* So does writing fields of its database.
LEMMA DatabaseEdits ==
  ASSUME NEW h \in Hosts
  PROVE  /\ \A n \in Nat : [h EXCEPT !.db.writes = n] \in Hosts
         /\ \A n \in Nat, b \in BOOLEAN : [h EXCEPT !.db.writes = n, !.db.open = b] \in Hosts
         /\ \A r \in Commits : [h EXCEPT !.db.opened = @ \cup {r}] \in Hosts
<1>1. \A n \in Nat : [h EXCEPT !.db.writes = n] \in Hosts
  BY DEF Hosts, Databases
<1>2. \A n \in Nat, b \in BOOLEAN : [h EXCEPT !.db.writes = n, !.db.open = b] \in Hosts
  BY DEF Hosts, Databases
<1>3. \A r \in Commits : [h EXCEPT !.db.opened = @ \cup {r}] \in Hosts
  BY DEF Hosts, Databases
<1> QED
  BY <1>1, <1>2, <1>3

\* Starting an image leaves a host.
LEMMA StartedType ==
  ASSUME NEW h \in Hosts
  PROVE  Started(h) \in Hosts
<1>1. h.tags[h.env] \in Images
  BY DEF Hosts
<1>2. CASE h.tags[h.env] = NoImage
  BY <1>2 DEF Started
<1>3. CASE h.tags[h.env] # NoImage
  <2>1. h.tags[h.env] \in Commits
    BY <1>1, <1>3 DEF Images
  <2>2. DEFINE opened == [h EXCEPT !.db.opened = @ \cup {h.tags[h.env]}]
  <2>3. opened \in Hosts
    BY <2>1, DatabaseEdits
  <2>4. Started(h) = [opened EXCEPT !.image = h.tags[h.env]]
    BY <1>3 DEF Started, Hosts, Databases
  <2> HIDE DEF opened
  <2> QED
    BY <1>1, <2>3, <2>4, HostEdits
<1> QED
  BY <1>2, <1>3

\* What the script may keep.
Saves == [checkout : Commits, env : Versions, timer : BOOLEAN, db : Databases]

\* Every step leaves a host.
LEMMA HostStep == TypeOK /\ [Next]_vars => host' \in Hosts
<1> SUFFICES ASSUME TypeOK, [Next]_vars PROVE host' \in Hosts
  OBVIOUS
<1>h. /\ host \in Hosts
      /\ host.checkout \in Commits /\ host.env \in Versions /\ host.image \in Images
      /\ host.timer \in BOOLEAN /\ host.db.writes \in Nat
      /\ saved.checkout \in Commits /\ saved.env \in Versions /\ saved.db \in Databases
      /\ saved.timer \in BOOLEAN
      /\ New \in Commits /\ New \in Images /\ NoImage \in Images /\ Missing \in Databases
      /\ <<host.checkout, "rollback">> \in Versions /\ <<New, "build">> \in Versions
      /\ <<saved.checkout, "rollback">> \in Versions
  BY DEF TypeOK, Hosts, Databases, Images, Commits, Versions, Missing
<1>1. CASE PublicWrite
  <2>1. PICK open \in BOOLEAN :
          host' = [host EXCEPT !.db.writes = host.db.writes + 1, !.db.open = open]
    BY <1>1 DEF PublicWrite
  <2>2. host.db.writes + 1 \in Nat
    BY <1>h
  <2> QED
    BY <1>h, <2>1, <2>2, DatabaseEdits
<1>2. CASE Edit
  BY <1>2, <1>h, HostEdits DEF Edit
<1>3. CASE Begin
  BY <1>3, <1>h DEF Begin
<1>4. CASE Precheck
  BY <1>4, <1>h DEF Precheck
<1>5. CASE StopTimer
  BY <1>5, <1>h, HostEdits DEF StopTimer, Step
<1>6. CASE RecordOldRelease
  BY <1>6, <1>h, HostEdits DEF RecordOldRelease, Step
<1>7. CASE Merge
  BY <1>7, <1>h, HostEdits DEF Merge, Step
<1>8. CASE Build
  BY <1>8, <1>h, HostEdits DEF Build, Step
<1>9. CASE Preflight
  BY <1>9, <1>h DEF Preflight, Step
<1>10. CASE SetEnv
  BY <1>10, <1>h, HostEdits DEF SetEnv, Step
<1>11. CASE StopTunnel
  BY <1>11, <1>h, HostEdits DEF StopTunnel, Step
<1>12. CASE StopApp
  BY <1>12, <1>h, HostEdits DEF StopApp, Step
<1>13. CASE FinalStatus
  BY <1>13, <1>h DEF FinalStatus
<1>14. CASE FinalBackup
  BY <1>14, <1>h DEF FinalBackup, Step
<1>15. CASE ReleaseCheck
  <2> DEFINE checked == [host EXCEPT !.db.opened = host.db.opened \cup {New}]
  <2>1. checked \in Hosts
    BY <1>h, DatabaseEdits
  <2>2. \A kept \in 0 .. host.db.writes : kept \in Nat
    BY <1>h
  <2> HIDE DEF checked
  <2>3. \A kept \in 0 .. host.db.writes : [checked EXCEPT !.db.writes = kept] \in Hosts
    BY <2>1, <2>2, DatabaseEdits
  <2>4. \/ host' \in {host, checked}
        \/ \E kept \in 0 .. host.db.writes : host' = [checked EXCEPT !.db.writes = kept]
    BY <1>15 DEF ReleaseCheck, Step, checked
  <2> QED
    BY <1>h, <2>1, <2>3, <2>4
<1>16. CASE UpNew
  BY <1>16, <1>h, StartedType DEF UpNew, Step
<1>17. CASE LocalChecks
  BY <1>17, <1>h DEF LocalChecks, Step
<1>18. CASE OpenTunnel
  BY <1>18, <1>h, HostEdits DEF OpenTunnel, Step
<1>19. CASE PublicChecks
  BY <1>19, <1>h DEF PublicChecks, Step
<1>20. CASE Recover
  BY <1>20, <1>h DEF Recover, FirstRecoveryStep
<1>21. CASE StopFailed
  BY <1>21, <1>h, HostEdits DEF StopFailed, Undo
<1>22. CASE MoveDb
  BY <1>22, <1>h, HostEdits DEF MoveDb, Undo
<1>23. CASE InstallDb
  BY <1>23, <1>h, HostEdits DEF InstallDb, Undo
<1>24. CASE RestoreEnv
  BY <1>24, <1>h, HostEdits DEF RestoreEnv, Undo
<1>25. CASE RestoreCheckout
  BY <1>25, <1>h, HostEdits DEF RestoreCheckout, Undo, AfterCheckout
<1>26. CASE SetRollbackVersion
  BY <1>26, <1>h, HostEdits DEF SetRollbackVersion, Undo
<1>27. CASE StartOldRelease
  BY <1>27, <1>h, StartedType DEF StartOldRelease, Undo
<1>28. CASE ReopenTunnel
  BY <1>28, <1>h, HostEdits DEF ReopenTunnel, Undo
<1>29. CASE RestartTimer
  <2>1. (host.timer \/ saved.timer) \in BOOLEAN
    BY <1>h
  <2>2. [host EXCEPT !.timer = host.timer \/ saved.timer] \in Hosts
    BY <1>h, <2>1, HostEdits
  <2> QED
    BY <1>29, <1>h, <2>2 DEF RestartTimer, Undo
<1>30. CASE Die
  BY <1>30, <1>h DEF Die
<1>31. CASE UNCHANGED vars
  BY <1>31, <1>h DEF vars
<1> QED
  BY <1>1, <1>2, <1>3, <1>4, <1>5, <1>6, <1>7, <1>8, <1>9, <1>10, <1>11, <1>12, <1>13,
     <1>14, <1>15, <1>16, <1>17, <1>18, <1>19, <1>20, <1>21, <1>22, <1>23, <1>24, <1>25,
     <1>26, <1>27, <1>28, <1>29, <1>30, <1>31 DEF Next

\* Every step leads to a step, in a phase that fits.
LEMMA ControlStep ==
  PhaseInv /\ TypeOK /\ [Next]_vars =>
    PhaseInv' /\ pc' \in Steps \cup Recovery \cup {"ended"} /\ phase' \in Phases
<1> SUFFICES ASSUME PhaseInv, TypeOK, [Next]_vars
             PROVE PhaseInv' /\ pc' \in Steps \cup Recovery \cup {"ended"} /\ phase' \in Phases
  OBVIOUS
<1> USE DEF PhaseInv, TypeOK, Steps, Recovery, Phases
<1>1. CASE PublicWrite
  BY <1>1 DEF PublicWrite
<1>2. CASE Edit
  BY <1>2 DEF Edit
<1>3. CASE Begin
  BY <1>3 DEF Begin
<1>4. CASE Precheck
  BY <1>4 DEF Precheck
<1>5. CASE StopTimer
  BY <1>5 DEF StopTimer, Step
<1>6. CASE RecordOldRelease
  BY <1>6 DEF RecordOldRelease, Step
<1>7. CASE Merge
  BY <1>7 DEF Merge, Step
<1>8. CASE Build
  BY <1>8 DEF Build, Step
<1>9. CASE Preflight
  BY <1>9 DEF Preflight, Step
<1>10. CASE SetEnv
  BY <1>10 DEF SetEnv, Step
<1>11. CASE StopTunnel
  BY <1>11 DEF StopTunnel, Step
<1>12. CASE StopApp
  BY <1>12 DEF StopApp, Step
<1>13. CASE FinalStatus
  BY <1>13 DEF FinalStatus
<1>14. CASE FinalBackup
  BY <1>14 DEF FinalBackup, Step
<1>15. CASE ReleaseCheck
  BY <1>15 DEF ReleaseCheck, Step
<1>16. CASE UpNew
  BY <1>16 DEF UpNew, Step
<1>17. CASE LocalChecks
  BY <1>17 DEF LocalChecks, Step
<1>18. CASE OpenTunnel
  BY <1>18 DEF OpenTunnel, Step
<1>19. CASE PublicChecks
  BY <1>19 DEF PublicChecks, Step
<1>20. CASE Recover
  BY <1>20 DEF Recover, FirstRecoveryStep
<1>21. CASE StopFailed
  BY <1>21 DEF StopFailed, Undo
<1>22. CASE MoveDb
  BY <1>22 DEF MoveDb, Undo
<1>23. CASE InstallDb
  BY <1>23 DEF InstallDb, Undo
<1>24. CASE RestoreEnv
  BY <1>24 DEF RestoreEnv, Undo
<1>25. CASE RestoreCheckout
  BY <1>25 DEF RestoreCheckout, Undo, AfterCheckout
<1>26. CASE SetRollbackVersion
  BY <1>26 DEF SetRollbackVersion, Undo
<1>27. CASE StartOldRelease
  BY <1>27 DEF StartOldRelease, Undo
<1>28. CASE ReopenTunnel
  BY <1>28 DEF ReopenTunnel, Undo
<1>29. CASE RestartTimer
  BY <1>29 DEF RestartTimer, Undo
<1>30. CASE Die
  BY <1>30 DEF Die
<1>31. CASE UNCHANGED vars
  BY <1>31 DEF vars
<1> QED
  BY <1>1, <1>2, <1>3, <1>4, <1>5, <1>6, <1>7, <1>8, <1>9, <1>10, <1>11, <1>12, <1>13,
     <1>14, <1>15, <1>16, <1>17, <1>18, <1>19, <1>20, <1>21, <1>22, <1>23, <1>24, <1>25,
     <1>26, <1>27, <1>28, <1>29, <1>30, <1>31 DEF Next

\* What the script keeps has its types.
LEMMA SavedStep == TypeOK /\ [Next]_vars => saved' \in Saves
<1> SUFFICES ASSUME TypeOK, [Next]_vars PROVE saved' \in Saves
  OBVIOUS
<1>h. /\ host \in Hosts
      /\ host.checkout \in Commits /\ host.env \in Versions /\ host.image \in Images
      /\ host.timer \in BOOLEAN /\ host.db.writes \in Nat
      /\ saved.checkout \in Commits /\ saved.env \in Versions /\ saved.db \in Databases
      /\ saved.timer \in BOOLEAN
      /\ New \in Commits /\ New \in Images /\ NoImage \in Images /\ Missing \in Databases
      /\ <<host.checkout, "rollback">> \in Versions /\ <<New, "build">> \in Versions
      /\ <<saved.checkout, "rollback">> \in Versions
  BY DEF TypeOK, Hosts, Databases, Images, Commits, Versions, Missing
<1>s. saved \in Saves /\ host.db \in Databases
  BY <1>h DEF TypeOK, Saves, Hosts
<1>1. CASE PublicWrite
  BY <1>1, <1>h, <1>s DEF PublicWrite, Saves
<1>2. CASE Edit
  BY <1>2, <1>h, <1>s DEF Edit, Saves
<1>3. CASE Begin
  BY <1>3, <1>h, <1>s DEF Begin, Saves
<1>4. CASE Precheck
  BY <1>4, <1>h, <1>s DEF Precheck, Saves
<1>5. CASE StopTimer
  BY <1>5, <1>h, <1>s DEF StopTimer, Step, Saves
<1>6. CASE RecordOldRelease
  BY <1>6, <1>h, <1>s DEF RecordOldRelease, Step, Saves
<1>7. CASE Merge
  BY <1>7, <1>h, <1>s DEF Merge, Step, Saves
<1>8. CASE Build
  BY <1>8, <1>h, <1>s DEF Build, Step, Saves
<1>9. CASE Preflight
  BY <1>9, <1>h, <1>s DEF Preflight, Step, Saves
<1>10. CASE SetEnv
  BY <1>10, <1>h, <1>s DEF SetEnv, Step, Saves
<1>11. CASE StopTunnel
  BY <1>11, <1>h, <1>s DEF StopTunnel, Step, Saves
<1>12. CASE StopApp
  BY <1>12, <1>h, <1>s DEF StopApp, Step, Saves
<1>13. CASE FinalStatus
  BY <1>13, <1>h, <1>s DEF FinalStatus, Saves
<1>14. CASE FinalBackup
  BY <1>14, <1>h, <1>s DEF FinalBackup, Step, Saves
<1>15. CASE ReleaseCheck
  BY <1>15, <1>h, <1>s DEF ReleaseCheck, Step, Saves
<1>16. CASE UpNew
  BY <1>16, <1>h, <1>s DEF UpNew, Step, Saves
<1>17. CASE LocalChecks
  BY <1>17, <1>h, <1>s DEF LocalChecks, Step, Saves
<1>18. CASE OpenTunnel
  BY <1>18, <1>h, <1>s DEF OpenTunnel, Step, Saves
<1>19. CASE PublicChecks
  BY <1>19, <1>h, <1>s DEF PublicChecks, Step, Saves
<1>20. CASE Recover
  BY <1>20, <1>h, <1>s DEF Recover, FirstRecoveryStep, Saves
<1>21. CASE StopFailed
  BY <1>21, <1>h, <1>s DEF StopFailed, Undo, Saves
<1>22. CASE MoveDb
  BY <1>22, <1>h, <1>s DEF MoveDb, Undo, Saves
<1>23. CASE InstallDb
  BY <1>23, <1>h, <1>s DEF InstallDb, Undo, Saves
<1>24. CASE RestoreEnv
  BY <1>24, <1>h, <1>s DEF RestoreEnv, Undo, Saves
<1>25. CASE RestoreCheckout
  BY <1>25, <1>h, <1>s DEF RestoreCheckout, Undo, AfterCheckout, Saves
<1>26. CASE SetRollbackVersion
  BY <1>26, <1>h, <1>s DEF SetRollbackVersion, Undo, Saves
<1>27. CASE StartOldRelease
  BY <1>27, <1>h, <1>s DEF StartOldRelease, Undo, Saves
<1>28. CASE ReopenTunnel
  BY <1>28, <1>h, <1>s DEF ReopenTunnel, Undo, Saves
<1>29. CASE RestartTimer
  BY <1>29, <1>h, <1>s DEF RestartTimer, Undo, Saves
<1>30. CASE Die
  BY <1>30, <1>h, <1>s DEF Die, Saves
<1>31. CASE UNCHANGED vars
  BY <1>31, <1>h, <1>s DEF vars, Saves
<1> QED
  BY <1>1, <1>2, <1>3, <1>4, <1>5, <1>6, <1>7, <1>8, <1>9, <1>10, <1>11, <1>12, <1>13,
     <1>14, <1>15, <1>16, <1>17, <1>18, <1>19, <1>20, <1>21, <1>22, <1>23, <1>24, <1>25,
     <1>26, <1>27, <1>28, <1>29, <1>30, <1>31 DEF Next

\* What a step of the recovery does to the history.
LEMMA UndoHistory ==
  ASSUME TypeOK, NEW at, NEW after, NEW next, NEW left, NEW otherwise,
         Undo(at, after, next, left, otherwise)
  PROVE  /\ accepted' \in Nat /\ found' \in Hosts /\ disturbed' \in BOOLEAN
         /\ faults' \in Nat /\ updates' \in Nat
<1>1. disturbed' \in BOOLEAN
  BY DEF Undo, TypeOK
<1>2. accepted' \in Nat /\ found' \in Hosts /\ faults' \in Nat /\ updates' \in Nat
  BY DEF Undo, TypeOK
<1> QED
  BY <1>1, <1>2

\* So has the history.
LEMMA HistoryStep ==
  TypeOK /\ [Next]_vars =>
    /\ accepted' \in Nat /\ found' \in Hosts /\ disturbed' \in BOOLEAN
    /\ faults' \in Nat /\ updates' \in Nat
<1> SUFFICES ASSUME TypeOK, [Next]_vars
             PROVE /\ accepted' \in Nat /\ found' \in Hosts /\ disturbed' \in BOOLEAN
     /\ faults' \in Nat /\ updates' \in Nat
  OBVIOUS
<1> USE DEF TypeOK, history
<1>1. CASE PublicWrite
  BY <1>1 DEF PublicWrite
<1>2. CASE Edit
  BY <1>2 DEF Edit
<1>3. CASE Begin
  <2>1. found' \in Hosts /\ disturbed' \in BOOLEAN
    BY <1>3 DEF Begin
  <2> QED
    BY <1>3, <2>1 DEF Begin
<1>4. CASE Precheck
  BY <1>4 DEF Precheck
<1>5. CASE StopTimer
  BY <1>5 DEF StopTimer, Step
<1>6. CASE RecordOldRelease
  BY <1>6 DEF RecordOldRelease, Step
<1>7. CASE Merge
  BY <1>7 DEF Merge, Step
<1>8. CASE Build
  BY <1>8 DEF Build, Step
<1>9. CASE Preflight
  BY <1>9 DEF Preflight, Step
<1>10. CASE SetEnv
  BY <1>10 DEF SetEnv, Step
<1>11. CASE StopTunnel
  BY <1>11 DEF StopTunnel, Step
<1>12. CASE StopApp
  BY <1>12 DEF StopApp, Step
<1>13. CASE FinalStatus
  BY <1>13 DEF FinalStatus
<1>14. CASE FinalBackup
  BY <1>14 DEF FinalBackup, Step
<1>15. CASE ReleaseCheck
  BY <1>15 DEF ReleaseCheck, Step
<1>16. CASE UpNew
  BY <1>16 DEF UpNew, Step
<1>17. CASE LocalChecks
  BY <1>17 DEF LocalChecks, Step
<1>18. CASE OpenTunnel
  BY <1>18 DEF OpenTunnel, Step
<1>19. CASE PublicChecks
  BY <1>19 DEF PublicChecks, Step
<1>20. CASE Recover
  BY <1>20 DEF Recover, FirstRecoveryStep
<1>21. CASE StopFailed
  BY <1>21, UndoHistory DEF StopFailed
<1>22. CASE MoveDb
  BY <1>22, UndoHistory DEF MoveDb
<1>23. CASE InstallDb
  BY <1>23, UndoHistory DEF InstallDb
<1>24. CASE RestoreEnv
  BY <1>24, UndoHistory DEF RestoreEnv
<1>25. CASE RestoreCheckout
  BY <1>25, UndoHistory DEF RestoreCheckout
<1>26. CASE SetRollbackVersion
  BY <1>26, UndoHistory DEF SetRollbackVersion
<1>27. CASE StartOldRelease
  BY <1>27, UndoHistory DEF StartOldRelease
<1>28. CASE ReopenTunnel
  BY <1>28, UndoHistory DEF ReopenTunnel
<1>29. CASE RestartTimer
  BY <1>29, UndoHistory DEF RestartTimer
<1>30. CASE Die
  BY <1>30 DEF Die
<1>31. CASE UNCHANGED vars
  BY <1>31 DEF vars
<1> QED
  BY <1>1, <1>2, <1>3, <1>4, <1>5, <1>6, <1>7, <1>8, <1>9, <1>10, <1>11, <1>12, <1>13,
     <1>14, <1>15, <1>16, <1>17, <1>18, <1>19, <1>20, <1>21, <1>22, <1>23, <1>24, <1>25,
     <1>26, <1>27, <1>28, <1>29, <1>30, <1>31 DEF Next

LEMMA TypeStep == TypeOK /\ PhaseInv /\ [Next]_vars => TypeOK' /\ PhaseInv'
<1> SUFFICES ASSUME TypeOK, PhaseInv, [Next]_vars PROVE TypeOK' /\ PhaseInv'
  OBVIOUS
<1> QED
  BY HostStep, ControlStep, SavedStep, HistoryStep DEF TypeOK, Saves

LEMMA TypeInit == Init => TypeOK /\ PhaseInv
<1> SUFFICES ASSUME Init PROVE TypeOK /\ PhaseInv
  OBVIOUS
<1>1. host \in Hosts
  BY DEF Init, Hosts, Databases, Versions, Images, Commits
<1>2. saved \in Saves
  BY DEF Init, Saves, Databases, Versions, Commits, Missing
<1> QED
  BY <1>1, <1>2 DEF Init, TypeOK, PhaseInv, Saves, Phases

\* What starting an image leaves alone, and what it does.
LEMMA StartedFields ==
  ASSUME NEW h \in Hosts
  PROVE  /\ Started(h).tunnel = h.tunnel /\ Started(h).db.writes = h.db.writes
         /\ Started(h).tags = h.tags /\ Started(h).env = h.env
         /\ h.tags[h.env] = NoImage => Started(h) = h
         /\ h.tags[h.env] # NoImage =>
              /\ Started(h).image = h.tags[h.env]
              /\ Started(h).db.opened = h.db.opened \cup {h.tags[h.env]}
  BY DEF Started, Hosts, Databases

\* Wherever a step may fail, the accepted writes are behind the tunnel or in the backup.
LEMMA WritesStep == TypeOK /\ PhaseInv /\ WritesInv /\ [Next]_vars => WritesInv'
<1> SUFFICES ASSUME TypeOK, PhaseInv, WritesInv, [Next]_vars PROVE WritesInv'
  OBVIOUS
<1>h. /\ host \in Hosts /\ host.db \in Databases /\ host.db.writes \in Nat /\ accepted \in Nat
      /\ phase \in Phases /\ host.tunnel \in BOOLEAN
  BY DEF TypeOK, Hosts, Databases
<1> USE DEF WritesInv, PhaseInv, Current, Closed, BackedUp, Phases, history
<1>1. CASE PublicWrite
  <2>1. PICK open \in BOOLEAN :
          host' = [host EXCEPT !.db.writes = host.db.writes + 1, !.db.open = open]
    BY <1>1 DEF PublicWrite
  <2>2. host'.tunnel = host.tunnel /\ host'.db.writes = host.db.writes + 1
    BY <1>h, <2>1 DEF Hosts, Databases
  <2>3. host.tunnel /\ accepted' = accepted + 1 /\ UNCHANGED <<pc, phase, saved>>
    BY <1>1 DEF PublicWrite, Serving
  <2> QED
    BY <1>h, <2>2, <2>3
<1>2. CASE Edit
  BY <1>2, <1>h DEF Edit, Hosts, Databases
<1>3. CASE Begin
  BY <1>3, <1>h DEF Begin, Hosts, Databases
<1>4. CASE Precheck
  BY <1>4, <1>h DEF Precheck, Hosts, Databases, Serving
<1>5. CASE StopTimer
  BY <1>5, <1>h DEF StopTimer, Step, Hosts, Databases
<1>6. CASE RecordOldRelease
  BY <1>6, <1>h DEF RecordOldRelease, Step, Hosts, Databases
<1>7. CASE Merge
  BY <1>7, <1>h DEF Merge, Step, Hosts, Databases
<1>8. CASE Build
  BY <1>8, <1>h DEF Build, Step, Hosts, Databases
<1>9. CASE Preflight
  BY <1>9, <1>h DEF Preflight, Step, Hosts, Databases
<1>10. CASE SetEnv
  BY <1>10, <1>h DEF SetEnv, Step, Hosts, Databases
<1>11. CASE StopTunnel
  BY <1>11, <1>h DEF StopTunnel, Step, Hosts, Databases
<1>12. CASE StopApp
  BY <1>12, <1>h DEF StopApp, Step, Hosts, Databases
<1>13. CASE FinalStatus
  BY <1>13, <1>h DEF FinalStatus, Hosts, Databases
<1>14. CASE FinalBackup
  BY <1>14, <1>h DEF FinalBackup, Step, Hosts, Databases
<1>15. CASE ReleaseCheck
  <2> DEFINE checked == [host EXCEPT !.db.opened = host.db.opened \cup {New}]
  <2>1. checked.tunnel = host.tunnel /\ checked.db.writes = host.db.writes
    BY <1>h DEF Hosts, Databases
  <2>2. ASSUME NEW kept \in 0 .. host.db.writes
        PROVE  [checked EXCEPT !.db.writes = kept].tunnel = host.tunnel
    BY <1>h DEF Hosts, Databases
  <2> HIDE DEF checked
  <2>3. /\ pc = "releaseCheck" /\ UNCHANGED <<phase, saved, accepted>>
        /\ \/ pc' = "upNew" /\ host' = checked
           \/ pc' = "recover" /\ host' \in {host, checked}
           \/ /\ pc' = "recover"
              /\ \E kept \in 0 .. host.db.writes : host' = [checked EXCEPT !.db.writes = kept]
    BY <1>15 DEF ReleaseCheck, Step, checked
  <2>4. host'.tunnel = host.tunnel /\ (pc' = "upNew" => host'.db.writes = host.db.writes)
    BY <2>1, <2>2, <2>3
  <2> QED
    BY <1>h, <2>3, <2>4
<1>16. CASE UpNew
  BY <1>16, <1>h, StartedFields DEF UpNew, Step, Hosts, Databases
<1>17. CASE LocalChecks
  BY <1>17, <1>h DEF LocalChecks, Step, Hosts, Databases
<1>18. CASE OpenTunnel
  BY <1>18, <1>h DEF OpenTunnel, Step, Hosts, Databases
<1>19. CASE PublicChecks
  BY <1>19, <1>h DEF PublicChecks, Step, Hosts, Databases
<1>20. CASE Recover
  BY <1>20, <1>h DEF Recover, FirstRecoveryStep, Hosts, Databases
<1>21. CASE StopFailed
  BY <1>21, <1>h DEF StopFailed, Undo, Hosts, Databases
<1>22. CASE MoveDb
  BY <1>22, <1>h DEF MoveDb, Undo, Hosts, Databases
<1>23. CASE InstallDb
  BY <1>23, <1>h DEF InstallDb, Undo, Hosts, Databases
<1>24. CASE RestoreEnv
  BY <1>24, <1>h DEF RestoreEnv, Undo, Hosts, Databases
<1>25. CASE RestoreCheckout
  BY <1>25, <1>h DEF RestoreCheckout, Undo, AfterCheckout, Hosts, Databases
<1>26. CASE SetRollbackVersion
  BY <1>26, <1>h DEF SetRollbackVersion, Undo, Hosts, Databases
<1>27. CASE StartOldRelease
  BY <1>27, <1>h, StartedFields DEF StartOldRelease, Undo, Hosts, Databases
<1>28. CASE ReopenTunnel
  BY <1>28, <1>h DEF ReopenTunnel, Undo, Hosts, Databases
<1>29. CASE RestartTimer
  BY <1>29, <1>h DEF RestartTimer, Undo, Hosts, Databases
<1>30. CASE Die
  BY <1>30, <1>h DEF Die, Hosts, Databases
<1>31. CASE UNCHANGED vars
  BY <1>31, <1>h DEF vars, Hosts, Databases
<1> QED
  BY <1>1, <1>2, <1>3, <1>4, <1>5, <1>6, <1>7, <1>8, <1>9, <1>10, <1>11, <1>12, <1>13,
     <1>14, <1>15, <1>16, <1>17, <1>18, <1>19, <1>20, <1>21, <1>22, <1>23, <1>24, <1>25,
     <1>26, <1>27, <1>28, <1>29, <1>30, <1>31 DEF Next

\* An image is started on the database it ran on, or is the new one.
LEMMA ImagesStep == TypeOK /\ PhaseInv /\ ImagesInv /\ [Next]_vars => ImagesInv'
<1> SUFFICES ASSUME TypeOK, PhaseInv, ImagesInv, [Next]_vars PROVE ImagesInv'
  OBVIOUS
<1> USE ReleaseAssumption
    DEF ImagesInv, PhaseInv, Images, Commits, Recorded, Stopped, OldImage, Paired,
        Phases, history
<1>h. /\ host \in Hosts
      /\ host.checkout \in Commits /\ host.env \in Versions /\ host.image \in Images
      /\ host.timer \in BOOLEAN /\ host.db.writes \in Nat
      /\ saved.checkout \in Commits /\ saved.env \in Versions /\ saved.db \in Databases
      /\ saved.timer \in BOOLEAN
      /\ New \in Commits /\ New \in Images /\ NoImage \in Images /\ Missing \in Databases
      /\ <<host.checkout, "rollback">> \in Versions /\ <<New, "build">> \in Versions
      /\ <<saved.checkout, "rollback">> \in Versions
  BY DEF TypeOK, Hosts, Databases, Images, Commits, Versions, Missing
<1>1. CASE PublicWrite
  <2>1. PICK open \in BOOLEAN :
          host' = [host EXCEPT !.db.writes = host.db.writes + 1, !.db.open = open]
    BY <1>1 DEF PublicWrite
  <2>2. /\ host'.image = host.image /\ host'.tags = host.tags /\ host'.env = host.env
        /\ host'.db.opened = host.db.opened
    BY <1>h, <2>1 DEF Hosts, Databases
  <2>3. UNCHANGED <<pc, phase, saved>>
    BY <1>1 DEF PublicWrite
  <2> QED
    BY <2>2, <2>3
<1>2. CASE Edit
  BY <1>2, <1>h DEF Edit, Hosts, Databases
<1>3. CASE Begin
  BY <1>3, <1>h DEF Begin, Hosts, Databases
<1>4. CASE Precheck
  BY <1>4, <1>h DEF Precheck, Hosts, Databases, Serving
<1>5. CASE StopTimer
  BY <1>5, <1>h DEF StopTimer, Step, Hosts, Databases
<1>6. CASE RecordOldRelease
  BY <1>6, <1>h DEF RecordOldRelease, Step, Hosts, Databases
<1>7. CASE Merge
  BY <1>7, <1>h DEF Merge, Step, Hosts, Databases
<1>8. CASE Build
  BY <1>8, <1>h DEF Build, Step, Hosts, Databases
<1>9. CASE Preflight
  BY <1>9, <1>h DEF Preflight, Step, Hosts, Databases
<1>10. CASE SetEnv
  BY <1>10, <1>h DEF SetEnv, Step, Hosts, Databases
<1>11. CASE StopTunnel
  BY <1>11, <1>h DEF StopTunnel, Step, Hosts, Databases
<1>12. CASE StopApp
  BY <1>12, <1>h DEF StopApp, Step, Hosts, Databases
<1>13. CASE FinalStatus
  BY <1>13, <1>h DEF FinalStatus, Hosts, Databases
<1>14. CASE FinalBackup
  BY <1>14, <1>h DEF FinalBackup, Step, Hosts, Databases
<1>15. CASE ReleaseCheck
  BY <1>15, <1>h DEF ReleaseCheck, Step, Hosts, Databases
<1>16. CASE UpNew
  BY <1>16, <1>h, StartedFields DEF UpNew, Step, Hosts, Databases
<1>17. CASE LocalChecks
  BY <1>17, <1>h DEF LocalChecks, Step, Hosts, Databases
<1>18. CASE OpenTunnel
  BY <1>18, <1>h DEF OpenTunnel, Step, Hosts, Databases
<1>19. CASE PublicChecks
  BY <1>19, <1>h DEF PublicChecks, Step, Hosts, Databases
<1>20. CASE Recover
  <2>1. /\ pc = "recover" /\ UNCHANGED <<phase, host, saved>>
        /\ phase = "PRECHECK" => pc' = "checkout"
        /\ phase \in {"ENV_READY", "QUIESCING"} => pc' = "env"
        /\ phase = "VALIDATING" => pc' = "stopFailed"
        /\ phase = "LOCAL_HEALTHY" => pc' = "reopen"
        /\ phase = "COMPLETE" => pc' = "restartTimer"
    BY <1>20, <1>h DEF Recover, FirstRecoveryStep
  <2>2. phase \in Phases
    BY DEF TypeOK
  <2> QED
    BY <2>1, <2>2
<1>21. CASE StopFailed
  BY <1>21, <1>h DEF StopFailed, Undo, Hosts, Databases
<1>22. CASE MoveDb
  BY <1>22, <1>h DEF MoveDb, Undo, Hosts, Databases
<1>23. CASE InstallDb
  BY <1>23, <1>h DEF InstallDb, Undo, Hosts, Databases
<1>24. CASE RestoreEnv
  BY <1>24, <1>h DEF RestoreEnv, Undo, Hosts, Databases
<1>25. CASE RestoreCheckout
  BY <1>25, <1>h DEF RestoreCheckout, Undo, AfterCheckout, Hosts, Databases
<1>26. CASE SetRollbackVersion
  BY <1>26, <1>h DEF SetRollbackVersion, Undo, Hosts, Databases
<1>27. CASE StartOldRelease
  BY <1>27, <1>h, StartedFields DEF StartOldRelease, Undo, Hosts, Databases
<1>28. CASE ReopenTunnel
  BY <1>28, <1>h DEF ReopenTunnel, Undo, Hosts, Databases
<1>29. CASE RestartTimer
  BY <1>29, <1>h DEF RestartTimer, Undo, Hosts, Databases
<1>30. CASE Die
  BY <1>30, <1>h DEF Die, Hosts, Databases
<1>31. CASE UNCHANGED vars
  BY <1>31, <1>h DEF vars, Hosts, Databases
<1> QED
  BY <1>1, <1>2, <1>3, <1>4, <1>5, <1>6, <1>7, <1>8, <1>9, <1>10, <1>11, <1>12, <1>13,
     <1>14, <1>15, <1>16, <1>17, <1>18, <1>19, <1>20, <1>21, <1>22, <1>23, <1>24, <1>25,
     <1>26, <1>27, <1>28, <1>29, <1>30, <1>31 DEF Next

-----------------------------------------------------------------------------
(* What holds for any number of runs, disturbances and writes. *)

ReleaseInv == TypeOK /\ PhaseInv /\ WritesInv /\ ImagesInv

LEMMA ReleaseInvariant == ReleaseSpec => []ReleaseInv
<1>1. Init => ReleaseInv
  <2> SUFFICES ASSUME Init PROVE ReleaseInv
    OBVIOUS
  <2>1. TypeOK /\ PhaseInv
    BY TypeInit
  <2>2. WritesInv
    BY DEF Init, WritesInv, Current, Closed, BackedUp
  <2>3. ImagesInv
    BY ReleaseAssumption DEF Init, ImagesInv, Paired, Stopped, Recorded, Versions, Commits
  <2> QED
    BY <2>1, <2>2, <2>3 DEF ReleaseInv
<1>2. ReleaseInv /\ [Next]_vars => ReleaseInv'
  BY TypeStep, WritesStep, ImagesStep DEF ReleaseInv
<1> QED
  BY <1>1, <1>2, PTL DEF ReleaseSpec

\* Host, backups and the place the script has reached keep their types.
THEOREM TypeCorrect == ReleaseSpec => []TypeOK
<1>1. ReleaseInv => TypeOK
  BY DEF ReleaseInv
<1> QED
  BY <1>1, ReleaseInvariant, PTL

\* However many releases fail, are rolled back, killed and tried again, the
\* database behind an open tunnel and a running app holds every accepted write.
THEOREM WritesKeptTheorem == ReleaseSpec => []WritesKept
<1>1. ReleaseInv => WritesKept
  BY DEF ReleaseInv, WritesInv, WritesKept, Serving
<1> QED
  BY <1>1, ReleaseInvariant, PTL

\* The old image never runs on a database the new release has opened.
THEOREM PairedTheorem == ReleaseSpec => []Paired
<1>1. ReleaseInv => Paired
  BY DEF ReleaseInv, ImagesInv
<1> QED
  BY <1>1, ReleaseInvariant, PTL

-----------------------------------------------------------------------------
(* What the host was found like, and what one run may do to it. *)

\* The script has seen the release it found served, ...
Prechecked == pc \in Steps \ {"precheck"} \/ phase # "PRECHECK"

\* ... has not yet touched it, or has only its files to put back, ...
Untouched ==
  \/ pc \in {"precheck", "stopTimer", "record", "merge", "build", "preflight", "setEnv"}
  \/ pc \in {"recover", "env", "checkout", "restartTimer"} /\ phase \in {"PRECHECK", "ENV_READY"}

\* ... has not started an image on the database it found, ...
Unopened ==
  \/ pc \in {"stopTunnel", "stopApp", "finalStatus", "finalBackup"}
  \/ pc \in {"recover", "env", "version", "checkout", "up"} /\ phase = "QUIESCING"
  \/ pc \in {"env", "version", "checkout", "up"} /\ phase = "VALIDATING"

\* ... or has started the image the host was found with again.
Restarted == pc \in {"reopen", "restartTimer"} /\ phase \in {"QUIESCING", "VALIDATING"}

\* The new release is in place, its checks aside.
Upgraded ==
  \/ pc \in {"localChecks", "openTunnel", "publicChecks"}
  \/ pc \in {"recover", "reopen", "restartTimer"} /\ phase \in {"LOCAL_HEALTHY", "COMPLETE"}

OldTag == host.env = <<saved.checkout, "rollback">>

\* What holds of the host, of what the script found and of what it keeps.
FoundInv ==
  /\ host.image # NoImage => host.image \in host.db.opened
  /\ found.image # NoImage => found.image \in found.db.opened
  /\ host.tags[<<New, "build">>] \in {New, NoImage}
  /\ saved.checkout = found.checkout /\ saved.env = found.env
  /\ pc \in {"precheck", "stopTimer", "record", "merge"} => host.checkout = found.checkout
  /\ pc \in {"precheck", "stopTimer", "record", "merge", "build", "preflight"}
       => host.env = found.env
  /\ pc \in {"precheck", "stopTimer"} => ~saved.timer
  /\ Prechecked => found.tunnel /\ found.image # NoImage
  /\ Untouched => /\ host.image = found.image /\ host.tunnel = found.tunnel
                  /\ host.db.opened = found.db.opened
  /\ Unopened => host.db.opened = found.db.opened
  /\ BackedUp => saved.db.opened = found.db.opened
  /\ Recorded => OldImage = found.image
  /\ pc \in {"build", "preflight", "setEnv", "stopTunnel", "stopApp", "finalStatus",
             "finalBackup", "releaseCheck", "upNew"} \/ Upgraded => host.checkout = New
  /\ Upgraded => host.image = New
  /\ pc \in {"version", "checkout"} /\ phase = "VALIDATING" => host.env = saved.env
  /\ pc = "checkout" /\ phase = "ENV_READY" => host.env = saved.env
  /\ pc \in {"recover", "checkout", "restartTimer"} /\ phase = "PRECHECK" => host.env = saved.env

\* What holds besides while no disturbance has hit the run of the script.
UndisturbedInv ==
  ~disturbed =>
    /\ pc # "ended" => (host.timer \/ saved.timer) = found.timer
    /\ pc \in {"stopTimer", "record", "merge"} => ~host.dirty
    /\ pc # "ended" /\ host.dirty => host.checkout = saved.checkout
    /\ pc = "restartTimer" /\ phase \in {"PRECHECK", "ENV_READY"}
         => host.checkout = saved.checkout /\ host.env = saved.env
    /\ pc = "version" => host.env = saved.env
    /\ pc = "version" /\ phase = "VALIDATING" => host.checkout = saved.checkout
    /\ pc \in {"up", "reopen", "restartTimer"} /\ phase \in {"QUIESCING", "VALIDATING"}
         => OldTag /\ host.checkout = saved.checkout
    /\ pc = "checkout" /\ phase = "QUIESCING" => OldTag
    /\ Restarted => /\ host.image = found.image /\ host.db.opened = found.db.opened
                    /\ OldImage = found.image
    /\ pc = "restartTimer" => host.tunnel = found.tunnel
    /\ pc = "publicChecks" \/ (pc = "recover" /\ phase = "COMPLETE") => host.tunnel

\* What holds while at most one disturbance has ever hit a run of the script.
AtMostOnceInv ==
  /\ disturbed => faults > 0
  /\ faults = 0 /\ pc = "ended" => host.tags[host.env] = host.image
  /\ (faults = 0 \/ (disturbed /\ faults = 1)) /\ pc # "ended"
       => host.tags[saved.env] = found.image
  /\ faults < 2 =>
       /\ pc = "up" \/ (pc = "checkout" /\ phase = "QUIESCING")
            => host.tags[host.env] = found.image
       /\ pc = "reopen" /\ phase \in {"QUIESCING", "VALIDATING"}
            => host.image = found.image

\* Every field of the host but its database stays.
FieldsKept ==
  /\ host'.image = host.image /\ host'.tags = host.tags /\ host'.env = host.env
  /\ host'.tunnel = host.tunnel /\ host'.timer = host.timer
  /\ host'.checkout = host.checkout /\ host'.dirty = host.dirty

\* What a public write does to the host.
LEMMA PublicWriteFields ==
  ASSUME TypeOK, PublicWrite
  PROVE  /\ FieldsKept /\ host'.db.opened = host.db.opened
         /\ UNCHANGED <<pc, phase, saved, found, disturbed, faults>>
<1>1. host \in Hosts
  BY DEF TypeOK
<1>2. PICK open \in BOOLEAN :
        host' = [host EXCEPT !.db.writes = host.db.writes + 1, !.db.open = open]
  BY DEF PublicWrite
<1>3. FieldsKept /\ host'.db.opened = host.db.opened
  BY <1>1, <1>2 DEF Hosts, Databases, FieldsKept
<1> QED
  BY <1>3 DEF PublicWrite

\* What release_check on the live database does to the host, however it ends.
LEMMA ReleaseCheckFields ==
  ASSUME TypeOK, ReleaseCheck
  PROVE  /\ FieldsKept
         /\ host'.db.opened \in {host.db.opened, host.db.opened \cup {New}}
         /\ pc = "releaseCheck" /\ pc' \in {"upNew", "recover"}
         /\ UNCHANGED <<phase, saved, accepted, found, disturbed, faults, updates>>
<1> DEFINE checked == [host EXCEPT !.db.opened = host.db.opened \cup {New}]
<1>h. host \in Hosts
  BY DEF TypeOK
<1>1. /\ checked.image = host.image /\ checked.tags = host.tags /\ checked.env = host.env
      /\ checked.tunnel = host.tunnel /\ checked.timer = host.timer
      /\ checked.checkout = host.checkout /\ checked.dirty = host.dirty
      /\ checked.db.opened = host.db.opened \cup {New}
  BY <1>h DEF Hosts, Databases
<1>2. ASSUME NEW kept \in 0 .. host.db.writes
      PROVE  /\ [checked EXCEPT !.db.writes = kept].image = checked.image
             /\ [checked EXCEPT !.db.writes = kept].tags = checked.tags
             /\ [checked EXCEPT !.db.writes = kept].env = checked.env
             /\ [checked EXCEPT !.db.writes = kept].tunnel = checked.tunnel
             /\ [checked EXCEPT !.db.writes = kept].timer = checked.timer
             /\ [checked EXCEPT !.db.writes = kept].checkout = checked.checkout
             /\ [checked EXCEPT !.db.writes = kept].dirty = checked.dirty
             /\ [checked EXCEPT !.db.writes = kept].db.opened = checked.db.opened
  BY <1>h DEF Hosts, Databases
<1>3. /\ pc = "releaseCheck"
      /\ UNCHANGED <<phase, saved, accepted, found, disturbed, faults, updates>>
      /\ \/ pc' = "upNew" /\ host' = checked
         \/ pc' = "recover" /\ host' \in {host, checked}
         \/ /\ pc' = "recover"
            /\ \E kept \in 0 .. host.db.writes : host' = [checked EXCEPT !.db.writes = kept]
  BY DEF ReleaseCheck, Step, history
<1> HIDE DEF checked
<1>4. /\ FieldsKept
      /\ host'.db.opened \in {host.db.opened, host.db.opened \cup {New}}
  <2>1. CASE host' \in {host, checked}
    BY <1>1, <2>1 DEF FieldsKept
  <2>2. CASE \E kept \in 0 .. host.db.writes : host' = [checked EXCEPT !.db.writes = kept]
    BY <1>1, <1>2, <2>2 DEF FieldsKept
  <2> QED
    BY <1>3, <2>1, <2>2
<1> QED
  BY <1>3, <1>4

\* Starting an image leaves the files and the timer alone.
LEMMA StartedKeeps ==
  ASSUME NEW h \in Hosts
  PROVE  /\ Started(h).timer = h.timer /\ Started(h).checkout = h.checkout
         /\ Started(h).dirty = h.dirty
BY DEF Started, Hosts

\* The new release comes up: the tag in .env is the image that was built.
LEMMA UpNewFields ==
  ASSUME TypeOK, PhaseInv, ImagesInv, UpNew
  PROVE  /\ pc = "upNew" /\ UNCHANGED <<phase, saved, found, disturbed, faults>>
         /\ phase = "VALIDATING" /\ host' \in {host, Started(host)}
         /\ pc' \in {"localChecks", "recover"}
         /\ pc' = "localChecks" => host' = Started(host)
         /\ Started(host).image = New
         /\ Started(host).db.opened = host.db.opened \cup {New}
<1>1. /\ pc = "upNew" /\ UNCHANGED <<phase, saved, found, disturbed, faults>>
      /\ host' \in {host, Started(host)} /\ pc' \in {"localChecks", "recover"}
      /\ pc' = "localChecks" => host' = Started(host)
  BY DEF UpNew, Step, history
<1>2. phase = "VALIDATING" /\ host.tags[host.env] = New
  BY <1>1 DEF PhaseInv, ImagesInv
<1>3. New # NoImage /\ host \in Hosts
  BY ReleaseAssumption DEF TypeOK
<1> QED
  BY <1>1, <1>2, <1>3, StartedFields

\* Where the trap begins in each phase.
LEMMA RecoverSteps ==
  ASSUME TypeOK, Recover
  PROVE  /\ pc = "recover" /\ UNCHANGED <<phase, host, saved, found, disturbed, faults>>
         /\ phase \in Phases
         /\ phase = "PRECHECK" => pc' = "checkout"
         /\ phase \in {"ENV_READY", "QUIESCING"} => pc' = "env"
         /\ phase = "VALIDATING" => pc' = "stopFailed"
         /\ phase = "LOCAL_HEALTHY" => pc' = "reopen"
         /\ phase = "COMPLETE" => pc' = "restartTimer"
BY DEF TypeOK, Recover, FirstRecoveryStep, Phases, history

\* What the script knows of the host it found, and what it keeps, stay true.
LEMMA FoundStep ==
  TypeOK /\ PhaseInv /\ ImagesInv /\ FoundInv /\ [Next]_vars => FoundInv'
<1> SUFFICES ASSUME TypeOK, PhaseInv, ImagesInv, FoundInv, [Next]_vars PROVE FoundInv'
  OBVIOUS
<1> USE ReleaseAssumption
    DEF FoundInv, PhaseInv, ImagesInv, Images, Commits, Recorded, Stopped, OldImage,
        BackedUp, Prechecked, Untouched, Unopened, Upgraded, Steps, Phases, history
<1>h. /\ host \in Hosts /\ found \in Hosts
      /\ host.checkout \in Commits /\ host.env \in Versions /\ host.image \in Images
      /\ host.timer \in BOOLEAN /\ host.db.writes \in Nat /\ faults \in Nat
      /\ saved.checkout \in Commits /\ saved.env \in Versions /\ saved.db \in Databases
      /\ saved.timer \in BOOLEAN /\ host.tunnel \in BOOLEAN /\ host.dirty \in BOOLEAN
      /\ New \in Commits /\ New \in Images /\ NoImage \in Images /\ Missing \in Databases
      /\ <<host.checkout, "rollback">> \in Versions /\ <<New, "build">> \in Versions
      /\ <<saved.checkout, "rollback">> \in Versions
  BY DEF TypeOK, Hosts, Databases, Images, Commits, Versions, Missing
<1>1. CASE PublicWrite
  BY <1>1, PublicWriteFields DEF FieldsKept
<1>2. CASE Edit
  BY <1>2, <1>h DEF Edit, Hosts, Databases
<1>3. CASE Begin
  BY <1>3, <1>h DEF Begin, Hosts, Databases
<1>4. CASE Precheck
  BY <1>4, <1>h DEF Precheck, Serving, Hosts, Databases
<1>5. CASE StopTimer
  BY <1>5, <1>h DEF StopTimer, Step, Hosts, Databases
<1>6. CASE RecordOldRelease
  BY <1>6, <1>h DEF RecordOldRelease, Step, Hosts, Databases
<1>7. CASE Merge
  BY <1>7, <1>h DEF Merge, Step, Hosts, Databases
<1>8. CASE Build
  BY <1>8, <1>h DEF Build, Step, Hosts, Databases
<1>9. CASE Preflight
  BY <1>9, <1>h DEF Preflight, Step, Hosts, Databases
<1>10. CASE SetEnv
  BY <1>10, <1>h DEF SetEnv, Step, Hosts, Databases
<1>11. CASE StopTunnel
  BY <1>11, <1>h DEF StopTunnel, Step, Hosts, Databases
<1>12. CASE StopApp
  BY <1>12, <1>h DEF StopApp, Step, Hosts, Databases
<1>13. CASE FinalStatus
  BY <1>13, <1>h DEF FinalStatus, Hosts, Databases
<1>14. CASE FinalBackup
  BY <1>14, <1>h DEF FinalBackup, Step, Hosts, Databases
<1>15. CASE ReleaseCheck
  BY <1>15, <1>h, ReleaseCheckFields DEF FieldsKept
<1>16. CASE UpNew
  BY <1>16, <1>h, UpNewFields, StartedFields, StartedKeeps
<1>17. CASE LocalChecks
  BY <1>17, <1>h DEF LocalChecks, Step, Hosts, Databases
<1>18. CASE OpenTunnel
  BY <1>18, <1>h DEF OpenTunnel, Step, Hosts, Databases
<1>19. CASE PublicChecks
  BY <1>19, <1>h DEF PublicChecks, Step, Hosts, Databases
<1>20. CASE Recover
  BY <1>20, <1>h, RecoverSteps
<1>21. CASE StopFailed
  BY <1>21, <1>h DEF StopFailed, Undo, Hosts, Databases
<1>22. CASE MoveDb
  BY <1>22, <1>h DEF MoveDb, Undo, Hosts, Databases
<1>23. CASE InstallDb
  BY <1>23, <1>h DEF InstallDb, Undo, Hosts, Databases
<1>24. CASE RestoreEnv
  BY <1>24, <1>h DEF RestoreEnv, Undo, Hosts, Databases
<1>25. CASE RestoreCheckout
  BY <1>25, <1>h DEF RestoreCheckout, Undo, AfterCheckout, Hosts, Databases
<1>26. CASE SetRollbackVersion
  BY <1>26, <1>h DEF SetRollbackVersion, Undo, Hosts, Databases
<1>27. CASE StartOldRelease
  BY <1>27, <1>h, StartedFields DEF StartOldRelease, Undo, Hosts, Databases
<1>28. CASE ReopenTunnel
  BY <1>28, <1>h DEF ReopenTunnel, Undo, Hosts, Databases
<1>29. CASE RestartTimer
  BY <1>29, <1>h DEF RestartTimer, Undo, Hosts, Databases
<1>30. CASE Die
  BY <1>30, <1>h DEF Die, Hosts, Databases
<1>31. CASE UNCHANGED vars
  BY <1>31, <1>h DEF vars, Hosts, Databases
<1> QED
  BY <1>1, <1>2, <1>3, <1>4, <1>5, <1>6, <1>7, <1>8, <1>9, <1>10, <1>11, <1>12, <1>13,
     <1>14, <1>15, <1>16, <1>17, <1>18, <1>19, <1>20, <1>21, <1>22, <1>23, <1>24, <1>25,
     <1>26, <1>27, <1>28, <1>29, <1>30, <1>31 DEF Next

\* A run that no disturbance has hit brings the host back step by step.
LEMMA UndisturbedStep ==
  TypeOK /\ PhaseInv /\ ImagesInv /\ FoundInv /\ UndisturbedInv /\ [Next]_vars
    => UndisturbedInv'
<1> SUFFICES ASSUME TypeOK, PhaseInv, ImagesInv, FoundInv, UndisturbedInv, [Next]_vars,
                    ~disturbed'
             PROVE  UndisturbedInv'
  BY DEF UndisturbedInv
<1> USE ReleaseAssumption
    DEF UndisturbedInv, FoundInv, PhaseInv, ImagesInv, Images, Commits, Recorded, OldImage,
        Prechecked, Untouched, Unopened, Upgraded, Restarted, OldTag, Steps, Phases, history
<1>h. /\ host \in Hosts /\ found \in Hosts
      /\ host.checkout \in Commits /\ host.env \in Versions /\ host.image \in Images
      /\ host.timer \in BOOLEAN /\ host.db.writes \in Nat /\ faults \in Nat
      /\ saved.checkout \in Commits /\ saved.env \in Versions /\ saved.db \in Databases
      /\ saved.timer \in BOOLEAN /\ host.tunnel \in BOOLEAN /\ host.dirty \in BOOLEAN
      /\ New \in Commits /\ New \in Images /\ NoImage \in Images /\ Missing \in Databases
      /\ <<host.checkout, "rollback">> \in Versions /\ <<New, "build">> \in Versions
      /\ <<saved.checkout, "rollback">> \in Versions
  BY DEF TypeOK, Hosts, Databases, Images, Commits, Versions, Missing
<1>1. CASE PublicWrite
  BY <1>1, PublicWriteFields DEF FieldsKept
<1>2. CASE Edit
  BY <1>2, <1>h DEF Edit, Hosts, Databases
<1>3. CASE Begin
  BY <1>3, <1>h DEF Begin, Hosts, Databases
<1>4. CASE Precheck
  BY <1>4, <1>h DEF Precheck, Serving, Hosts, Databases
<1>5. CASE StopTimer
  BY <1>5, <1>h DEF StopTimer, Step, Hosts, Databases
<1>6. CASE RecordOldRelease
  BY <1>6, <1>h DEF RecordOldRelease, Step, Hosts, Databases
<1>7. CASE Merge
  BY <1>7, <1>h DEF Merge, Step, Hosts, Databases
<1>8. CASE Build
  BY <1>8, <1>h DEF Build, Step, Hosts, Databases
<1>9. CASE Preflight
  BY <1>9, <1>h DEF Preflight, Step, Hosts, Databases
<1>10. CASE SetEnv
  BY <1>10, <1>h DEF SetEnv, Step, Hosts, Databases
<1>11. CASE StopTunnel
  BY <1>11, <1>h DEF StopTunnel, Step, Hosts, Databases
<1>12. CASE StopApp
  BY <1>12, <1>h DEF StopApp, Step, Hosts, Databases
<1>13. CASE FinalStatus
  BY <1>13, <1>h DEF FinalStatus, Hosts, Databases
<1>14. CASE FinalBackup
  BY <1>14, <1>h DEF FinalBackup, Step, Hosts, Databases
<1>15. CASE ReleaseCheck
  BY <1>15, <1>h, ReleaseCheckFields DEF FieldsKept
<1>16. CASE UpNew
  BY <1>16, <1>h, UpNewFields, StartedFields, StartedKeeps
<1>17. CASE LocalChecks
  BY <1>17, <1>h DEF LocalChecks, Step, Hosts, Databases
<1>18. CASE OpenTunnel
  BY <1>18, <1>h DEF OpenTunnel, Step, Hosts, Databases
<1>19. CASE PublicChecks
  BY <1>19, <1>h DEF PublicChecks, Step, Hosts, Databases
<1>20. CASE Recover
  BY <1>20, <1>h, RecoverSteps
<1>21. CASE StopFailed
  BY <1>21, <1>h DEF StopFailed, Undo, Hosts, Databases
<1>22. CASE MoveDb
  BY <1>22, <1>h DEF MoveDb, Undo, Hosts, Databases
<1>23. CASE InstallDb
  BY <1>23, <1>h DEF InstallDb, Undo, Hosts, Databases
<1>24. CASE RestoreEnv
  BY <1>24, <1>h DEF RestoreEnv, Undo, Hosts, Databases
<1>25. CASE RestoreCheckout
  BY <1>25, <1>h DEF RestoreCheckout, Undo, AfterCheckout, Hosts, Databases
<1>26. CASE SetRollbackVersion
  BY <1>26, <1>h DEF SetRollbackVersion, Undo, Hosts, Databases
<1>27. CASE StartOldRelease
  <2>1. /\ pc = "up" /\ UNCHANGED <<phase, saved, found, disturbed>>
        /\ host' = Started(host)
        /\ pc' = IF Started(host).image = NoImage THEN "restartTimer" ELSE "reopen"
    BY <1>27 DEF StartOldRelease, Undo
  <2>3. host.tags[host.env] = found.image /\ found.image # NoImage
    BY <1>27, <2>1
  <2>4. Started(host).image = found.image /\ Started(host).db.opened = found.db.opened
    <3>1. Started(host).db.opened = host.db.opened \cup {found.image}
      BY <1>h, <2>3, StartedFields
    <3>2. host.db.opened = found.db.opened /\ found.image \in found.db.opened
      BY <2>1, <2>3
    <3> QED
      BY <1>h, <2>3, <3>1, <3>2, StartedFields
  <2>5. Started(host).tags = host.tags /\ Started(host).env = host.env
    BY <1>h, StartedFields
  <2>6. pc' = "reopen"
    BY <2>1, <2>3, <2>4
  <2> QED
    BY <1>h, <2>1, StartedKeeps, <2>3, <2>4, <2>5, <2>6
<1>28. CASE ReopenTunnel
  <2>1. /\ pc = "reopen" /\ pc' = "restartTimer" /\ UNCHANGED <<phase, saved, found, disturbed>>
        /\ host' = [host EXCEPT !.tunnel = TRUE]
    BY <1>28 DEF ReopenTunnel, Undo
  <2>2. /\ host'.image = host.image /\ host'.tags = host.tags /\ host'.env = host.env
        /\ host'.tunnel = TRUE /\ host'.timer = host.timer
        /\ host'.checkout = host.checkout /\ host'.dirty = host.dirty
        /\ host'.db = host.db
    BY <1>h, <2>1 DEF Hosts
  <2> QED
    BY <1>h, <2>1, <2>2
<1>29. CASE RestartTimer
  BY <1>29, <1>h DEF RestartTimer, Undo, Hosts, Databases
<1>30. CASE Die
  BY <1>30, <1>h DEF Die, Hosts, Databases
<1>31. CASE UNCHANGED vars
  BY <1>31, <1>h DEF vars, Hosts, Databases
<1> QED
  BY <1>1, <1>2, <1>3, <1>4, <1>5, <1>6, <1>7, <1>8, <1>9, <1>10, <1>11, <1>12, <1>13,
     <1>14, <1>15, <1>16, <1>17, <1>18, <1>19, <1>20, <1>21, <1>22, <1>23, <1>24, <1>25,
     <1>26, <1>27, <1>28, <1>29, <1>30, <1>31 DEF Next

\* At most one disturbance in all does not let an image be served unseen.
LEMMA AtMostOnceStep ==
  TypeOK /\ PhaseInv /\ ImagesInv /\ FoundInv /\ UndisturbedInv /\ AtMostOnceInv /\ [Next]_vars
    => AtMostOnceInv'
<1> SUFFICES ASSUME TypeOK, PhaseInv, ImagesInv, FoundInv, UndisturbedInv, AtMostOnceInv,
                    [Next]_vars
             PROVE  AtMostOnceInv'
  OBVIOUS
<1> USE ReleaseAssumption
    DEF AtMostOnceInv, UndisturbedInv, FoundInv, PhaseInv, ImagesInv, Images, Commits,
        Recorded, OldImage, Prechecked, Untouched, Unopened, Upgraded, Restarted, OldTag, Steps,
        Phases, history
<1>h. /\ host \in Hosts /\ found \in Hosts
      /\ host.checkout \in Commits /\ host.env \in Versions /\ host.image \in Images
      /\ host.timer \in BOOLEAN /\ host.db.writes \in Nat /\ faults \in Nat
      /\ saved.checkout \in Commits /\ saved.env \in Versions /\ saved.db \in Databases
      /\ saved.timer \in BOOLEAN /\ host.tunnel \in BOOLEAN /\ host.dirty \in BOOLEAN
      /\ New \in Commits /\ New \in Images /\ NoImage \in Images /\ Missing \in Databases
      /\ <<host.checkout, "rollback">> \in Versions /\ <<New, "build">> \in Versions
      /\ <<saved.checkout, "rollback">> \in Versions
  BY DEF TypeOK, Hosts, Databases, Images, Commits, Versions, Missing
<1>1. CASE PublicWrite
  BY <1>1, PublicWriteFields DEF FieldsKept
<1>2. CASE Edit
  BY <1>2, <1>h DEF Edit, Hosts, Databases
<1>3. CASE Begin
  BY <1>3, <1>h DEF Begin, Hosts, Databases
<1>4. CASE Precheck
  BY <1>4, <1>h DEF Precheck, Serving, Hosts, Databases
<1>5. CASE StopTimer
  BY <1>5, <1>h DEF StopTimer, Step, Hosts, Databases
<1>6. CASE RecordOldRelease
  BY <1>6, <1>h DEF RecordOldRelease, Step, Hosts, Databases
<1>7. CASE Merge
  BY <1>7, <1>h DEF Merge, Step, Hosts, Databases
<1>8. CASE Build
  BY <1>8, <1>h DEF Build, Step, Hosts, Databases
<1>9. CASE Preflight
  BY <1>9, <1>h DEF Preflight, Step, Hosts, Databases
<1>10. CASE SetEnv
  BY <1>10, <1>h DEF SetEnv, Step, Hosts, Databases
<1>11. CASE StopTunnel
  BY <1>11, <1>h DEF StopTunnel, Step, Hosts, Databases
<1>12. CASE StopApp
  BY <1>12, <1>h DEF StopApp, Step, Hosts, Databases
<1>13. CASE FinalStatus
  BY <1>13, <1>h DEF FinalStatus, Hosts, Databases
<1>14. CASE FinalBackup
  BY <1>14, <1>h DEF FinalBackup, Step, Hosts, Databases
<1>15. CASE ReleaseCheck
  BY <1>15, <1>h, ReleaseCheckFields DEF FieldsKept
<1>16. CASE UpNew
  BY <1>16, <1>h, UpNewFields, StartedFields, StartedKeeps
<1>17. CASE LocalChecks
  BY <1>17, <1>h DEF LocalChecks, Step, Hosts, Databases
<1>18. CASE OpenTunnel
  BY <1>18, <1>h DEF OpenTunnel, Step, Hosts, Databases
<1>19. CASE PublicChecks
  BY <1>19, <1>h DEF PublicChecks, Step, Hosts, Databases
<1>20. CASE Recover
  BY <1>20, <1>h, RecoverSteps
<1>21. CASE StopFailed
  BY <1>21, <1>h DEF StopFailed, Undo, Hosts, Databases
<1>22. CASE MoveDb
  BY <1>22, <1>h DEF MoveDb, Undo, Hosts, Databases
<1>23. CASE InstallDb
  BY <1>23, <1>h DEF InstallDb, Undo, Hosts, Databases
<1>24. CASE RestoreEnv
  BY <1>24, <1>h DEF RestoreEnv, Undo, Hosts, Databases
<1>25. CASE RestoreCheckout
  BY <1>25, <1>h DEF RestoreCheckout, Undo, AfterCheckout, Hosts, Databases
<1>26. CASE SetRollbackVersion
  BY <1>26, <1>h DEF SetRollbackVersion, Undo, Hosts, Databases
<1>27. CASE StartOldRelease
  BY <1>27, <1>h, StartedFields DEF StartOldRelease, Undo, Hosts, Databases
<1>28. CASE ReopenTunnel
  BY <1>28, <1>h DEF ReopenTunnel, Undo, Hosts, Databases
<1>29. CASE RestartTimer
  <2>1. pc = "restartTimer" /\ pc' = "ended" /\ UNCHANGED <<phase, saved, found>>
    BY <1>29 DEF RestartTimer, Undo
  <2>2. /\ host'.image = host.image /\ host'.tags = host.tags /\ host'.env = host.env
    BY <1>29, <1>h DEF RestartTimer, Undo, Hosts
  <2>3. \/ (disturbed' <=> disturbed) /\ faults' = faults
        \/ disturbed' /\ faults' = faults + 1
    BY <1>29 DEF RestartTimer, Undo
  <2>5. disturbed' => faults' > 0
    BY <1>h, <2>3
  <2>4. faults = 0 /\ ~disturbed => host.tags[host.env] = host.image
    <3> SUFFICES ASSUME faults = 0, ~disturbed PROVE host.tags[host.env] = host.image
      OBVIOUS
    <3>1. CASE phase \in {"PRECHECK", "ENV_READY"}
      BY <2>1, <3>1
    <3>2. CASE phase \in {"QUIESCING", "VALIDATING"}
      BY <2>1, <3>2
    <3>3. CASE phase \in {"LOCAL_HEALTHY", "COMPLETE"}
      BY <2>1, <3>3
    <3> QED
      BY <3>1, <3>2, <3>3 DEF TypeOK
  <2>6. faults' = 0 => host'.tags[host'.env] = host'.image
    BY <1>h, <2>2, <2>3, <2>4
  <2> QED
    BY <2>1, <2>5, <2>6
<1>30. CASE Die
  BY <1>30, <1>h DEF Die, Hosts, Databases
<1>31. CASE UNCHANGED vars
  BY <1>31, <1>h DEF vars, Hosts, Databases
<1> QED
  BY <1>1, <1>2, <1>3, <1>4, <1>5, <1>6, <1>7, <1>8, <1>9, <1>10, <1>11, <1>12, <1>13,
     <1>14, <1>15, <1>16, <1>17, <1>18, <1>19, <1>20, <1>21, <1>22, <1>23, <1>24, <1>25,
     <1>26, <1>27, <1>28, <1>29, <1>30, <1>31 DEF Next

\* The recovery ends where the host was found, or with the new release in place.
LEMMA RecoveredStep ==
  TypeOK /\ PhaseInv /\ ImagesInv /\ FoundInv /\ UndisturbedInv /\ Recovered /\ [Next]_vars
    => Recovered'
<1> SUFFICES ASSUME TypeOK, PhaseInv, ImagesInv, FoundInv, UndisturbedInv, Recovered,
                    [Next]_vars, pc' = "ended", ~disturbed'
             PROVE  Recovered'
  BY DEF Recovered
<1>h. host \in Hosts /\ phase \in Phases
  BY DEF TypeOK
<1>1. CASE RestartTimer
  <2>1. /\ pc = "restartTimer" /\ UNCHANGED <<phase, saved, found>> /\ ~disturbed
        /\ host' = [host EXCEPT !.timer = host.timer \/ saved.timer]
    BY <1>1 DEF RestartTimer, Undo
  <2>2. /\ host'.image = host.image /\ host'.tags = host.tags /\ host'.env = host.env
        /\ host'.tunnel = host.tunnel /\ host'.checkout = host.checkout
        /\ host'.db = host.db /\ host'.timer = (host.timer \/ saved.timer)
    BY <1>h, <2>1 DEF Hosts
  <2>3. host'.tunnel = found.tunnel /\ host'.timer = found.timer
    BY <2>1, <2>2 DEF UndisturbedInv
  <2>4. CASE phase \in {"PRECHECK", "ENV_READY"}
    BY <2>1, <2>2, <2>3, <2>4 DEF UndisturbedInv, FoundInv, Untouched, Recovered
  <2>5. CASE phase \in {"QUIESCING", "VALIDATING"}
    BY <2>1, <2>2, <2>3, <2>5
       DEF UndisturbedInv, FoundInv, Restarted, OldTag, OldImage, Recovered
  <2>6. CASE phase \in {"LOCAL_HEALTHY", "COMPLETE"}
    BY <2>1, <2>2, <2>3, <2>6, ReleaseAssumption
       DEF FoundInv, Upgraded, ImagesInv, Recovered
  <2> QED
    BY <1>h, <2>4, <2>5, <2>6 DEF Phases
<1>2. CASE PublicWrite
  BY <1>2, PublicWriteFields DEF FieldsKept, Recovered
<1>3. CASE RestoreEnv
  BY <1>3 DEF RestoreEnv, Undo
<1>4. CASE UNCHANGED vars
  BY <1>4 DEF vars, Recovered
<1>5. PublicWrite \/ RestoreEnv \/ RestartTimer \/ UNCHANGED vars
  <2>1. ~Edit /\ ~Die /\ ~Begin
    BY DEF Edit, Die, Begin
  <2>2. /\ ~Precheck /\ ~StopTimer /\ ~RecordOldRelease /\ ~Merge /\ ~Build /\ ~Preflight
        /\ ~SetEnv /\ ~StopTunnel /\ ~StopApp /\ ~FinalStatus /\ ~FinalBackup
        /\ ~ReleaseCheck /\ ~UpNew /\ ~LocalChecks /\ ~OpenTunnel /\ ~PublicChecks
    BY DEF Precheck, StopTimer, RecordOldRelease, Merge, Build, Preflight, SetEnv, StopTunnel,
           StopApp, FinalStatus, FinalBackup, ReleaseCheck, UpNew, LocalChecks, OpenTunnel,
           PublicChecks, Step
  <2>3. ~Recover
    BY <1>h DEF Recover, FirstRecoveryStep, Phases
  <2>4. /\ ~StopFailed /\ ~MoveDb /\ ~InstallDb /\ ~RestoreCheckout
        /\ ~SetRollbackVersion /\ ~StartOldRelease /\ ~ReopenTunnel
    BY DEF StopFailed, MoveDb, InstallDb, RestoreCheckout, AfterCheckout, SetRollbackVersion,
           StartOldRelease, ReopenTunnel, Undo
  <2> QED
    BY <2>1, <2>2, <2>3, <2>4 DEF Next
<1> QED
  BY <1>1, <1>2, <1>3, <1>4, <1>5

\* All of it, with what it is for.
RecoveryInv == FoundInv /\ UndisturbedInv /\ AtMostOnceInv /\ Recovered

\* It holds in every state of every run.
LEMMA RecoveryInvariant == ReleaseSpec => []RecoveryInv
<1>1. Init => FoundInv /\ UndisturbedInv /\ AtMostOnceInv /\ Recovered
  <2> SUFFICES ASSUME Init PROVE FoundInv /\ UndisturbedInv /\ AtMostOnceInv /\ Recovered
    OBVIOUS
  <2>1. /\ host.tags[<<New, "build">>] = NoImage /\ host.tags[host.env] = Old
        /\ host.image = Old /\ host.tunnel /\ host.db.opened = {Old} /\ found = host
    BY ReleaseAssumption DEF Init, Versions, Commits
  <2>2. FoundInv
    BY <2>1 DEF Init, FoundInv, Prechecked, Untouched, Unopened, Upgraded, BackedUp, Recorded,
                Steps
  <2>3. UndisturbedInv
    BY <2>1 DEF Init, UndisturbedInv, Restarted
  <2>4. AtMostOnceInv
    BY <2>1 DEF Init, AtMostOnceInv
  <2>5. Recovered
    BY <2>1 DEF Init, Recovered
  <2> QED
    BY <2>2, <2>3, <2>4, <2>5
<1>2. ReleaseInv /\ RecoveryInv /\ [Next]_vars => RecoveryInv'
  BY FoundStep, UndisturbedStep, AtMostOnceStep, RecoveredStep DEF ReleaseInv, RecoveryInv
<1>3. Init => RecoveryInv
  BY <1>1 DEF RecoveryInv
<1> QED
  BY <1>2, <1>3, ReleaseInvariant, PTL DEF ReleaseSpec

\* A run of the script that no disturbance hits leaves production as it was
\* before, or with the new release throughout, wherever it failed.
THEOREM RecoveredTheorem == ReleaseSpec => []Recovered
<1>1. RecoveryInv => Recovered
  BY DEF RecoveryInv
<1> QED
  BY <1>1, RecoveryInvariant, PTL

\* A step of a run hit by at most one disturbance serves another release only
\* once its local checks have passed, or the one the run found.
LEMMA ServedStep ==
  ReleaseInv /\ RecoveryInv /\ [Next]_vars =>
    (ServedBy(host') \notin {NoImage, ServedBy(host), found.image} /\ faults' < 2
       => phase = "LOCAL_HEALTHY")
<1> SUFFICES ASSUME ReleaseInv, RecoveryInv, [Next]_vars, faults' < 2,
                    ServedBy(host') \notin {NoImage, ServedBy(host), found.image}
             PROVE  phase = "LOCAL_HEALTHY"
  OBVIOUS
<1> USE DEF ReleaseInv, RecoveryInv, ServedBy
<1>h. /\ host \in Hosts /\ phase \in Phases /\ faults \in Nat /\ host.timer \in BOOLEAN
      /\ New \in Commits /\ Missing \in Databases
  BY DEF TypeOK, Commits, Databases, Missing, Hosts
<1>q. host'.tunnel = host.tunnel /\ host'.image = host.image => FALSE
  OBVIOUS
<1>1. CASE PublicWrite
  BY <1>1, <1>q, PublicWriteFields DEF FieldsKept
<1>2. CASE Edit
  BY <1>2, <1>h, <1>q DEF Edit, Hosts
<1>3. CASE Begin
  BY <1>3, <1>q DEF Begin
<1>4. CASE Precheck \/ FinalStatus \/ Recover \/ Die \/ UNCHANGED vars
  BY <1>4, <1>q DEF Precheck, FinalStatus, Recover, Die, vars
<1>5. CASE StopTimer \/ RecordOldRelease \/ Merge \/ Build \/ SetEnv
  BY <1>5, <1>h, <1>q DEF StopTimer, RecordOldRelease, Merge, Build, SetEnv, Step, Hosts
<1>6. CASE Preflight \/ FinalBackup \/ LocalChecks \/ PublicChecks
  BY <1>6, <1>q DEF Preflight, FinalBackup, LocalChecks, PublicChecks, Step
<1>7. CASE StopTunnel \/ StopApp
  BY <1>7, <1>h DEF StopTunnel, StopApp, Step, Hosts
<1>8. CASE ReleaseCheck
  BY <1>8, <1>q, ReleaseCheckFields DEF FieldsKept
<1>9. CASE UpNew
  BY <1>9, <1>h, StartedFields DEF UpNew, Step, WritesInv, Closed
<1>10. CASE OpenTunnel
  BY <1>10 DEF OpenTunnel, Step, PhaseInv
<1>11. CASE StopFailed
  BY <1>11, <1>h, <1>q DEF StopFailed, Undo, Hosts
<1>12. CASE MoveDb \/ InstallDb \/ RestoreEnv \/ RestoreCheckout \/ SetRollbackVersion
  BY <1>12, <1>h, <1>q
     DEF MoveDb, InstallDb, RestoreEnv, RestoreCheckout, SetRollbackVersion, Undo, Hosts
<1>13. CASE StartOldRelease
  <2>1. pc = "up" /\ host' \in {host, Started(host)} /\ faults < 2
    BY <1>13, <1>h DEF StartOldRelease, Undo
  <2>2. host.tags[host.env] = found.image
    BY <2>1 DEF AtMostOnceInv
  <2>3. \/ Started(host) = host
        \/ Started(host).tunnel = host.tunnel /\ Started(host).image = found.image
    BY <1>h, <2>2, StartedFields
  <2> QED
    BY <1>q, <2>1, <2>3
<1>14. CASE ReopenTunnel
  <2>1. /\ pc = "reopen" /\ faults < 2 /\ host'.image = host.image
    BY <1>14, <1>h DEF ReopenTunnel, Undo, Hosts
  <2>2. phase \in {"QUIESCING", "VALIDATING"} => host.image = found.image
    BY <2>1 DEF AtMostOnceInv
  <2> QED
    BY <2>1, <2>2 DEF PhaseInv
<1>15. CASE RestartTimer
  BY <1>15, <1>h, <1>q DEF RestartTimer, Undo, Hosts
<1> QED
  BY <1>1, <1>2, <1>3, <1>4, <1>5, <1>6, <1>7, <1>8, <1>9, <1>10, <1>11, <1>12, <1>13, <1>14,
     <1>15 DEF Next

\* The public is not moved to another release before its local checks pass,
\* unless two disturbances have hit the script.
THEOREM OnlyCheckedServedTheorem == ReleaseSpec => OnlyCheckedServed
<1>1. ReleaseInv /\ RecoveryInv /\ [Next]_vars =>
        [ServedBy(host') \notin {NoImage, ServedBy(host), found.image} /\ faults' < 2
           => phase = "LOCAL_HEALTHY"]_vars
  BY ServedStep
<1> QED
  BY <1>1, ReleaseInvariant, RecoveryInvariant, PTL DEF ReleaseSpec, OnlyCheckedServed

=============================================================================
