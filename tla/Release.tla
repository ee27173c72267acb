------------------------------- MODULE Release -------------------------------
(***************************************************************************)
(* The release script deploy/update.sh against the production host: the   *)
(* linear sequence of its steps, and the recovery its EXIT trap runs, which *)
(* depends on the PHASE the script had reached.  A step may fail, or be     *)
(* interrupted, before or after its effect; a step of the recovery may fail *)
(* too; SIGKILL ends the script where it stands.  Meanwhile the public      *)
(* writes to the database whenever the tunnel is open and an app is up.     *)
(*                                                                         *)
(* An image is identified by the commit it was built from, an APP_VERSION   *)
(* by the pair <<commit, "build" | "rollback">> its image tag is made of.   *)
(* The file lock (flock) leaves one script at a time.                      *)
(***************************************************************************)
EXTENDS Naturals

CONSTANTS
  Old, New,     \* the commit in production at first, and UPDATE_TARGET
  MaxWrites,    \* bound on the public writes
  MaxUpdates,   \* bound on the runs of the script
  MaxFaults     \* bound on failed recovery steps, edits and kills

NoImage == "no image"

ASSUME ReleaseAssumption ==
  /\ Old # New /\ NoImage \notin {Old, New}
  /\ MaxWrites \in Nat /\ MaxUpdates \in Nat /\ MaxFaults \in Nat

VARIABLES
  pc,        \* the next step of the script or of its recovery
  phase,     \* PHASE, the phases its trap treats alike taken as one
  host,      \* checkout, .env, image tags, running image, tunnel, timer, database
  saved,     \* what the script keeps: old commit, env.before, timer, pre-upgrade.db
  accepted,  \* history: public writes acknowledged so far
  found,     \* history: the host as the last script found it
  disturbed, \* history: a recovery step failed, the checkout was edited, or the script killed
  faults,    \* number of such disturbances over all scripts
  updates    \* number of scripts started

vars == <<pc, phase, host, saved, accepted, found, disturbed, faults, updates>>
history == <<accepted, found, disturbed, faults, updates>>

Commits == {Old, New}
Images == Commits \cup {NoImage}
Versions == Commits \X {"build", "rollback"}

\* "opened" names the releases that have opened (and may have rewritten) the file.
Databases == [writes : Nat, open : BOOLEAN, opened : SUBSET Commits]
Missing == [writes |-> 0, open |-> FALSE, opened |-> {}]

Hosts == [checkout : Commits, dirty : BOOLEAN, env : Versions,
          tags : [Versions -> Images], image : Images,
          tunnel : BOOLEAN, timer : BOOLEAN, db : Databases]

Steps == {"precheck", "stopTimer", "record", "merge", "build", "preflight",
          "setEnv", "stopTunnel", "stopApp", "finalStatus", "finalBackup",
          "releaseCheck", "upNew", "localChecks", "openTunnel", "publicChecks"}
Recovery == {"recover", "stopFailed", "moveDb", "installDb", "env", "version",
             "checkout", "up", "reopen", "restartTimer"}
Phases == {"PRECHECK", "ENV_READY", "QUIESCING", "VALIDATING",
           "LOCAL_HEALTHY", "COMPLETE"}

TypeOK ==
  /\ pc \in Steps \cup Recovery \cup {"ended"}
  /\ phase \in Phases
  /\ host \in Hosts
  /\ saved \in [checkout : Commits, env : Versions, timer : BOOLEAN, db : Databases]
  /\ accepted \in Nat
  /\ found \in Hosts
  /\ disturbed \in BOOLEAN
  /\ faults \in Nat
  /\ updates \in Nat

Serving(h) == h.tunnel /\ h.image # NoImage
ServedBy(h) == IF h.tunnel THEN h.image ELSE NoImage

-----------------------------------------------------------------------------
(* The world around the script *)

\* Production: the old release up behind the tunnel, its round closed.
Init ==
  /\ pc = "ended" /\ phase = "PRECHECK"
  /\ host = [checkout |-> Old, dirty |-> FALSE, env |-> <<Old, "build">>,
             tags |-> [v \in Versions |-> IF v = <<Old, "build">> THEN Old ELSE NoImage],
             image |-> Old, tunnel |-> TRUE, timer |-> TRUE,
             db |-> [writes |-> 0, open |-> FALSE, opened |-> {Old}]]
  /\ saved = [checkout |-> Old, env |-> <<Old, "build">>, timer |-> FALSE, db |-> Missing]
  /\ accepted = 0 /\ found = host
  /\ disturbed = FALSE /\ faults = 0 /\ updates = 0

\* A request from the public address commits: a claim, or an administrator's
\* change, which may also open or close the round.
PublicWrite ==
  /\ Serving(host) /\ accepted < MaxWrites
  /\ \E open \in BOOLEAN :
       host' = [host EXCEPT !.db.writes = @ + 1, !.db.open = open]
  /\ accepted' = accepted + 1
  /\ UNCHANGED <<pc, phase, saved, found, disturbed, faults, updates>>

\* Somebody changes a file of the checkout while a script runs.
Edit ==
  /\ pc # "ended" /\ faults < MaxFaults
  /\ host' = [host EXCEPT !.dirty = TRUE]
  /\ disturbed' = TRUE /\ faults' = faults + 1
  /\ UNCHANGED <<pc, phase, saved, accepted, found, updates>>

\* An operator starts the script; its variables start afresh.
Begin ==
  /\ pc = "ended" /\ updates < MaxUpdates
  /\ pc' = "precheck" /\ phase' = "PRECHECK"
  /\ saved' = [checkout |-> host.checkout, env |-> host.env, timer |-> FALSE, db |-> Missing]
  /\ found' = host /\ disturbed' = FALSE /\ updates' = updates + 1
  /\ UNCHANGED <<host, accepted, faults>>

-----------------------------------------------------------------------------
(* The steps of the script *)

\* A step brings the host to "after" and the script to the next step, or it
\* fails (set -e) or is interrupted, with its effect or without it: the EXIT
\* trap then runs in the phase the script was in.
Step(at, after, next, reached) ==
  /\ pc = at
  /\ \/ host' = after /\ pc' = next /\ phase' = reached
     \/ host' \in {host, after} /\ pc' = "recover" /\ phase' = phase
  /\ UNCHANGED history

Precheck ==
  /\ pc = "precheck"
  /\ \/ /\ ~host.dirty /\ Serving(host) /\ ~host.db.open
        /\ pc' = "stopTimer"
     \/ pc' = "recover"
  /\ UNCHANGED <<phase, host, saved>> /\ UNCHANGED history

\* Slip: the timer is stopped before its state is noted.
StopTimerFirst ==
  /\ Step("stopTimer", [host EXCEPT !.timer = FALSE], "record", phase)
  /\ saved' = [saved EXCEPT !.timer = FALSE]

\* The timer's state is noted before the timer is stopped.
StopTimer ==
  /\ Step("stopTimer", [host EXCEPT !.timer = FALSE], "record", phase)
  /\ saved' = [saved EXCEPT !.timer = host.timer]

\* Commit, image (under its rollback tag) and env.before; the online backup
\* made for the rehearsal leaves no state behind that a later step uses.
RecordOldRelease ==
  /\ Step("record", [host EXCEPT !.tags[<<host.checkout, "rollback">>] = host.image],
          "merge", phase)
  /\ saved' = [saved EXCEPT !.checkout = host.checkout, !.env = host.env]

\* An interrupted merge leaves files of the target under the old HEAD.
Merge ==
  /\ \/ Step("merge", [host EXCEPT !.checkout = New], "build", phase)
     \/ /\ pc = "merge" /\ pc' = "recover"
        /\ host' = [host EXCEPT !.dirty = TRUE]
        /\ UNCHANGED phase /\ UNCHANGED history
  /\ UNCHANGED saved

Build ==
  /\ Step("build", [host EXCEPT !.tags[<<New, "build">>] = New], "preflight", phase)
  /\ UNCHANGED saved

\* release-check on a copy of the database.
Preflight ==
  /\ Step("preflight", host, "setEnv", "ENV_READY")
  /\ UNCHANGED saved

SetEnv ==
  /\ Step("setEnv", [host EXCEPT !.env = <<New, "build">>], "stopTunnel", "QUIESCING")
  /\ UNCHANGED saved

StopTunnel ==
  /\ Step("stopTunnel", [host EXCEPT !.tunnel = FALSE], "stopApp", phase)
  /\ UNCHANGED saved

StopApp ==
  /\ Step("stopApp", [host EXCEPT !.image = NoImage], "finalStatus", phase)
  /\ UNCHANGED saved

\* The round may have been opened since the first look at it.
FinalStatus ==
  /\ pc = "finalStatus"
  /\ \/ ~host.db.open /\ pc' = "finalBackup"
     \/ pc' = "recover"
  /\ UNCHANGED <<phase, host, saved>> /\ UNCHANGED history

\* Slip: the phase is not advanced before the new release opens the database.
FinalBackupQuiescing ==
  /\ Step("finalBackup", host, "releaseCheck", phase)
  /\ saved' = [saved EXCEPT !.db = host.db]

\* pre-upgrade.db, verified against its checksum; ROLLBACK_READY.
FinalBackup ==
  /\ Step("finalBackup", host, "releaseCheck", "VALIDATING")
  /\ saved' = [saved EXCEPT !.db = host.db]

\* release_check on the live database: the new release opens it, and the
\* business digests before and after must agree.
ReleaseCheck ==
  LET checked == [host EXCEPT !.db.opened = @ \cup {New}]
  IN /\ \/ Step("releaseCheck", checked, "upNew", phase)
        \/ /\ pc = "releaseCheck" /\ pc' = "recover"
           /\ \E kept \in 0 .. host.db.writes : host' = [checked EXCEPT !.db.writes = kept]
           /\ UNCHANGED phase /\ UNCHANGED history
     /\ UNCHANGED saved

\* docker compose up: the image APP_VERSION names opens the database.
Started(h) ==
  IF h.tags[h.env] = NoImage THEN h
  ELSE [h EXCEPT !.image = h.tags[h.env], !.db.opened = @ \cup {h.tags[h.env]}]

\* The running image must be the one rehearsed.
UpNew ==
  /\ Step("upNew", Started(host),
          IF Started(host).image = New THEN "localChecks" ELSE "recover", phase)
  /\ UNCHANGED saved

\* Slip: LOCAL_HEALTHY is noted only once the tunnel has been opened.
LocalChecksUnnoted ==
  /\ Step("localChecks", host, "openTunnel", phase)
  /\ UNCHANGED saved

LocalChecks ==
  /\ Step("localChecks", host, "openTunnel", "LOCAL_HEALTHY")
  /\ UNCHANGED saved

OpenTunnel ==
  /\ Step("openTunnel", [host EXCEPT !.tunnel = TRUE], "publicChecks", phase)
  /\ UNCHANGED saved

\* The trap also runs after the last step, and finds nothing to undo.
PublicChecks ==
  /\ Step("publicChecks", host, "recover", "COMPLETE")
  /\ UNCHANGED saved

-----------------------------------------------------------------------------
(* on_exit and restore_old_release *)

\* Slip: a failure in the maintenance window leaves the new version in .env.
FirstRecoveryKeepingEnv ==
  [PRECHECK |-> "checkout", ENV_READY |-> "env", QUIESCING |-> "checkout",
   VALIDATING |-> "stopFailed", LOCAL_HEALTHY |-> "reopen", COMPLETE |-> "restartTimer"]

FirstRecoveryStep ==
  [PRECHECK |-> "checkout", ENV_READY |-> "env", QUIESCING |-> "env",
   VALIDATING |-> "stopFailed", LOCAL_HEALTHY |-> "reopen", COMPLETE |-> "restartTimer"]

Recover ==
  /\ pc = "recover"
  /\ pc' = FirstRecoveryStep[phase]
  /\ UNCHANGED <<phase, host, saved>> /\ UNCHANGED history

\* A step of the recovery succeeds and goes to "next", or fails, perhaps with
\* part of its effect ("left"), and goes to "otherwise".
Undo(at, after, next, left, otherwise) ==
  /\ pc = at
  /\ \/ host' = after /\ pc' = next /\ UNCHANGED <<disturbed, faults>>
     \/ /\ faults < MaxFaults
        /\ host' \in left /\ pc' = otherwise
        /\ disturbed' = TRUE /\ faults' = faults + 1
  /\ UNCHANGED <<phase, saved, accepted, found, updates>>

\* restore_old_release gives up at its first failure.
StopFailed ==
  Undo("stopFailed", [host EXCEPT !.image = NoImage], "moveDb", {host}, "restartTimer")

MoveDb ==
  LET moved == [host EXCEPT !.db = Missing]
  IN Undo("moveDb", moved, "installDb", {host, moved}, "restartTimer")

InstallDb ==
  Undo("installDb", [host EXCEPT !.db = saved.db], "env", {host}, "restartTimer")

\* Without "|| true" in the ENV phases, where a failure aborts the trap itself.
RestoreEnv ==
  Undo("env", [host EXCEPT !.env = saved.env],
       IF phase = "QUIESCING" THEN "version" ELSE "checkout",
       {host},
       CASE phase = "ENV_READY" -> "ended"
         [] phase = "QUIESCING" -> "version"
         [] OTHER -> "restartTimer")

AfterCheckout ==
  CASE phase \in {"PRECHECK", "ENV_READY"} -> "restartTimer"
    [] phase = "QUIESCING" -> "up"
    [] OTHER -> "version"

\* A tree with changes of its own is left alone.
RestoreCheckout ==
  LET refused == host.checkout # saved.checkout /\ host.dirty
      failed == IF phase = "VALIDATING" THEN "restartTimer" ELSE AfterCheckout
  IN Undo("checkout",
          IF refused THEN host ELSE [host EXCEPT !.checkout = saved.checkout],
          IF refused THEN failed ELSE AfterCheckout, {host}, failed)

\* set_env may fail unnoticed: its last command only counts the key's lines.
SetRollbackVersion ==
  \E noticed \in BOOLEAN :
    LET next == IF phase = "QUIESCING" THEN "checkout" ELSE "up"
    IN Undo("version", [host EXCEPT !.env = <<saved.checkout, "rollback">>], next, {host},
            IF noticed /\ phase = "VALIDATING" THEN "restartTimer" ELSE next)

\* Unless the app is up and healthy the tunnel stays closed.
StartOldRelease ==
  Undo("up", Started(host),
       IF Started(host).image = NoImage THEN "restartTimer" ELSE "reopen",
       {host, Started(host)}, "restartTimer")

ReopenTunnel ==
  Undo("reopen", [host EXCEPT !.tunnel = TRUE], "restartTimer",
       {IF phase = "VALIDATING" THEN [host EXCEPT !.tunnel = FALSE] ELSE host},
       "restartTimer")

RestartTimer ==
  Undo("restartTimer", [host EXCEPT !.timer = @ \/ saved.timer], "ended",
       {host}, "ended")

\* SIGKILL anywhere, or another signal once the trap is running: "trap - EXIT"
\* has already removed the trap, and "exit" ends the script.
Die ==
  /\ pc # "ended" /\ faults < MaxFaults
  /\ pc' = "ended" /\ disturbed' = TRUE /\ faults' = faults + 1
  /\ UNCHANGED <<phase, host, saved, accepted, found, updates>>

Next ==
  \/ PublicWrite \/ Edit \/ Begin
  \/ Precheck \/ StopTimer \/ RecordOldRelease \/ Merge \/ Build \/ Preflight
  \/ SetEnv \/ StopTunnel \/ StopApp \/ FinalStatus \/ FinalBackup
  \/ ReleaseCheck \/ UpNew \/ LocalChecks \/ OpenTunnel \/ PublicChecks
  \/ Recover \/ StopFailed \/ MoveDb \/ InstallDb \/ RestoreEnv
  \/ RestoreCheckout \/ SetRollbackVersion \/ StartOldRelease
  \/ ReopenTunnel \/ RestartTimer \/ Die

ReleaseSpec == Init /\ [][Next]_vars

-----------------------------------------------------------------------------
(* Properties *)

\* Whatever fails, is interrupted or is rolled back, the database the public
\* is served from holds every write the public was told had been made.
WritesKept == Serving(host) => host.db.writes = accepted

\* Image and database go together: the old image never runs on a database the
\* new release has opened.
Paired == host.image = Old => New \notin host.db.opened

\* When a script ends and its recovery was not itself disturbed, production is
\* what it was before (image, checkout, version, tunnel and backup timer, on a
\* database the new release never opened), or it is the new release throughout.
Recovered ==
  pc = "ended" /\ ~disturbed =>
    /\ host.tunnel = found.tunnel /\ host.timer = found.timer
    /\ \/ /\ host.image = found.image /\ host.checkout = found.checkout
          /\ host.env = found.env \/ host.tags[host.env] = host.image
          /\ host.db.opened = found.db.opened
       \/ /\ host.image = New /\ host.checkout = New /\ host.tags[host.env] = New
          /\ New \in host.db.opened

\* A release the public was not served before is served only once its local
\* checks passed; it takes two disturbances to break this.
OnlyCheckedServed ==
  [][ ServedBy(host') \notin {NoImage, ServedBy(host), found.image} /\ faults' < 2
        => phase = "LOCAL_HEALTHY" ]_vars
=============================================================================
