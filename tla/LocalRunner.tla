------------------------------ MODULE LocalRunner ------------------------------
(***************************************************************************)
(* The development mode (internal/local/runner.go): apply haproxy.cfg      *)
(* once, then watch the file and apply every change of it.  The editor,    *)
(* inotify and the gateway move between any two steps of the runner.       *)
(***************************************************************************)
EXTENDS Dataplane

CONSTANTS
  Watch,           (* --local-watch                                         *)
  Missing,         (* nothing readable under CfgPath                        *)
  MaxSaves,        (* bound: times the file is saved or removed             *)
  MaxWatchFaults,  (* bound: calls of fsnotify that fail for other reasons  *)
  MaxCrashes       (* bound: times the runner is killed                     *)

maxApplyAttempts == 5

ASSUME LocalAssumption ==
  /\ Watch \in BOOLEAN /\ Missing \notin Configs /\ Empty \in Configs
  /\ MaxSaves \in Nat /\ MaxWatchFaults \in Nat /\ MaxCrashes \in Nat

VARIABLES
  file,        (* what a read of CfgPath finds                              *)
  saving,      (* what an editor that truncated the file has still to write *)
  watches,     (* which of the file's inode and its directory is watched    *)
  pending,     (* undelivered events the loop will not skip                 *)
  saves, watchFaults, crashes,
  pc, attempt, (* where Run is; which attempt of applyWithRetry             *)
  loaded,      (* what the last attempt read                                *)
  lastHash,    (* Run's lastHash, Absent up to the first apply              *)
  unseen,      (* history: the last change raised no event, nor was it read *)
  disturbed,   (* history: the gateway may have changed since the last      *)
               (* apply that was answered                                   *)
  gaveUp       (* history: the last apply was given up                      *)

editorVars == <<file, saving, saves>>
runnerVars == <<pc, attempt, loaded, lastHash>>
watchVars  == <<watches, pending, watchFaults>>
localVars  == <<gatewayVars, editorVars, runnerVars, watchVars, crashes, unseen, disturbed, gaveUp>>

-----------------------------------------------------------------------------
(* applyWithRetry: what fails is tried again from the file up to the fifth *)
(* attempt, whatever the error.  The first apply that is given up ends the *)
(* process, a later one is dropped.                                        *)

(* Variant: one attempt too many. *)
AttemptFails_OneTooMany ==
  IF attempt <= maxApplyAttempts
    THEN attempt' = attempt + 1 /\ pc' = "load" /\ UNCHANGED gaveUp
    ELSE /\ attempt' = 0 /\ gaveUp' = TRUE
         /\ pc' = IF lastHash = Absent THEN "stopped" ELSE "watching"

AttemptFails ==
  IF attempt < maxApplyAttempts
    THEN attempt' = attempt + 1 /\ pc' = "load" /\ UNCHANGED gaveUp
    ELSE /\ attempt' = 0 /\ gaveUp' = TRUE
         /\ pc' = IF lastHash = Absent THEN "stopped" ELSE "watching"

(* LoadFromFile *)
Unreadable == file = Missing

Load ==
  /\ pc = "load"
  /\ loaded' = file /\ unseen' = FALSE
  /\ IF Unreadable
       THEN AttemptFails
       ELSE pc' = "validate" /\ UNCHANGED <<attempt, gaveUp>>
  /\ UNCHANGED <<gatewayVars, editorVars, watchVars, lastHash, crashes, disturbed>>

(* ApplyRawConfiguration: waitForReady, validate, then applyRaw. *)

Goto(step) == pc' = step /\ UNCHANGED <<attempt, gaveUp>>

Validate ==
  /\ pc = "validate"
  /\ \/ ~Refuses(loaded) /\ Goto("read version") /\ UNCHANGED gatewayVars
     \/ Refuses(loaded) /\ AttemptFails /\ UNCHANGED gatewayVars
     \/ \E e \in Errors \cup {VersionCheckError(x) : x \in Errors} : ValidateError(e) /\ AttemptFails
  /\ UNCHANGED <<editorVars, watchVars, loaded, lastHash, crashes, unseen, disturbed>>

ReadConfigVersion ==
  /\ pc = "read version"
  /\ \/ ReadVersion /\ Goto("post")
     \/ \E e \in {VersionCheckError(x) : x \in Errors} : VersionError(e) /\ AttemptFails
  /\ UNCHANGED <<editorVars, watchVars, loaded, lastHash, crashes, unseen, disturbed>>

(* Variant: the file is hashed again once the apply has succeeded. *)
AppliedHash_FileNow == IF file = Missing THEN HashBytes(loaded) ELSE HashBytes(file)

(* applyOnce hashes the bytes it sends. *)
AppliedHash == HashBytes(loaded)

Applied ==
  /\ pc = "post"
  /\ PostAccepted(loaded)
  /\ lastHash' = AppliedHash
  /\ attempt' = 0
  /\ \/ lastHash # Absent /\ pc' = "watching"
     \/ lastHash = Absent /\ pc' = IF Watch THEN "add file" ELSE "waiting"
  /\ disturbed' = FALSE /\ gaveUp' = FALSE
  /\ UNCHANGED <<editorVars, watchVars, loaded, crashes, unseen>>

(* What passed the validation is not refused here: the development stack   *)
(* stores no certificates that could have been removed in between.         *)
ApplyFails ==
  /\ pc = "post"
  /\ \/ PostConflicts /\ UNCHANGED disturbed
     \/ \E e \in Errors : RequestError(e) /\ UNCHANGED disturbed
     \/ \E e \in Errors : PostAnswerLost(loaded, e) /\ disturbed' = TRUE
     \/ \E e \in Errors : PostDelayed(loaded, e) /\ disturbed' = TRUE
  /\ AttemptFails
  /\ UNCHANGED <<editorVars, watchVars, loaded, lastHash, crashes, unseen>>

-----------------------------------------------------------------------------
(* addWatches, after the first apply: the file, then its directory.        *)

WatchFault == watchFaults < MaxWatchFaults /\ watchFaults' = watchFaults + 1

NewWatcherFails ==
  /\ pc = "add file" /\ WatchFault
  /\ pc' = "stopped"
  /\ UNCHANGED <<gatewayVars, editorVars, watches, pending, attempt, loaded, lastHash, crashes,
                 unseen, disturbed, gaveUp>>

AddFile ==
  /\ pc = "add file"
  /\ \/ /\ file # Missing /\ pc' = "add directory"
        /\ watches' = watches \cup {"file"} /\ UNCHANGED watchFaults
     \/ /\ pc' = "add directory or fail"
        /\ (file = Missing /\ UNCHANGED watchFaults) \/ (file # Missing /\ WatchFault)
        /\ UNCHANGED watches
  /\ UNCHANGED <<gatewayVars, editorVars, pending, attempt, loaded, lastHash, crashes,
                 unseen, disturbed, gaveUp>>

(* Only both failures are an error, whatever has become of the first watch *)
(* by the time the second fails.                                           *)
AddDirectory ==
  /\ pc \in {"add directory", "add directory or fail"}
  /\ \/ watches' = watches \cup {"directory"} /\ pc' = "watching" /\ UNCHANGED watchFaults
     \/ /\ WatchFault /\ UNCHANGED watches
        /\ pc' = IF pc = "add directory or fail" THEN "stopped" ELSE "watching"
  /\ UNCHANGED <<gatewayVars, editorVars, pending, attempt, loaded, lastHash, crashes,
                 unseen, disturbed, gaveUp>>

-----------------------------------------------------------------------------
(* The watch loop.  After the debounce the file is read for its hash only; *)
(* applyWithRetry reads it again.                                          *)

TakeEvent ==
  /\ pc = "watching" /\ pending > 0
  /\ pending' = pending - 1
  /\ pc' = "reread"
  /\ UNCHANGED <<gatewayVars, editorVars, watches, watchFaults, attempt, loaded, lastHash, crashes,
                 unseen, disturbed, gaveUp>>

Reread ==
  /\ pc = "reread"
  /\ unseen' = FALSE
  /\ \/ Unreadable /\ Goto("watching")
     \/ ~Unreadable /\ HashBytes(file) = lastHash /\ pc' = "watching" /\ gaveUp' = FALSE /\ UNCHANGED attempt
     \/ ~Unreadable /\ HashBytes(file) # lastHash /\ pc' = "load" /\ attempt' = 1 /\ UNCHANGED gaveUp
  /\ UNCHANGED <<gatewayVars, editorVars, watchVars, loaded, lastHash, crashes, disturbed>>

-----------------------------------------------------------------------------
(* The editor.  A watch on the file is a watch on its inode: it sees the   *)
(* file written in place and is lost when another file takes its name or   *)
(* it is removed; a watch on the directory sees both.                      *)

(* Variant: only writes are handled. *)
RelevantOps_WriteOnly == {"write"}

RelevantOps == {"write", "create", "rename"}

(* Each watch that sees the change raises an event; inotify may coalesce   *)
(* them.                                                                   *)
Notify(seenBy, op) ==
  LET seen == IF op \in RelevantOps THEN seenBy ELSE {}
  IN  /\ pending' \in IF seen = {} THEN {pending} ELSE (pending + 1) .. (pending + Cardinality(seen))
      /\ unseen' = (seenBy = {})

Editor ==
  /\ saves < MaxSaves /\ saves' = saves + 1
  /\ UNCHANGED <<gatewayVars, runnerVars, watchFaults, crashes, disturbed, gaveUp>>

(* Saving in place truncates the file first. *)
Truncate ==
  /\ Editor
  /\ file # Missing /\ saving = NoConfig
  /\ saving' \in Configs \ {Empty} /\ file' = Empty
  /\ Notify(watches, "write")
  /\ UNCHANGED watches

FinishSave ==
  /\ saving # NoConfig
  /\ file' = saving /\ saving' = NoConfig
  /\ Notify(watches, "write")
  /\ UNCHANGED <<gatewayVars, runnerVars, saves, watches, watchFaults, crashes, disturbed, gaveUp>>

(* An atomic save: another file is renamed to CfgPath. *)
Replace ==
  /\ Editor
  /\ saving = NoConfig
  /\ \E c \in Configs \ {file} : file' = c
  /\ Notify(watches \cap {"directory"}, "create")
  /\ watches' = watches \ {"file"}
  /\ UNCHANGED saving

Remove ==
  /\ Editor
  /\ file # Missing /\ saving = NoConfig
  /\ file' = Missing
  /\ Notify(watches, "remove")
  /\ watches' = watches \ {"file"}
  /\ UNCHANGED saving

-----------------------------------------------------------------------------
(* The gateway and the container.                                          *)

GatewayMoves ==
  /\ \/ LatePostLands
     \/ \E b \in Foreign : OutOfBandWrite(b)
  /\ disturbed' = TRUE
  /\ UNCHANGED <<editorVars, runnerVars, watchVars, crashes, unseen, gaveUp>>

(* A new process: watches and events die with the old one. *)
StartAgain ==
  /\ pc' = "load" /\ attempt' = 1 /\ loaded' = Missing /\ lastHash' = Absent
  /\ watches' = {} /\ pending' = 0
  /\ unseen' = FALSE /\ gaveUp' = FALSE
  /\ held' = FALSE
  /\ UNCHANGED <<live, stored, faults, drifts, editorVars, watchFaults>>

(* Run returned an error: the container's restart policy. *)
RestartStopped ==
  /\ pc = "stopped"
  /\ StartAgain
  /\ UNCHANGED <<late, disturbed, crashes>>

(* The runner is killed; a POST it had sent may still land. *)
Kill ==
  /\ crashes < MaxCrashes /\ crashes' = crashes + 1
  /\ StartAgain
  /\ late' \in {late} \cup IF pc = "post" /\ held /\ ~Refuses(loaded) THEN {loaded} ELSE {}
  /\ disturbed' = (disturbed \/ late' # NoConfig)

-----------------------------------------------------------------------------
LocalInit ==
  /\ file \in Configs \cup {Missing} /\ saving = NoConfig /\ saves = 0
  /\ watches = {} /\ pending = 0 /\ watchFaults = 0 /\ crashes = 0
  /\ pc = "load" /\ attempt = 1 /\ loaded = Missing /\ lastHash = Absent
  /\ unseen = FALSE /\ disturbed = FALSE /\ gaveUp = FALSE
  /\ live \in Foreign /\ held = FALSE /\ late = NoConfig
  /\ stored = [k \in CertNames |-> NoBundle]
  /\ faults = 0 /\ drifts = 0

Run ==
  \/ Load \/ Validate \/ ReadConfigVersion \/ Applied \/ ApplyFails
  \/ NewWatcherFails \/ AddFile \/ AddDirectory \/ TakeEvent \/ Reread

LocalNext ==
  \/ Run \/ RestartStopped \/ Kill
  \/ Truncate \/ FinishSave \/ Replace \/ Remove \/ GatewayMoves

LocalSpec == LocalInit /\ [][LocalNext]_localVars

(* Run never stops by itself and a stopped container is restarted.         *)
(* Nothing is assumed of the editor, the gateway and the network.          *)
FairLocalSpec == LocalSpec /\ WF_localVars(Run) /\ WF_localVars(RestartStopped)

-----------------------------------------------------------------------------
(* Every variable keeps its type, and attempts are counted only while one  *)
(* is under way (applyWithRetry).                                          *)
LocalTypeOK ==
  /\ file \in Configs \cup {Missing} /\ saving \in Configs \cup {NoConfig}
  /\ watches \subseteq {"file", "directory"} /\ pending \in Nat
  /\ pc \in {"load", "validate", "read version", "post", "add file", "add directory",
             "add directory or fail", "watching", "reread", "waiting", "stopped"}
  /\ IF pc \in {"load", "validate", "read version", "post"}
       THEN attempt \in 1 .. maxApplyAttempts ELSE attempt = 0
  /\ loaded \in Configs \cup {Missing} /\ lastHash \in Hashes \cup {Absent}
  /\ live \in Bytes /\ late \in Configs \cup {NoConfig} /\ held \in BOOLEAN
  /\ unseen \in BOOLEAN /\ disturbed \in BOOLEAN /\ gaveUp \in BOOLEAN

(* lastHash names the configuration the gateway runs, although the file    *)
(* may be saved between the read for the hash, the read for the apply and  *)
(* the answer (applyOnce, runner.go:59-69).                                *)
LastHashIsLive ==
  ~disturbed => \A c \in Configs : lastHash = HashBytes(c) => live = Normalize[c]

GivenUp == gaveUp /\ file = loaded
Noticed == file # Missing /\ ~unseen /\ ~disturbed /\ ~GivenUp

(* When the loop has no event left to look at, the gateway runs what the   *)
(* file holds: a save during an apply, a debounce or a failed attempt is   *)
(* not lost (runner.go:104-134).                                           *)
QuietMeansApplied == pc = "watching" /\ pending = 0 /\ Noticed => live = Normalize[file]

(* A save that raised an event or was read ends up on the gateway, unless  *)
(* it is refused or five attempts in a row failed.                         *)
SavesReachGateway == <>[](Watch /\ Noticed /\ ~Refuses(file) => live = Normalize[file])
=============================================================================
