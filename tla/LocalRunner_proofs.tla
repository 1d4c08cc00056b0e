--------------------------- MODULE LocalRunner_proofs ---------------------------
(***************************************************************************)
(* Proofs about LocalRunner: what the runner remembers is what the gateway *)
(* runs, and no change of the file it could notice is lost, for every set  *)
(* of configurations and errors and every bound.                           *)
(***************************************************************************)
EXTENDS LocalRunner, FiniteSetTheorems, TLAPS

-----------------------------------------------------------------------------
(* The inductive invariant. *)

(* An attempt beyond its read has something to send. *)
Loaded == pc \in {"validate", "read version", "post"} => loaded \in Configs

(* The loop has an event to look at, or nothing it could do. *)
Due == pending > 0 \/ unseen \/ file = Missing

(* What the runner is busy with, or content with, is what the file holds,  *)
(* or the change is still to be looked at.                                 *)
Followed ==
  /\ pc \in {"validate", "read version", "post"} => Due \/ file = loaded
  /\ pc \in {"add file", "add directory", "add directory or fail"} => Due \/ HashBytes(file) = lastHash
  /\ pc = "watching" => Due \/ HashBytes(file) = lastHash \/ GivenUp

LocalInv == LocalTypeOK /\ Loaded /\ LastHashIsLive /\ Followed

-----------------------------------------------------------------------------
LEMMA HashesDiffer ==
  /\ \A b, c : HashBytes(b) = HashBytes(c) => b = c
  /\ \A b : HashBytes(b) # Absent
  /\ \A c \in Configs : HashBytes(c) \in Hashes /\ c # NoConfig /\ c # Missing
BY ContentsAssumption, DataplaneAssumption, LocalAssumption DEF HashBytes, Absent, Hashes, NoConfig

(* An event that a watch sees and the loop does not skip is pending.       *)
LEMMA NotifyCounts ==
  ASSUME pending \in Nat, NEW seenBy \in SUBSET {"file", "directory"}, NEW op, Notify(seenBy, op)
  PROVE  /\ pending' \in Nat /\ unseen' \in BOOLEAN
         /\ op \in RelevantOps => pending' > 0 \/ unseen'
<1> DEFINE seen == IF op \in RelevantOps THEN seenBy ELSE {}
<1>1. IsFiniteSet(seen)
  <2>1. IsFiniteSet({"file"}) /\ IsFiniteSet({"directory"})
    BY FS_Singleton
  <2>2. IsFiniteSet({"file"} \cup {"directory"})
    BY <2>1, FS_Union
  <2>3. seen \subseteq {"file"} \cup {"directory"}
    OBVIOUS
  <2>4. QED
    BY <2>2, <2>3, FS_Subset
<1>2. Cardinality(seen) \in Nat
  BY <1>1, FS_CardinalityType
<1> DEFINE n == Cardinality(seen)
<1>3. /\ pending' \in IF seen = {} THEN {pending} ELSE (pending + 1) .. (pending + n)
      /\ unseen' = (seenBy = {})
  BY DEF Notify
<1>4. n \in Nat
  BY <1>2
<1> HIDE DEF n
<1>5. CASE seen = {}
  BY <1>3, <1>5
<1>6. CASE seen # {}
  <2>1. pending' \in (pending + 1) .. (pending + n)
    BY <1>3, <1>6
  <2>2. pending' \in Nat /\ pending' > 0
    BY <1>4, <2>1
  <2>3. QED
    BY <1>3, <2>2
<1>7. QED
  BY <1>5, <1>6

(* A failed attempt is followed by the next one or given up. *)
LEMMA AttemptFailsKeeps ==
  ASSUME attempt \in 1 .. maxApplyAttempts, AttemptFails
  PROVE  \/ pc' = "load" /\ attempt' \in 1 .. maxApplyAttempts /\ UNCHANGED gaveUp
         \/ pc' \in {"watching", "stopped"} /\ attempt' = 0 /\ gaveUp' = TRUE
BY DEF AttemptFails, maxApplyAttempts

LEMMA AttemptBounds == 1 \in 1 .. maxApplyAttempts
BY DEF maxApplyAttempts

LEMMA InitialState == LocalInit => LocalInv
<1> SUFFICES ASSUME LocalInit PROVE LocalInv
  OBVIOUS
<1>1. Foreign \subseteq Bytes
  BY DataplaneAssumption
<1>2. LocalTypeOK
  BY <1>1, AttemptBounds DEF LocalInit, LocalTypeOK
<1>3. LastHashIsLive
  BY HashesDiffer DEF LocalInit, LastHashIsLive
<1>4. Loaded /\ Followed
  BY DEF LocalInit, Loaded, Followed
<1>5. QED
  BY <1>2, <1>3, <1>4 DEF LocalInv

-----------------------------------------------------------------------------
(* Each action preserves the invariant.                                    *)

(* The gateway's answer to a failed attempt changes nothing, or the        *)
(* history records that it may have.                                       *)
LEMMA RetrySteps ==
  ASSUME LocalInv, Validate \/ ReadConfigVersion \/ ApplyFails
  PROVE  LocalInv'
<1>1. /\ UNCHANGED <<file, saving, watches, pending, loaded, lastHash, unseen>>
      /\ pc \in {"validate", "read version", "post"} /\ loaded \in Configs
      /\ attempt \in 1 .. maxApplyAttempts
  BY DEF Validate, ReadConfigVersion, ApplyFails, LocalInv, LocalTypeOK, Loaded, editorVars, watchVars
<1>2. \/ AttemptFails
      \/ pc' \in {"read version", "post"} /\ UNCHANGED <<attempt, gaveUp>>
  BY DEF Validate, ReadConfigVersion, ApplyFails, Goto
<1>3. /\ live' \in Bytes /\ late' \in Configs \cup {NoConfig} /\ held' \in BOOLEAN
      /\ disturbed' \in BOOLEAN
      /\ (~disturbed' => ~disturbed /\ live' = live)
  <2>1. CASE Validate
    BY <2>1 DEF Validate, ValidateError, VersionError, RequestError, gatewayVars, LocalInv, LocalTypeOK
  <2>2. CASE ReadConfigVersion
    BY <2>2 DEF ReadConfigVersion, ReadVersion, VersionError, LocalInv, LocalTypeOK
  <2>3. CASE ApplyFails
    <3>1. CASE PostConflicts /\ UNCHANGED disturbed
      BY <3>1 DEF PostConflicts, gatewayVars, LocalInv, LocalTypeOK
    <3>2. CASE (\E e \in Errors : RequestError(e)) /\ UNCHANGED disturbed
      BY <3>2 DEF RequestError, LocalInv, LocalTypeOK
    <3>3. CASE (\E e \in Errors : PostAnswerLost(loaded, e)) /\ disturbed' = TRUE
      BY <1>1, <3>3, DataplaneAssumption DEF PostAnswerLost, Write, LocalInv, LocalTypeOK
    <3>4. CASE (\E e \in Errors : PostDelayed(loaded, e)) /\ disturbed' = TRUE
      BY <1>1, <3>4 DEF PostDelayed, LocalInv, LocalTypeOK
    <3>5. QED
      BY <2>3, <3>1, <3>2, <3>3, <3>4 DEF ApplyFails
  <2>4. QED
    BY <2>1, <2>2, <2>3
<1>4. \/ pc' \in {"read version", "post"} /\ attempt' \in 1 .. maxApplyAttempts /\ UNCHANGED gaveUp
      \/ pc' = "load" /\ attempt' \in 1 .. maxApplyAttempts /\ UNCHANGED gaveUp
      \/ pc' \in {"watching", "stopped"} /\ attempt' = 0 /\ gaveUp' = TRUE
  BY <1>1, <1>2, AttemptFailsKeeps
<1>5. LocalTypeOK'
  BY <1>1, <1>3, <1>4 DEF LocalInv, LocalTypeOK
<1>6. LastHashIsLive'
  BY <1>1, <1>3 DEF LocalInv, LastHashIsLive
<1>7. Loaded' /\ Followed'
  BY <1>1, <1>4 DEF LocalInv, Loaded, Followed, Due, GivenUp
<1>8. QED
  BY <1>5, <1>6, <1>7 DEF LocalInv

LEMMA AppliedStep ==
  ASSUME LocalInv, Applied
  PROVE  LocalInv'
<1>1. /\ UNCHANGED <<file, saving, watches, pending, loaded, unseen>>
      /\ loaded \in Configs /\ (Due \/ file = loaded)
      /\ lastHash' = HashBytes(loaded) /\ attempt' = 0 /\ disturbed' = FALSE /\ gaveUp' = FALSE
      /\ pc' \in {"watching", "add file", "waiting"}
  BY DEF Applied, AppliedHash, LocalInv, Loaded, Followed, editorVars, watchVars
<1>2. live' = Normalize[loaded] /\ live' \in Bytes /\ late' = NoConfig /\ held' = FALSE
  BY <1>1, DataplaneAssumption DEF Applied, PostAccepted, Write
<1>3. LocalTypeOK'
  BY <1>1, <1>2, HashesDiffer DEF LocalInv, LocalTypeOK
<1>4. LastHashIsLive'
  BY <1>1, <1>2, HashesDiffer DEF LastHashIsLive
<1>5. Loaded' /\ Followed'
  BY <1>1 DEF Loaded, Followed, Due
<1>6. QED
  BY <1>3, <1>4, <1>5 DEF LocalInv

LEMMA ReadSteps ==
  ASSUME LocalInv, Load \/ Reread \/ TakeEvent
  PROVE  LocalInv'
<1>1. /\ UNCHANGED <<live, late, held, file, saving, watches, lastHash, disturbed>>
      /\ loaded' \in Configs \cup {Missing} /\ pending' \in Nat /\ unseen' \in BOOLEAN
  <2>1. LocalTypeOK
    BY DEF LocalInv
  <2>2. CASE Load
    BY <2>1, <2>2 DEF Load, gatewayVars, editorVars, watchVars, LocalTypeOK
  <2>3. CASE Reread
    BY <2>1, <2>3 DEF Reread, gatewayVars, editorVars, watchVars, LocalTypeOK
  <2>4. CASE TakeEvent
    BY <2>1, <2>4 DEF TakeEvent, gatewayVars, editorVars, LocalTypeOK
  <2>5. QED
    BY <2>2, <2>3, <2>4
<1>2. LastHashIsLive'
  BY <1>1 DEF LocalInv, LastHashIsLive
<1>3. CASE Load
  <2>1. attempt \in 1 .. maxApplyAttempts /\ loaded' = file
    BY <1>3 DEF Load, LocalInv, LocalTypeOK
  <2>2. \/ file # Missing /\ pc' = "validate" /\ UNCHANGED <<attempt, gaveUp>>
        \/ file = Missing /\ pc' = "load" /\ attempt' \in 1 .. maxApplyAttempts /\ UNCHANGED gaveUp
        \/ file = Missing /\ pc' \in {"watching", "stopped"} /\ attempt' = 0 /\ gaveUp' = TRUE
    BY <1>3, <2>1, AttemptFailsKeeps DEF Load, Unreadable
  <2>3. LocalTypeOK'
    BY <1>1, <2>1, <2>2 DEF LocalInv, LocalTypeOK
  <2>4. Loaded' /\ Followed'
    BY <1>1, <2>1, <2>2 DEF LocalInv, LocalTypeOK, Loaded, Followed, Due
  <2>5. QED
    BY <1>2, <2>3, <2>4 DEF LocalInv
<1>4. CASE Reread
  <2>1. \/ file = Missing /\ pc' = "watching" /\ UNCHANGED <<attempt, gaveUp>>
        \/ HashBytes(file) = lastHash /\ pc' = "watching" /\ gaveUp' = FALSE /\ UNCHANGED attempt
        \/ pc' = "load" /\ attempt' = 1 /\ UNCHANGED gaveUp
    BY <1>4 DEF Reread, Unreadable, Goto
  <2>2. pc = "reread"
    BY <1>4 DEF Reread
  <2>3. LocalTypeOK'
    BY <1>1, <2>1, <2>2, AttemptBounds DEF LocalInv, LocalTypeOK
  <2>4. Loaded' /\ Followed'
    BY <1>1, <2>1 DEF Loaded, Followed, Due
  <2>5. QED
    BY <1>2, <2>3, <2>4 DEF LocalInv
<1>5. CASE TakeEvent
  <2>1. pc' = "reread" /\ pc = "watching" /\ UNCHANGED <<attempt, gaveUp>>
    BY <1>5 DEF TakeEvent
  <2>2. LocalTypeOK'
    BY <1>1, <2>1 DEF LocalInv, LocalTypeOK
  <2>3. QED
    BY <1>2, <2>1, <2>2 DEF LocalInv, Loaded, Followed
<1>6. QED
  BY <1>3, <1>4, <1>5

LEMMA WatchSteps ==
  ASSUME LocalInv, NewWatcherFails \/ AddFile \/ AddDirectory
  PROVE  LocalInv'
<1>1. /\ UNCHANGED <<live, late, held, file, saving, pending, attempt, loaded, lastHash, unseen,
                     disturbed, gaveUp>>
      /\ watches' \subseteq {"file", "directory"}
      /\ pc \in {"add file", "add directory", "add directory or fail"}
      /\ pc' \in {"add directory", "add directory or fail", "watching", "stopped"}
  BY DEF NewWatcherFails, AddFile, AddDirectory, gatewayVars, editorVars, LocalInv, LocalTypeOK
<1>2. LocalTypeOK'
  BY <1>1 DEF LocalInv, LocalTypeOK
<1>3. QED
  BY <1>1, <1>2 DEF LocalInv, LastHashIsLive, Loaded, Followed, Due, GivenUp

(* A change of the file is due as soon as it happens. *)
LEMMA EditorSteps ==
  ASSUME LocalInv, Truncate \/ FinishSave \/ Replace \/ Remove
  PROVE  LocalInv'
<1>1. /\ UNCHANGED <<live, late, held, pc, attempt, loaded, lastHash, disturbed, gaveUp>>
      /\ file' \in Configs \cup {Missing} /\ saving' \in Configs \cup {NoConfig}
      /\ watches' \subseteq {"file", "directory"}
  BY LocalAssumption
     DEF Truncate, FinishSave, Replace, Remove, Editor, gatewayVars, runnerVars, LocalInv, LocalTypeOK
<1>2. watches \subseteq {"file", "directory"} /\ pending \in Nat
  BY DEF LocalInv, LocalTypeOK
<1>3. pending' \in Nat /\ unseen' \in BOOLEAN /\ Due'
  <2>1. CASE Truncate \/ FinishSave
    <3>1. Notify(watches, "write") /\ "write" \in RelevantOps
      BY <2>1 DEF Truncate, FinishSave, RelevantOps
    <3>2. QED
      BY <1>2, <3>1, NotifyCounts DEF Due
  <2>2. CASE Replace
    <3>1. Notify(watches \cap {"directory"}, "create") /\ "create" \in RelevantOps
      BY <2>2 DEF Replace, RelevantOps
    <3>2. watches \cap {"directory"} \in SUBSET {"file", "directory"}
      OBVIOUS
    <3>3. QED
      BY <1>2, <3>1, <3>2, NotifyCounts DEF Due
  <2>3. CASE Remove
    <3>1. Notify(watches, "remove") /\ file' = Missing
      BY <2>3 DEF Remove
    <3>2. QED
      BY <1>2, <3>1, NotifyCounts DEF Due
  <2>4. QED
    BY <2>1, <2>2, <2>3
<1>4. LocalTypeOK'
  BY <1>1, <1>3 DEF LocalInv, LocalTypeOK
<1>5. LastHashIsLive' /\ Loaded'
  BY <1>1 DEF LocalInv, LastHashIsLive, Loaded
<1>6. Followed'
  BY <1>3 DEF Followed
<1>7. QED
  BY <1>4, <1>5, <1>6 DEF LocalInv

LEMMA OutsideSteps ==
  ASSUME LocalInv, GatewayMoves \/ RestartStopped \/ Kill
  PROVE  LocalInv'
<1>1. CASE GatewayMoves
  <2>1. /\ UNCHANGED <<file, saving, pc, attempt, loaded, lastHash, watches, pending, unseen, gaveUp>>
        /\ disturbed' = TRUE
    BY <1>1 DEF GatewayMoves, editorVars, runnerVars, watchVars
  <2>2. live' \in Bytes /\ late' \in Configs \cup {NoConfig} /\ held' \in BOOLEAN
    <3>1. CASE LatePostLands
      BY <3>1, DataplaneAssumption DEF LatePostLands, Write, LocalInv, LocalTypeOK
    <3>2. CASE \E b \in Foreign : OutOfBandWrite(b)
      BY <3>2, DataplaneAssumption DEF OutOfBandWrite, Write
    <3>3. QED
      BY <1>1, <3>1, <3>2 DEF GatewayMoves
  <2>3. LocalTypeOK'
    BY <2>1, <2>2 DEF LocalInv, LocalTypeOK
  <2>4. QED
    BY <2>1, <2>3 DEF LocalInv, LastHashIsLive, Loaded, Followed, Due, GivenUp
<1>2. CASE RestartStopped \/ Kill
  <2>1. /\ pc' = "load" /\ attempt' = 1 /\ loaded' = Missing /\ lastHash' = Absent
        /\ watches' = {} /\ pending' = 0 /\ unseen' = FALSE /\ gaveUp' = FALSE /\ held' = FALSE
        /\ UNCHANGED <<live, file, saving>>
    BY <1>2 DEF RestartStopped, Kill, StartAgain, editorVars
  <2>2. late' \in Configs \cup {NoConfig} /\ disturbed' \in BOOLEAN
    BY <1>2 DEF RestartStopped, Kill, LocalInv, LocalTypeOK, Loaded
  <2>3. LocalTypeOK'
    BY <2>1, <2>2, AttemptBounds DEF LocalInv, LocalTypeOK
  <2>4. LastHashIsLive'
    BY <2>1, HashesDiffer DEF LastHashIsLive
  <2>5. QED
    BY <2>1, <2>3, <2>4 DEF LocalInv, Loaded, Followed
<1>3. QED
  BY <1>1, <1>2

LEMMA StepPreserves == LocalInv /\ [LocalNext]_localVars => LocalInv'
<1> SUFFICES ASSUME LocalInv, [LocalNext]_localVars
             PROVE  LocalInv'
  OBVIOUS
<1>1. CASE UNCHANGED localVars
  <2>1. UNCHANGED <<gatewayVars, editorVars, runnerVars, watchVars, unseen, disturbed, gaveUp>>
    BY <1>1 DEF localVars
  <2>2. LocalTypeOK'
    BY <2>1 DEF gatewayVars, editorVars, runnerVars, watchVars, LocalInv, LocalTypeOK
  <2>3. LastHashIsLive'
    BY <2>1 DEF gatewayVars, runnerVars, LocalInv, LastHashIsLive
  <2>4. Loaded' /\ Followed'
    BY <2>1 DEF editorVars, runnerVars, watchVars, LocalInv, Loaded, Followed, Due, GivenUp
  <2>5. QED
    BY <2>2, <2>3, <2>4 DEF LocalInv
<1>2. CASE Run
  BY <1>2, RetrySteps, AppliedStep, ReadSteps, WatchSteps DEF Run
<1>3. QED
  BY <1>1, <1>2, EditorSteps, OutsideSteps DEF LocalNext

-----------------------------------------------------------------------------
(* The inductive invariant holds throughout (Run, addWatches and whatever  *)
(* happens around them).                                                   *)
THEOREM LocalInvariant == LocalSpec => []LocalInv
<1>1. LocalInit => LocalInv
  BY InitialState
<1>2. LocalInv /\ [LocalNext]_localVars => LocalInv'
  BY StepPreserves
<1>3. QED
  BY <1>1, <1>2, PTL DEF LocalSpec

(* Every variable keeps its type, and no series of attempts is longer than *)
(* maxApplyAttempts (applyWithRetry).                                      *)
THEOREM LocalTypeCorrect == LocalSpec => []LocalTypeOK
<1>1. LocalInv => LocalTypeOK
  BY DEF LocalInv
<1>2. QED
  BY <1>1, LocalInvariant, PTL

(* lastHash names the configuration the gateway runs, unless another hand  *)
(* or an uncertain answer came in between (applyOnce hashes what it sends).*)
THEOREM LastHashIsAlwaysLive == LocalSpec => []LastHashIsLive
<1>1. LocalInv => LastHashIsLive
  BY DEF LocalInv
<1>2. QED
  BY <1>1, LocalInvariant, PTL

(* A loop with nothing left to look at is content with what the gateway    *)
(* runs: no save that could be noticed is lost, however it falls between   *)
(* the reads, the attempts and the debounce (the watch loop of Run).       *)
THEOREM QuietLoopHasApplied == LocalSpec => []QuietMeansApplied
<1>1. LocalInv => QuietMeansApplied
  <2> SUFFICES ASSUME LocalInv, pc = "watching", pending = 0, Noticed
               PROVE  live = Normalize[file]
    BY DEF QuietMeansApplied
  <2>1. HashBytes(file) = lastHash
    BY DEF LocalInv, Followed, Due, Noticed
  <2>2. file \in Configs /\ ~disturbed
    BY DEF LocalInv, LocalTypeOK, Noticed
  <2>3. QED
    BY <2>1, <2>2 DEF LocalInv, LastHashIsLive
<1>2. QED
  BY <1>1, LocalInvariant, PTL
=============================================================================
