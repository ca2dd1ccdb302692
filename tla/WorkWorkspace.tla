---------------------------- MODULE WorkWorkspace ----------------------------
(***************************************************************************)
(* The working copies of shared work (work_workspace): a supervisor        *)
(* prepares a detached worktree for an attempt, a model edits it, and what *)
(* is submitted is a commit made of two equal scans and kept under a       *)
(* reference of the attempt.  The operator preserves what an interrupted   *)
(* attempt left, disposes of it and removes old copies.  All of them take  *)
(* one lock; whoever edits takes none.                                     *)
(*                                                                         *)
(* A file's bytes and mode are one datum, zero for what the base holds.    *)
(* Shell permissions, staged paths, index conflicts, links and sizes only  *)
(* refuse a capture and are left out.                                      *)
(***************************************************************************)
EXTENDS Integers

CONSTANTS
  Owned,      \* files the step owns
  Ignored,    \* those of them that Git is told to ignore
  Foreign,    \* other files of the project
  MaxEdits    \* bound: edits of the working copy

ASSUME OwnershipAssumption == Ignored \subseteq Owned /\ Owned \intersect Foreign = {}
ASSUME EditsBound == MaxEdits \in Nat

VARIABLES
  attempt,    \* the attempt in the store: its state, its recorded output
  copy,       \* its working copy
  copyScan,   \* a scan of the copy under the lock, or what is left to record of it
  retained,   \* the commit under refs/omp-tandem/work/<attempt>, if there is one
  cleaner     \* an operator's cleanup

workspaceVars == <<attempt, copy, copyScan, retained, cleaner>>

-----------------------------------------------------------------------------
File == Owned \union Foreign
Contents == [File -> 0..2]
Base == [f \in File |-> 0]
Commits == [files : Contents, message : {"submit", "preserve", "manual"}]
Ended == {"succeeded", "reconciled"}

WorkspaceTypeOK ==
  /\ attempt.kind \in {"implement", "review", "manual"}
  /\ attempt.state \in {"assigned", "running", "recovery"} \union Ended
  /\ attempt.output \subseteq Commits
  /\ {attempt.live, attempt.lost} \subseteq BOOLEAN
  /\ copy \in [at : {"none", "partial", "ready", "gone"}, files : Contents,
               head : Contents, moved : BOOLEAN, edits : 0..MaxEdits]
  /\ copyScan.by \in {"nobody", "finish", "preserve", "verify"}
  /\ copyScan.at \in {"first", "second", "captured", "refused"}
  /\ copyScan.todo \subseteq File /\ copyScan.seen \in Contents
  /\ retained \subseteq Commits
  /\ cleaner.at \in {"idle", "read", "remove"}

NoCapture == [by |-> "nobody", at |-> "first", todo |-> {}, seen |-> Base, middle |-> Base,
              touched |-> [f \in File |-> 0]]

WorkspaceInit ==
  /\ \E kind \in {"implement", "review", "manual"} :
       attempt = [kind |-> kind, state |-> "assigned", output |-> {}, live |-> FALSE,
                  lost |-> FALSE, there |-> [f \in File |-> TRUE]]
  /\ copy = [at |-> "none", files |-> Base, head |-> Base, moved |-> FALSE, edits |-> 0]
  /\ copyScan = NoCapture /\ retained = {}
  /\ cleaner = [at |-> "idle", state |-> "assigned", looked |-> Base]

Unlocked == copyScan.by = "nobody" /\ cleaner.at # "remove"
Managed == attempt.kind # "manual"

-----------------------------------------------------------------------------
(* The copy and who edits it.                                              *)

\* WorkWorkspace.prepare: the worktree comes first and the manifest last; between
\* them the dependencies and a checkpoint are composed, which may fail.  Neither a
\* copy nor a manifest that is there is ever reused.
AddCopy ==
  /\ Unlocked /\ Managed /\ attempt.state = "assigned" /\ copy.at = "none"
  /\ attempt' = [attempt EXCEPT !.state = "running"]
  /\ copy' = [copy EXCEPT !.at = "partial"]
  /\ UNCHANGED <<copyScan, retained, cleaner>>

WriteManifest ==
  /\ attempt.state = "running" /\ copy.at = "partial" /\ Unlocked
  /\ copy' = [copy EXCEPT !.at = "ready"]
  /\ attempt' = [attempt EXCEPT !.live = TRUE]
  /\ UNCHANGED <<copyScan, retained, cleaner>>

\* What is there of it stays, as evidence.
PreparationFails ==
  /\ attempt.state = "running" /\ copy.at = "partial" /\ Unlocked
  /\ attempt' = [attempt EXCEPT !.state = "recovery"]
  /\ UNCHANGED <<copy, copyScan, retained, cleaner>>

\* The model, something it started, or a person.
EditCopy(f) ==
  /\ copy.at = "ready" /\ copy.edits < MaxEdits
  /\ \E datum \in (0..2) \ {copy.files[f]} :
       copy' = [copy EXCEPT !.files[f] = datum, !.edits = @ + 1]
  /\ copyScan' = IF copyScan.by = "nobody" THEN copyScan ELSE [copyScan EXCEPT !.touched[f] = @ + 1]
  /\ UNCHANGED <<attempt, retained, cleaner>>

\* Against its instructions the model commits in the copy.
CommitInCopy ==
  /\ copy.at = "ready" /\ attempt.live /\ ~copy.moved
  /\ copy' = [copy EXCEPT !.moved = TRUE,
                !.head = [f \in File |-> IF f \in Ignored THEN 0 ELSE copy.files[f]]]
  /\ UNCHANGED <<attempt, copyScan, retained, cleaner>>

ModelStops ==
  /\ attempt.live
  /\ attempt' = [attempt EXCEPT !.live = FALSE]
  /\ UNCHANGED <<copy, copyScan, retained, cleaner>>

-----------------------------------------------------------------------------
(* Capturing.                                                              *)

\* WorkWorkspace._metadata: the manifest is there and HEAD is the base.
Intact == copy.at = "ready" /\ ~copy.moved

Capture(by) ==
  /\ Unlocked
  /\ copyScan' = [NoCapture EXCEPT !.by = by, !.at = IF Intact THEN "first" ELSE "refused",
                                  !.todo = File]
  /\ UNCHANGED <<attempt, copy, retained, cleaner>>

\* WorkSupervisor._finish, when the model's process is gone.
BeginFinish ==
  /\ attempt.state = "running" /\ ~attempt.live /\ copy.at = "ready"
  /\ Capture(IF attempt.kind = "review" THEN "verify" ELSE "finish")

\* The operator resolves an interrupted attempt of a plan change.
BeginPreserve ==
  /\ attempt.state = "recovery" /\ attempt.kind = "implement" /\ ~attempt.live
  /\ Capture("preserve")

ScanFile(f) ==
  /\ copyScan.by # "nobody" /\ copyScan.at = "first" /\ f \in copyScan.todo
  /\ copyScan' = [copyScan EXCEPT !.todo = @ \ {f}, !.seen[f] = copy.files[f], !.touched[f] = 0]
  /\ UNCHANGED <<attempt, copy, retained, cleaner>>

Violations == {f \in File \ Owned : copyScan.seen[f] # 0}

EndCopyScan ==
  /\ copyScan.by \in {"finish", "preserve"} /\ copyScan.at = "first" /\ copyScan.todo = {}
  /\ copyScan' = [copyScan EXCEPT !.todo = File, !.middle = copy.files,
                                  !.at = IF Violations # {} THEN "refused" ELSE "second"]
  /\ UNCHANGED <<attempt, copy, retained, cleaner>>

\* WorkWorkspace.verify_review: a review may change nothing and is scanned once.
EndReviewScan ==
  /\ copyScan.by = "verify" /\ copyScan.at = "first" /\ copyScan.todo = {}
  /\ copyScan' = [copyScan EXCEPT !.at = IF copyScan.seen = Base THEN "captured" ELSE "refused"]
  /\ UNCHANGED <<attempt, copy, retained, cleaner>>

\* Mutant: the copy is not compared with the first scan again.
ScannedOnce(f) == TRUE

Unchanged(f) == copy.files[f] = copyScan.seen[f]

RescanFile(f) ==
  /\ copyScan.at = "second" /\ f \in copyScan.todo
  /\ copyScan' = IF Unchanged(f) THEN [copyScan EXCEPT !.todo = @ \ {f}]
                ELSE [copyScan EXCEPT !.at = "refused"]
  /\ UNCHANGED <<attempt, copy, retained, cleaner>>

\* WorkWorkspace._retain: the reference is written once.  A commit is its files and
\* its message, everything else of it is fixed.
Retainable(commit) == retained \subseteq {commit}

\* The objects are in a separate index; HEAD is looked at again.
Promote ==
  LET commit == [files |-> copyScan.seen,
                 message |-> IF copyScan.by = "finish" THEN "submit" ELSE "preserve"] IN
  /\ copyScan.at = "second" /\ copyScan.todo = {}
  /\ IF Intact /\ Retainable(commit)
     THEN /\ retained' = {commit}
          /\ copyScan' = [copyScan EXCEPT !.at = "captured"]
          /\ attempt' = [attempt EXCEPT !.there = [f \in File |->
               copyScan.middle[f] = copyScan.seen[f] \/ copyScan.touched[f] >= 2]]
     ELSE /\ copyScan' = [copyScan EXCEPT !.at = "refused"]
          /\ UNCHANGED <<attempt, retained>>
  /\ UNCHANGED <<copy, cleaner>>

\* The result in the store: the supervisor's, whose success may be refused with the
\* output kept, or that of the operator's disposition.
Record ==
  /\ copyScan.by # "nobody" /\ copyScan.at \in {"captured", "refused"}
  /\ LET output == IF copyScan.at = "captured" /\ copyScan.by # "verify" THEN retained
                   ELSE attempt.output IN
     attempt' \in IF copyScan.by = "preserve"
       THEN {[attempt EXCEPT !.state = "reconciled", !.output = output,
                             !.lost = copyScan.at = "refused"]}
       ELSE {[attempt EXCEPT !.state = state, !.output = output] :
               state \in IF copyScan.at = "captured" THEN {"succeeded", "recovery"}
                         ELSE {"recovery"}}
  /\ copyScan' = NoCapture
  /\ UNCHANGED <<copy, retained, cleaner>>

\* Whoever captures dies, at any step; an attempt is fenced by whom notices.
Die ==
  /\ \/ copyScan.by # "nobody"
     \/ attempt.state = "running" /\ Managed
  /\ attempt' = [attempt EXCEPT !.state = IF @ = "running" THEN "recovery" ELSE @]
  /\ copyScan' = NoCapture
  /\ UNCHANGED <<copy, retained, cleaner>>

-----------------------------------------------------------------------------
(* Manual work and the operator.                                           *)

\* WorkWorkspace.adopt_submission: a commit that descends from the source and changes
\* owned files only.  It is retained before the store takes or refuses it.
Adoptable(commit) == \A f \in Foreign : commit.files[f] = 0

ClaimManually ==
  /\ attempt.kind = "manual" /\ attempt.state = "assigned"
  /\ attempt' = [attempt EXCEPT !.state = "running"]
  /\ UNCHANGED <<copy, copyScan, retained, cleaner>>

SubmitManually ==
  /\ attempt.kind = "manual" /\ attempt.state \in {"running", "recovery"} /\ Unlocked
  /\ \E files \in Contents :
       LET commit == [files |-> files, message |-> "manual"] IN
       /\ Adoptable(commit) /\ Retainable(commit)
       /\ retained' = {commit}
       /\ \/ attempt' = [attempt EXCEPT !.output = {commit}, !.state =
                           IF @ = "running" THEN "succeeded" ELSE "reconciled"]
          \/ UNCHANGED attempt
  /\ UNCHANGED <<copy, copyScan, cleaner>>

\* The operator reconciles an attempt without preserving its copy, or fences it.
Dispose ==
  /\ attempt.state = "recovery" /\ copyScan.by = "nobody"
  /\ attempt' = [attempt EXCEPT !.state = "reconciled"]
  /\ UNCHANGED <<copy, copyScan, retained, cleaner>>

Fence ==
  /\ attempt.state = "running"
  /\ attempt' = [attempt EXCEPT !.state = "recovery"]
  /\ UNCHANGED <<copy, copyScan, retained, cleaner>>

\* work_daemon cleanup: the states are read before the lock is taken.
ReadStates ==
  /\ cleaner.at = "idle"
  /\ cleaner' = [cleaner EXCEPT !.at = "read", !.state = attempt.state]
  /\ UNCHANGED <<attempt, copy, copyScan, retained>>

\* git status in the copy: ignored files are not reported, and HEAD is the copy's own.
Status == {f \in File \ Ignored : copy.files[f] # copy.head[f]}

Removable ==
  /\ copy.at = "ready" /\ cleaner.state \in Ended
  /\ Status = {} \/ retained # {}

LookAtCopy ==
  /\ cleaner.at = "read" /\ Unlocked
  /\ cleaner' = IF Removable THEN [cleaner EXCEPT !.at = "remove", !.looked = copy.files]
                ELSE [cleaner EXCEPT !.at = "idle"]
  /\ UNCHANGED <<attempt, copy, copyScan, retained>>

RemoveCopy ==
  /\ cleaner.at = "remove"
  /\ copy' = [copy EXCEPT !.at = "gone"]
  /\ cleaner' = [cleaner EXCEPT !.at = "idle"]
  /\ UNCHANGED <<attempt, copyScan, retained>>

WorkspaceNext ==
  \/ AddCopy \/ WriteManifest \/ PreparationFails \/ CommitInCopy \/ ModelStops
  \/ BeginFinish \/ BeginPreserve \/ EndCopyScan \/ EndReviewScan \/ Promote \/ Record \/ Die
  \/ \E f \in File : EditCopy(f) \/ ScanFile(f) \/ RescanFile(f)
  \/ ClaimManually \/ SubmitManually \/ Dispose \/ Fence
  \/ ReadStates \/ LookAtCopy \/ RemoveCopy

WorkspaceSpec == WorkspaceInit /\ [][WorkspaceNext]_workspaceVars

-----------------------------------------------------------------------------
\* What an attempt submitted or preserved is one commit for ever: it changes owned
\* files only, its bytes were in the copy together, when the first scan ended, but
\* for a file that was written away and back between its two readings, and what the
\* store records is what the reference keeps, whoever died in between and after the
\* copy is removed.  A copy is not removed before its attempt has ended, nor with
\* edits that Git reports and no commit has kept.
SavedWorkIsTrue ==
  /\ WorkspaceTypeOK
  /\ \A commit \in retained : \A f \in Foreign : commit.files[f] = 0
  /\ \A c, d \in retained : c = d
  /\ \A f \in File : attempt.there[f]
  /\ attempt.output # {} => attempt.output = retained
  /\ copy.at = "gone" =>
       /\ attempt.state \in Ended /\ copyScan.by = "nobody"
       /\ retained = {} /\ ~copy.moved => \A f \in File \ Ignored : cleaner.looked[f] = 0

\* CHANGELOG.md:168: "a working copy with uncaptured edits and no retained commit is
\* kept regardless of age".
UncapturedIsKept ==
  attempt.kind = "implement" /\ copy.at = "gone" /\ retained = {} => cleaner.looked = Base
=============================================================================
