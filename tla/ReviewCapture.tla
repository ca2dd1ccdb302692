---------------------------- MODULE ReviewCapture ----------------------------
(***************************************************************************)
(* The capture of a review snapshot (omp_tandem.reviews) from a project    *)
(* that others edit, stage and commit in meanwhile.  Every read of Git and *)
(* every file is a step of its own: two complete scans must agree, or the  *)
(* capture begins again, three times at most.                              *)
(*                                                                         *)
(* A file's bytes and mode are one datum.  A live read notices by the      *)
(* file's time stamps that it was written meanwhile, even if the bytes     *)
(* came back; of a file that is not there it has none, and cannot tell     *)
(* whether there was one meanwhile.  An index entry and a commit are       *)
(* compared by what they are.                                              *)
(* Unmerged entries, sizes, nested repositories and unsafe paths, which    *)
(* refuse a capture before anything is saved, are left out.                *)
(***************************************************************************)
EXTENDS Integers, Sequences

CONSTANTS
  Path,        \* files of the project
  MaxMoves     \* bound: edits, stagings and commits during a capture

ASSUME CaptureBound == MaxMoves \in Nat

VARIABLES
  project,   \* the work tree, the index and the commits
  capture,   \* the request and what the capture has read so far
  middle     \* history: the project when the first scan ended

captureVars == <<project, capture, middle>>

-----------------------------------------------------------------------------
Datum == {"absent", "old", "new"}
Tree == [Path -> Datum]
Attempts == 1..3
Scanned == [selected : Datum, base : Datum, staged : Datum, stamp : Nat]

CaptureTypeOK ==
  /\ project \in [work : [Path -> [data : Datum, stamp : 0..MaxMoves]],
                  index : Tree, commits : Seq(Tree),
                  head : 1..MaxMoves + 1, branch : 1..MaxMoves + 1, changes : 0..MaxMoves]
  /\ capture.source \in {"worktree", "staged", "commit"}
  /\ capture.named \subseteq Path /\ capture.context \subseteq Path
  /\ capture.at \in {"identity", "index", "select", "tree", "scan", "compare", "rescan",
                     "seal", "saved", "refused", "failed"}
  /\ capture.attempt \in Attempts /\ capture.head \in 0..MaxMoves + 1
  /\ capture.selected \subseteq Path /\ capture.todo \subseteq Path
  /\ capture.index \in Tree /\ capture.tree \in Tree /\ capture.files \in [Path -> Scanned]

Nothing == [p \in Path |-> "absent"]
NoFiles == [p \in Path |-> [selected |-> "absent", base |-> "absent",
                            staged |-> "absent", stamp |-> 0]]
\* What the capture starts each attempt with.  The base is HEAD; the commit under
\* review is the one a branch names, against the first commit.
Fresh(attempt) ==
  [at |-> "identity", attempt |-> attempt, source |-> capture.source,
   named |-> capture.named, context |-> capture.context, head |-> 0, base |-> 0,
   index |-> Nothing, tree |-> Nothing, selected |-> {}, todo |-> {}, files |-> NoFiles,
   commit |-> 0]

\* A repository of one commit whose files are all old; any request.
CaptureInit ==
  /\ project = [work |-> [p \in Path |-> [data |-> "old", stamp |-> 0]],
                index |-> [p \in Path |-> "old"],
                commits |-> <<[p \in Path |-> "old"]>>, head |-> 1, branch |-> 1,
                changes |-> 0]
  /\ \E source \in {"worktree", "staged", "commit"}, named, context \in SUBSET Path :
       capture = [at |-> "identity", attempt |-> 1, source |-> source,
                  named |-> named, context |-> context, head |-> 0, base |-> 0,
                  index |-> Nothing, tree |-> Nothing, selected |-> {}, todo |-> {},
                  files |-> NoFiles, commit |-> 0]
  /\ middle = project

-----------------------------------------------------------------------------
(* The project goes on.                                                    *)

Changing ==
  /\ project.changes < MaxMoves
  /\ UNCHANGED <<capture, middle>>

Edit(p) ==
  /\ Changing
  /\ \E data \in Datum \ {project.work[p].data} :
       project' = [project EXCEPT !.changes = @ + 1,
                     !.work[p] = [data |-> data, stamp |-> project.changes + 1]]

StageFile(p) ==
  /\ Changing /\ project.index[p] # project.work[p].data
  /\ project' = [project EXCEPT !.changes = @ + 1, !.index[p] = project.work[p].data]

\* A commit moves HEAD or another branch, which somebody works on elsewhere.
Commit ==
  /\ Changing /\ project.index # project.commits[project.head]
  /\ LET next == Len(project.commits) + 1
         moved == [project EXCEPT !.changes = @ + 1, !.commits = Append(@, project.index)] IN
     project' \in {[moved EXCEPT !.head = next], [moved EXCEPT !.branch = next]}

-----------------------------------------------------------------------------
(* The first scan.                                                         *)

BaseOf(head) == IF capture.source = "commit" THEN 1 ELSE head

\* ReviewStore._identity: HEAD and the base are resolved together.
Identify ==
  /\ capture.at = "identity"
  /\ capture' = [capture EXCEPT !.at = "index", !.head = project.head,
                   !.base = BaseOf(project.head)]
  /\ UNCHANGED <<project, middle>>

ReadIndex ==
  /\ capture.at = "index"
  /\ capture' = [capture EXCEPT !.at = "select", !.index = project.index]
  /\ UNCHANGED <<project, middle>>

BaseTree == project.commits[capture.base]

\* ReviewStore._selection: the paths that were named, or those that differ from
\* the base in the source.  A commit is resolved from its name here, and again for
\* its tree and for the manifest.
Selection(index) ==
  IF capture.named # {} THEN capture.named
  ELSE IF capture.source = "commit"
  THEN {p \in Path : project.commits[project.branch][p] # BaseTree[p]}
  ELSE {p \in Path : \/ index[p] # BaseTree[p]
                     \/ capture.source = "worktree" /\ project.work[p].data # index[p]}

Paths == capture.selected \union capture.context

Select ==
  /\ capture.at = "select"
  /\ capture' = [capture EXCEPT !.at = "tree", !.selected = Selection(capture.index)]
  /\ UNCHANGED <<project, middle>>

ReadTree ==
  /\ capture.at = "tree"
  /\ capture' = [capture EXCEPT !.at = "scan", !.todo = Paths,
                   !.tree = IF capture.source = "commit" THEN project.commits[project.branch]
                            ELSE Nothing]
  /\ UNCHANGED <<project, middle>>

\* ReviewStore._working: the stamp of a file, here the change that wrote it last.
\* A missing file has none.
StampOf(p) == IF project.work[p].data = "absent" THEN 0 ELSE project.work[p].stamp

Reading(p) ==
  LET staged == IF capture.source = "commit" THEN "absent" ELSE capture.index[p] IN
  [base |-> BaseTree[p], staged |-> staged,
   selected |-> IF capture.source = "worktree" THEN project.work[p].data
                ELSE IF capture.source = "staged" THEN staged ELSE capture.tree[p],
   stamp |-> IF capture.source = "worktree" THEN StampOf(p) ELSE 0]

\* A context file must exist in the source, and a selected one somewhere.
Unreadable(p, file) ==
  \/ p \in capture.context /\ file.selected = "absent"
  \/ file.selected = "absent" /\ file.base = "absent" /\ file.staged = "absent"

Scan(p) ==
  /\ capture.at = "scan" /\ p \in capture.todo
  /\ capture' = IF Unreadable(p, Reading(p)) THEN [capture EXCEPT !.at = "refused"]
                ELSE [capture EXCEPT !.todo = @ \ {p}, !.files[p] = Reading(p)]
  /\ UNCHANGED <<project, middle>>

Changed(p) == capture.files[p].selected # capture.files[p].base

\* ReviewStore._conflicts: a file given as context has changes of its own.
Conflicts == {p \in Paths \ capture.selected : Changed(p)}

EndScan ==
  /\ capture.at = "scan" /\ capture.todo = {}
  /\ capture' = [capture EXCEPT !.at = IF Conflicts # {} THEN "refused" ELSE "compare"]
  /\ middle' = project
  /\ UNCHANGED project

-----------------------------------------------------------------------------
(* The second scan.                                                        *)

\* Something moved: another attempt, or none is left.
Again ==
  capture' = IF capture.attempt = 3 THEN [capture EXCEPT !.at = "failed"]
             ELSE Fresh(capture.attempt + 1)

\* (The index, the identity and the listing of the work tree are read in turn;
\* they are read at once here, as what follows compares the files again.)
Compare ==
  /\ capture.at = "compare"
  /\ IF \/ project.head # capture.head
        \/ Selection(project.index) # capture.selected
        \/ capture.source # "commit" /\ \E p \in Paths : project.index[p] # capture.index[p]
     THEN Again
     ELSE capture' = [capture EXCEPT !.at = "rescan",
                        !.todo = IF capture.source = "worktree" THEN Paths ELSE {}]
  /\ UNCHANGED <<project, middle>>

\* Mutant: the second read compares the bytes alone.
SameBytes(p) == project.work[p].data = capture.files[p].selected

SameRead(p) ==
  /\ project.work[p].data = capture.files[p].selected
  /\ StampOf(p) = capture.files[p].stamp

Rescan(p) ==
  /\ capture.at = "rescan" /\ p \in capture.todo
  /\ IF SameRead(p) THEN capture' = [capture EXCEPT !.todo = @ \ {p}] ELSE Again
  /\ UNCHANGED <<project, middle>>

\* The manifest names the commit as it is resolved last; snapshot and manifest
\* are committed in one transaction (see ReviewRuns for its reservation).
Seal ==
  /\ capture.at = "rescan" /\ capture.todo = {}
  /\ capture' = [capture EXCEPT !.at = "saved",
                   !.commit = IF capture.source = "commit" THEN project.branch ELSE 0]
  /\ UNCHANGED <<project, middle>>

CaptureNext ==
  \/ Commit \/ \E p \in Path : Edit(p) \/ StageFile(p)
  \/ Identify \/ ReadIndex \/ Select \/ ReadTree \/ EndScan \/ Compare \/ Seal
  \/ \E p \in Path : Scan(p) \/ Rescan(p)

CaptureSpec == CaptureInit /\ [][CaptureNext]_captureVars

-----------------------------------------------------------------------------
\* ReviewStore.assess, of a snapshot that was saved: whether it still describes
\* the project.  The bytes of a commit cannot change.
Drifted ==
  {p \in Paths : \/ capture.source = "worktree" /\ project.work[p].data # capture.files[p].selected
                 \/ capture.source # "commit" /\ project.index[p] # capture.files[p].staged}
Assessment ==
  IF Drifted # {} THEN "stale"
  ELSE IF project.head # capture.head THEN "previous_version" ELSE "current_selected_state"

Saved == capture.at = "saved"

\* A file that was saved as absent and written after the scans met: it may have been
\* there when they did.
DeletedAgain(p) ==
  capture.files[p].selected = "absent" /\ middle.work[p].stamp < project.work[p].stamp

\* A snapshot of the work tree was there: at one moment, between the scans, every
\* file of it held the bytes that were saved, although each was read at a moment
\* of its own while others wrote.  One file may differ from that moment: one that
\* was absent at both of its readings, created and deleted again between them, which
\* leaves nothing to notice it by (reviews.py:512).  No changed file is saved as
\* mere context.  And a project that has not moved since that moment is assessed as
\* current.
SnapshotIsTrue ==
  /\ CaptureTypeOK
  /\ Saved => \A p \in Paths \ capture.selected : ~Changed(p)
  /\ Saved /\ capture.source = "worktree" =>
       \A p \in Paths : capture.files[p].selected = middle.work[p].data \/ DeletedAgain(p)
  /\ Saved /\ project = middle => Assessment = "current_selected_state"

\* "immutable committed bytes compared with the base commit" (reviews.py:1928): the
\* bytes of a commit review are those of the commit its manifest names.
CommitIsExact ==
  Saved /\ capture.source = "commit" =>
    \A p \in Paths : capture.files[p].selected = project.commits[capture.commit][p]
=============================================================================
