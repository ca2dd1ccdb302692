--------------------------- MODULE LegacyMigration ---------------------------
(***************************************************************************)
(* The import of settled conversations from the store that all projects    *)
(* once shared (migration).  Servers that still use that store go on while *)
(* a new server starts up and copies: it takes the lock of every settled   *)
(* conversation, reads the store once, and then imports the conversations  *)
(* that refer to each other together or not at all, histories first.  A    *)
(* second startup finds the migration's lock taken and leaves.  Either     *)
(* side dies at any step; a dead process holds no lock.                    *)
(*                                                                         *)
(* References stand for artifacts; shared contexts and shared histories    *)
(* link conversations in the same way and are left out, as are the checks  *)
(* of paths, checksums and sizes, which only put a conversation off.       *)
(***************************************************************************)
EXTENDS Integers

CONSTANTS
  Legacy,     \* the conversations of the project in the legacy store
  MaxTurns,   \* bound: turns of a conversation
  MaxImports  \* bound: directories ever made for copies

ASSUME MigrationBounds == MaxTurns \in Nat \ {0} /\ MaxImports \in Nat \ {0}

VARIABLES
  legacy,     \* the rows, history and lock of each conversation
  migration,  \* the startup that migrates
  imported,   \* what the project's own store holds of each
  staged      \* the directories of copied histories

migrationVars == <<legacy, migration, imported, staged>>

-----------------------------------------------------------------------------
LegacyRow == [active : BOOLEAN, turns : 1..MaxTurns, refs : [Legacy -> 0..MaxTurns],
        history : 0..MaxTurns]
Directory == 1..MaxImports
NoRefs == [c \in Legacy |-> 0]
FirstRow == [active |-> FALSE, turns |-> 1, refs |-> NoRefs, history |-> 1]
NoCopy == [row |-> {}, history |-> 0, directory |-> 0]
Idle == [at |-> "idle", todo |-> {}, held |-> {}, snapshot |-> [c \in Legacy |-> FirstRow],
         pending |-> {}, component |-> {}, directory |-> 0]
Steps == {"idle", "lock", "read", "choose", "copy", "commit"}

MigrationTypeOK ==
  /\ \A c \in Legacy : legacy[c].row \in LegacyRow /\ legacy[c].lock \in {"free", "server", "migration"}
  /\ migration.at \in Steps /\ migration.snapshot \in [Legacy -> LegacyRow]
  /\ \A part \in {migration.todo, migration.held, migration.pending, migration.component} :
       part \subseteq Legacy
  /\ \A c \in Legacy : /\ imported[c].row \subseteq LegacyRow
                       /\ imported[c].history \in 0..MaxTurns
                       /\ imported[c].directory \in 0..MaxImports
  /\ staged \in [Directory -> [there : BOOLEAN, files : [Legacy -> 0..MaxTurns]]]

MigrationInit ==
  /\ \E gone \in SUBSET Legacy :
       legacy = [c \in Legacy |->
                   [row |-> IF c \in gone THEN [FirstRow EXCEPT !.history = 0] ELSE FirstRow,
                    lock |-> "free"]]
  /\ migration = Idle /\ imported = [c \in Legacy |-> NoCopy]
  /\ staged = [d \in Directory |-> [there |-> FALSE, files |-> NoRefs]]

-----------------------------------------------------------------------------
(* Legacy servers (external): a turn runs under its conversation's lock.   *)

StartLegacyTurn(c) ==
  /\ legacy[c].lock = "free" /\ ~legacy[c].row.active /\ legacy[c].row.turns < MaxTurns
  /\ legacy' = [legacy EXCEPT ![c].lock = "server", ![c].row.active = TRUE]
  /\ UNCHANGED <<migration, imported, staged>>

WriteHistory(c) ==
  /\ legacy[c].lock = "server" /\ legacy[c].row.active
  /\ legacy' = [legacy EXCEPT ![c].row.history = legacy[c].row.turns + 1]
  /\ UNCHANGED <<migration, imported, staged>>

\* It may refer to an artifact of any turn that has ended.
EndLegacyTurn(c) ==
  /\ legacy[c].lock = "server" /\ legacy[c].row.active
  /\ \E d \in Legacy \ {c} : \E k \in 0..legacy[d].row.turns :
       legacy' = [legacy EXCEPT ![c].row.active = FALSE, ![c].row.turns = @ + 1,
                                ![c].row.refs[d] = IF k > @ THEN k ELSE @]
  /\ UNCHANGED <<migration, imported, staged>>

UnlockLegacy(c) ==
  /\ legacy[c].lock = "server" /\ ~legacy[c].row.active
  /\ legacy' = [legacy EXCEPT ![c].lock = "free"]
  /\ UNCHANGED <<migration, imported, staged>>

\* What a dead server left active is interrupted by another (under the lock).
RecoverLegacy(c) ==
  /\ legacy[c].lock = "free" /\ legacy[c].row.active
  /\ legacy' = [legacy EXCEPT ![c].row.active = FALSE]
  /\ UNCHANGED <<migration, imported, staged>>

LegacyServerDies(c) ==
  /\ legacy[c].lock = "server" /\ legacy[c].row.active
  /\ legacy' = [legacy EXCEPT ![c].lock = "free"]
  /\ UNCHANGED <<migration, imported, staged>>

-----------------------------------------------------------------------------
(* migrate_legacy                                                          *)

At(step) == migration.at = step
Imported == {c \in Legacy : imported[c].row # {}}

\* The rows as they are now; what is active is put off.
Discover ==
  /\ At("idle")
  /\ migration' = [Idle EXCEPT !.at = "lock", !.todo = {c \in Legacy : ~legacy[c].row.active}]
  /\ UNCHANGED <<legacy, imported, staged>>

LockConversation(c) ==
  /\ At("lock") /\ c \in migration.todo
  /\ IF legacy[c].lock = "free"
     THEN /\ legacy' = [legacy EXCEPT ![c].lock = "migration"]
          /\ migration' = [migration EXCEPT !.todo = @ \ {c}, !.held = @ \union {c}]
     ELSE /\ migration' = [migration EXCEPT !.todo = @ \ {c}] /\ UNCHANGED legacy
  /\ UNCHANGED <<imported, staged>>

\* Mutant: what was settled when it was discovered is settled.
SettledAsFound(rows) == migration.held

\* The rows are looked at again under the locks.
StillSettled(rows) == {c \in migration.held : ~rows[c].active}

Named(d) == \E c \in Legacy : imported[c].directory = d

\* One read transaction; then directories that no imported row names, which a startup
\* that died has left, are removed.
ReadStore ==
  /\ At("lock") /\ migration.todo = {}
  /\ LET rows == [c \in Legacy |-> legacy[c].row] IN
     migration' = [migration EXCEPT !.at = "choose", !.snapshot = rows,
                     !.todo = StillSettled(rows), !.pending = StillSettled(rows) \ Imported]
  /\ staged' = [d \in Directory |-> [staged[d] EXCEPT !.there = @ /\ Named(d)]]
  /\ UNCHANGED <<legacy, imported>>

\* What a conversation refers to belongs to an eligible one; of one that is imported
\* already, to what was imported of it.
Resolvable(c) ==
  \A d \in Legacy : migration.snapshot[c].refs[d] > 0 =>
    /\ d \in migration.todo
    /\ \A row \in imported[d].row : row.turns >= migration.snapshot[c].refs[d]

\* Links join both ends.  One whose references do not all resolve is given up at the first
\* that does not, and may have linked nothing until then.
Linked(c, d, silent) ==
  \/ c \notin silent /\ migration.snapshot[c].refs[d] > 0
  \/ d \notin silent /\ migration.snapshot[d].refs[c] > 0
Joined(members, silent) ==
  \A c \in members : \A d \in migration.pending : Linked(c, d, silent) => d \in members
ComponentOf(c, silent) ==
  {d \in migration.pending : \A members \in SUBSET migration.pending :
                               c \in members /\ Joined(members, silent) => d \in members}

\* A conversation whose history is gone is imported without one.
Planned(component) == {c \in component : legacy[c].row.history > 0}

\* A component is put off whole, for one of its members or for any other reason.
ChooseComponent ==
  /\ At("choose") /\ migration.pending # {}
  /\ \E c \in migration.pending :
     \E silent \in SUBSET {d \in migration.pending : ~Resolvable(d)} :
       LET component == ComponentOf(c, silent)
           left == [migration EXCEPT !.pending = @ \ component]
           taken == [left EXCEPT !.at = "copy", !.component = component]
       IN \/ migration' = left /\ UNCHANGED staged
          \/ /\ \A d \in component : Resolvable(d)
             /\ Planned(component) = {}
             /\ migration' = taken /\ UNCHANGED staged
          \/ /\ \A d \in component : Resolvable(d)
             /\ Planned(component) # {}
             /\ \E dir \in Directory :
                  /\ ~staged[dir].there /\ \A b \in Directory : b < dir => staged[b].there
                  /\ staged' = [staged EXCEPT ![dir] = [there |-> TRUE, files |-> NoRefs]]
                  /\ migration' = [taken EXCEPT !.directory = dir]
  /\ UNCHANGED <<legacy, imported>>

CopyHistory(c) ==
  /\ At("copy") /\ c \in Planned(migration.component)
  /\ staged[migration.directory].files[c] = 0
  /\ staged' = [staged EXCEPT ![migration.directory].files[c] = legacy[c].row.history]
  /\ UNCHANGED <<legacy, migration, imported>>

\* The transaction of the project's store: all rows of the component, or none; when it
\* fails (or a history changed meanwhile) the directory is removed.
CommitImport ==
  /\ At("copy")
  /\ LET dir == migration.directory
         copied == Planned(migration.component)
     IN \/ /\ \A c \in copied : staged[dir].files[c] # 0
           /\ imported' = [c \in Legacy |->
                IF c \in migration.component
                THEN [row |-> {migration.snapshot[c]},
                      history |-> IF c \in copied THEN staged[dir].files[c] ELSE 0,
                      directory |-> IF c \in copied THEN dir ELSE 0]
                ELSE imported[c]]
           /\ UNCHANGED staged
        \/ /\ staged' = [d \in Directory |->
                IF d = dir THEN [staged[d] EXCEPT !.there = FALSE] ELSE staged[d]]
           /\ UNCHANGED imported
  /\ migration' = [migration EXCEPT !.at = "choose", !.component = {}, !.directory = 0]
  /\ UNCHANGED legacy

Released == [c \in Legacy |->
  IF legacy[c].lock = "migration" THEN [legacy[c] EXCEPT !.lock = "free"] ELSE legacy[c]]

EndMigration ==
  /\ At("choose") /\ migration.pending = {}
  /\ migration' = Idle /\ legacy' = Released
  /\ UNCHANGED <<imported, staged>>

MigrationDies ==
  /\ ~At("idle")
  /\ migration' = Idle /\ legacy' = Released
  /\ UNCHANGED <<imported, staged>>

MigrationNext ==
  \/ Discover \/ ReadStore \/ ChooseComponent \/ CommitImport \/ EndMigration \/ MigrationDies
  \/ \E c \in Legacy :
       \/ LockConversation(c) \/ CopyHistory(c)
       \/ StartLegacyTurn(c) \/ WriteHistory(c) \/ EndLegacyTurn(c)
       \/ UnlockLegacy(c) \/ RecoverLegacy(c) \/ LegacyServerDies(c)

MigrationSpec == MigrationInit /\ [][MigrationNext]_migrationVars

-----------------------------------------------------------------------------
\* What is imported is whole, whatever the legacy servers did meanwhile and wherever an
\* earlier startup died: the rows are those of a conversation with no turn under way,
\* its history is the one these rows belong to and its copy is still there, and
\* whatever it refers to is imported as well.
ImportsAreWhole ==
  /\ MigrationTypeOK
  /\ \A c \in Imported : \A row \in imported[c].row :
       /\ ~row.active /\ imported[c].history = row.history
       /\ imported[c].history > 0 =>
            /\ staged[imported[c].directory].there
            /\ staged[imported[c].directory].files[c] = imported[c].history
       /\ \A d \in Legacy : row.refs[d] > 0 =>
            \E other \in imported[d].row : other.turns >= row.refs[d]
=============================================================================
