-------------------------- MODULE NativeTasksProofs --------------------------
(***************************************************************************)
(* Proofs about native turns, for any number of conversations, turns,      *)
(* questions and crashes: what turns share is never shared by two, and     *)
(* what a turn told its caller stands.                                     *)
(*                                                                         *)
(* The argument.  A thread keeps its slot and the leases of its            *)
(* conversation and of the one it continues from admission until it knows  *)
(* that its process is gone (Held), so whoever takes a free lease finds    *)
(* only processes whose server died; and a row that says completed has no  *)
(* process at all (Won), so work does not go on beside a stray.  A row has *)
(* one question under way, and only while it waits for it (Asked).  What   *)
(* was answered stays in the question, whatever its state became (Kept).   *)
(***************************************************************************)
EXTENDS NativeTasks, FiniteSetTheorems, TLAPS

Early == {"launch", "spawn"}
Busy == Early \union {"ready", "turn", "stop", "finish"}
Holding == Busy \union {"release", "stuck"}

Owns(t) ==
  /\ t \in slots /\ lease[task[t].conversation] = t
  /\ task[t].source # None => lease[task[t].source] = t

\* A turn that was not admitted has left no trace, and turns are admitted in order.
Fresh(t) ==
  /\ task[t].status = "none" =>
       /\ thread[t].pc = "none" /\ process[t] = "none" /\ t \notin slots /\ t \notin independent
       /\ task[t].report = "none" /\ asking[t] = None
       /\ \A c \in Conversation : lease[c] # t
       /\ \A q \in Question : question[t][q].state = "none"
  /\ task[t].status # "none" =>
       /\ thread[t].pc # "none" /\ task[t].conversation \in Conversation
       /\ \A u \in Task : u < t => task[u].status # "none"

\* What the row, the thread and the process of a turn say of each other and of the
\* locks: a thread that may still have a process holds them.
Held(t) ==
  /\ thread[t].pc \in Holding \/ (Live(t) /\ thread[t].pc # "dead") => Owns(t)
  /\ thread[t].pc \in Early => process[t] = "none"
  /\ process[t] = "alive" => thread[t].pc \in {"ready", "turn", "stop"}
  /\ thread[t].pc \in Busy => task[t].status \in ACTIVE

\* A turn that completed has no process.
Won(t) ==
  \/ task[t].status = "completed"
  \/ thread[t].pc = "finish" /\ thread[t].verdict = "completed"
  => ~Live(t)

\* What a question's state and its answer say of each other.
Kept(row) ==
  /\ row.state \in {"answered", "decision_unresolved"} => row.answer = row.state
  /\ row.state \in {"none", "pending", "expired", "cancelled"} => row.answer = "none"

\* It was answered, whatever became of its turn since.
Settled(row) ==
  \/ row.state \notin Unresolved \union {"pending"}
  \/ row.state = "context_required" /\ row.answer = "answered"

\* A turn has one question under way, only while its row waits; a question is cancelled
\* with its turn; and success leaves none without its answer.
Asked(t) ==
  /\ \A q \in Question :
       /\ Kept(question[t][q])
       /\ question[t][q].state = "cancelled" => task[t].cancel \/ task[t].status \in Terminal
       /\ question[t][q].state = "pending" =>
            /\ task[t].status = "waiting_input" /\ thread[t].pc \notin Early
            /\ asking[t] # None => asking[t] = q
            /\ \A r \in Question : question[t][r].state = "pending" => q = r
  /\ asking[t] # None => question[t][asking[t]].state # "none"
  /\ task[t].report = "success" => \A q \in Question : Settled(question[t][q])

\* Has a process, or is about to start one.
Working(t) == Live(t) \/ thread[t].pc \in Early

Serial(t, u) ==
  Working(t) /\ Working(u) /\ Related(t, u) =>
    /\ "stray" \in {process[t], process[u]}
    /\ task[t].conversation = task[u].conversation \/ u < t =>
         task[t].conversation \notin WorkMode

Apart(t, u) ==
  /\ thread[t].pc \in Busy /\ thread[u].pc \in Busy
  /\ {task[t].conversation, task[u].conversation} \subseteq WorkMode
  => Owned[task[t].conversation] \intersect Owned[task[u].conversation] = {}

Each(t) == Fresh(t) /\ Held(t) /\ Won(t) /\ Asked(t)
Invariant ==
  /\ TypeOK
  /\ \A t \in Task : Each(t)
  /\ \A t, u \in Task : t # u => Serial(t, u) /\ Apart(t, u)

Statuses == {"none"} \union ACTIVE \union Terminal
Row == [conversation : Conversation \union {None}, source : Conversation \union {None},
        status : Statuses, cancel : BOOLEAN, report : {"none", "success", "blocked"}]
States == {"none", "pending", "answered", "cancelled"} \union Unresolved
Answers == {"none", "answered", "decision_unresolved"}
AskRow == [state : States, answer : Answers]
Asks == [Question -> AskRow]
Pcs == {"none", "launch", "spawn", "ready", "turn", "stop", "finish", "release",
        "done", "stuck", "dead"}
Verdicts == {"completed", "failed", "cancelled"}
Thread == [pc : Pcs, verdict : Verdicts]

USE BoundsAssumption DEF None, Task, Question

-----------------------------------------------------------------------------
(* Types, and what an update of one turn's row, questions or thread does.  *)

\* TypeOK, field by field.
LEMMA Types ==
  TypeOK <=> /\ task \in [Task -> Row] /\ question \in [Task -> Asks]
             /\ thread \in [Task -> Thread] /\ asking \in [Task -> Question \union {None}]
             /\ independent \subseteq Task /\ slots \subseteq Task
             /\ process \in [Task -> {"none", "alive", "stray", "gone"}]
             /\ lease \in [Conversation -> Task \union {None}] /\ crashes \in 0..MaxCrashes
BY Zenon DEF TypeOK, Row, Asks, AskRow, Answers, Thread, Statuses, States, Pcs, Verdicts

\* The same of the next state.
LEMMA TypesAfter ==
  TypeOK' <=> /\ task' \in [Task -> Row] /\ question' \in [Task -> Asks]
              /\ thread' \in [Task -> Thread] /\ asking' \in [Task -> Question \union {None}]
              /\ independent' \subseteq Task /\ slots' \subseteq Task
              /\ process' \in [Task -> {"none", "alive", "stray", "gone"}]
              /\ lease' \in [Conversation -> Task \union {None}] /\ crashes' \in 0..MaxCrashes
BY Zenon DEF TypeOK, Row, Asks, AskRow, Answers, Thread, Statuses, States, Pcs, Verdicts

\* A fresh store, with no turn and no lock, is of the right types.
LEMMA InitTyped == Init => TypeOK
BY DEF Init, TypeOK, ACTIVE, Terminal, Unresolved

\* What is known of a turn's thread once it went on.
LEMMA Went ==
  ASSUME thread \in [Task -> Thread], NEW t \in Task, NEW pc \in Pcs, NEW verdict \in Verdicts,
         To(t, pc, verdict)
  PROVE  /\ thread' \in [Task -> Thread]
         /\ thread'[t].pc = pc /\ thread'[t].verdict = verdict
         /\ \A u \in Task : u # t => thread'[u] = thread[u]
<1>1. thread[t] \in [pc : Pcs, verdict : Verdicts]
  BY DEF Thread
<1>2. [thread[t] EXCEPT !.pc = pc] \in [pc : Pcs, verdict : Verdicts]
  BY <1>1
<1>3. [[thread[t] EXCEPT !.pc = pc] EXCEPT !.verdict = verdict] \in Thread
  BY <1>2 DEF Thread
<1>4. thread' = [thread EXCEPT ![t] = [[thread[t] EXCEPT !.pc = pc] EXCEPT !.verdict = verdict]]
  BY DEF To, Thread
<1> QED
  BY <1>1, <1>2, <1>3, <1>4

\* What is known of a turn's thread once it ended.
LEMMA Ended ==
  ASSUME TypeOK, NEW t \in Task, NEW pc \in Pcs, thread' = [thread EXCEPT ![t].pc = pc]
  PROVE  /\ thread' \in [Task -> Thread] /\ thread'[t].pc = pc
         /\ \A u \in Task : u # t => thread'[u] = thread[u]
<1>1. thread[t] \in [pc : Pcs, verdict : Verdicts] /\ thread \in [Task -> Thread]
  BY Types DEF Thread
<1>2. [thread[t] EXCEPT !.pc = pc] \in Thread
  BY <1>1 DEF Thread
<1> QED
  BY <1>1, <1>2

\* What is known of a row whose status changed.
LEMMA Stated ==
  ASSUME task \in [Task -> Row], NEW t \in Task, NEW status \in Statuses,
         task' = [task EXCEPT ![t].status = status]
  PROVE  /\ task' \in [Task -> Row]
         /\ task'[t] = [task[t] EXCEPT !.status = status]
         /\ task'[t].status = status /\ task'[t].conversation = task[t].conversation
         /\ task'[t].source = task[t].source /\ task'[t].cancel = task[t].cancel
         /\ task'[t].report = task[t].report
         /\ \A u \in Task : u # t => task'[u] = task[u]
<1>1. task[t] \in Row
  OBVIOUS
<1>2. [task[t] EXCEPT !.status = status] \in Row
  BY <1>1 DEF Row
<1> QED
  BY <1>1, <1>2 DEF Row

\* A closed question is not pending; the others are as they were.
LEMMA Closed ==
  ASSUME question \in [Task -> Asks], NEW t \in Task, NEW state \in States,
         question' = Close(t, state)
  PROVE  /\ question' \in [Task -> Asks]
         /\ \A u \in Task : u # t => question'[u] = question[u]
         /\ \A q \in Question :
              \/ /\ question[t][q].state = "pending" /\ question'[t][q].state = state
                 /\ question'[t][q].answer = question[t][q].answer
              \/ question[t][q].state # "pending" /\ question'[t][q] = question[t][q]
<1>1. question[t] \in Asks
  OBVIOUS
<1>2. \A q \in Question : question[t][q] \in [state : States, answer : Answers]
  BY <1>1 DEF Asks, AskRow
<1>3. \A q \in Question :
        /\ [question[t][q] EXCEPT !.state = state] \in AskRow
        /\ [question[t][q] EXCEPT !.state = state].state = state
        /\ [question[t][q] EXCEPT !.state = state].answer = question[t][q].answer
  BY <1>2 DEF AskRow
<1>4. question'[t] = [q \in Question |->
        IF q \in Pending(t) THEN [question[t][q] EXCEPT !.state = state] ELSE question[t][q]]
  BY DEF Close
<1>5. question'[t] \in Asks
  BY <1>1, <1>3, <1>4 DEF Asks
<1>6. \A u \in Task : u # t => question'[u] = question[u]
  BY DEF Close
<1>7. question' \in [Task -> Asks]
  BY <1>5, <1>6 DEF Close
<1> QED
  BY <1>3, <1>4, <1>6, <1>7 DEF Pending

\* A row that is closed asks nothing any more.
LEMMA ClosedAsked ==
  ASSUME NEW t \in Task, Asked(t), asking \in [Task -> Question \union {None}], asking' = asking,
         task'[t].report = task[t].report, task'[t].cancel \/ task'[t].status \in Terminal,
         \A q \in Question :
           \/ /\ question[t][q].state = "pending" /\ question'[t][q].state = "cancelled"
              /\ question'[t][q].answer = question[t][q].answer
           \/ question[t][q].state # "pending" /\ question'[t][q] = question[t][q]
  PROVE  Asked(t)'
<1>1. ASSUME NEW q \in Question
      PROVE  Kept(question'[t][q]) /\ question'[t][q].state # "pending"
  <2>1. Kept(question[t][q])
    BY DEF Asked
  <2>2. CASE question'[t][q] = question[t][q] /\ question[t][q].state # "pending"
    BY <2>1, <2>2
  <2>3. CASE /\ question[t][q].state = "pending" /\ question'[t][q].state = "cancelled"
             /\ question'[t][q].answer = question[t][q].answer
    BY <2>1, <2>3 DEF Kept
  <2> QED
    BY <2>2, <2>3
<1>2. asking'[t] # None => question'[t][asking'[t]].state # "none"
  BY DEF Asked
<1>3. \A q \in Question : Settled(question[t][q]) => Settled(question'[t][q])
  BY DEF Settled, Unresolved
<1> QED
  BY <1>1, <1>2, <1>3 DEF Asked

\* Where a question of a turn takes another state.
LEMMA Put ==
  ASSUME question \in [Task -> Asks], NEW t \in Task, NEW q \in Question,
         NEW record \in AskRow,
         question' = [question EXCEPT ![t][q] = record]
  PROVE  /\ question' \in [Task -> Asks]
         /\ \A u \in Task : u # t => question'[u] = question[u]
         /\ question'[t][q] = record
         /\ \A r \in Question : r # q => question'[t][r] = question[t][r]
<1>1. question[t] \in Asks
  OBVIOUS
<1>2. [question[t] EXCEPT ![q] = record] \in Asks
  BY <1>1 DEF Asks
<1> QED
  BY <1>1, <1>2 DEF Asks

\* Only the state of a question changes.
Moves(t, q, state) == question' = [question EXCEPT ![t][q].state = state]

LEMMA Moved ==
  ASSUME question \in [Task -> Asks], NEW t \in Task, NEW q \in Question, NEW state \in States,
         Moves(t, q, state)
  PROVE  /\ question' \in [Task -> Asks]
         /\ \A u \in Task : u # t => question'[u] = question[u]
         /\ question'[t][q].state = state /\ question'[t][q].answer = question[t][q].answer
         /\ question'[t][q] = [question[t][q] EXCEPT !.state = state]
         /\ \A r \in Question : r # q => question'[t][r] = question[t][r]
<1>1. question[t] \in Asks /\ question[t][q] \in [state : States, answer : Answers]
  BY DEF Asks, AskRow
<1>2. PICK record \in AskRow : record = [question[t][q] EXCEPT !.state = state]
  BY <1>1 DEF AskRow
<1>3. record.state = state /\ record.answer = question[t][q].answer
  BY <1>1, <1>2
<1>4. [question[t] EXCEPT ![q].state = state] = [question[t] EXCEPT ![q] = record]
  BY <1>1, <1>2
<1>5. PICK asks \in Asks : asks = [question[t] EXCEPT ![q] = record]
  BY <1>1 DEF Asks
<1>6. question' = [question EXCEPT ![t] = asks]
  BY <1>4, <1>5 DEF Moves
<1> HIDE <1>4
<1>7. asks[q] = record /\ \A r \in Question : r # q => asks[r] = question[t][r]
  BY <1>1, <1>5 DEF Asks
<1>8. question' \in [Task -> Asks] /\ question'[t] = asks /\ \A u \in Task : u # t => question'[u] = question[u]
  BY <1>5, <1>6
<1> QED
  BY <1>2, <1>3, <1>7, <1>8

\* A turn that gives its locks back frees its own and no other.
LEMMA FreedLocks ==
  ASSUME lease \in [Conversation -> Task \union {None}], slots \subseteq Task, NEW t \in Task,
         lease' = Released(t), slots' = slots \ {t}
  PROVE  /\ lease' \in [Conversation -> Task \union {None}] /\ slots' \subseteq Task
         /\ \A c \in Conversation : lease'[c] = IF lease[c] = t THEN None ELSE lease[c]
BY DEF Released

-----------------------------------------------------------------------------
(* A step of one turn.                                                     *)

\* A step of turn t leaves the other turns alone, gives back locks of t at most, and
\* starts no process but one that was about to start.
Winds(t) ==
  /\ \A u \in Task : u # t =>
       /\ task'[u] = task[u] /\ question'[u] = question[u] /\ thread'[u] = thread[u]
       /\ asking'[u] = asking[u] /\ process'[u] = process[u]
  /\ slots \ {t} \subseteq slots' /\ slots' \subseteq slots
  /\ independent' \subseteq independent \union {t}
  /\ \A c \in Conversation : lease'[c] = lease[c] \/ (lease[c] = t /\ lease'[c] = None)
  /\ task'[t].conversation = task[t].conversation /\ task'[t].source = task[t].source
  /\ task[t].status # "none" /\ task'[t].status # "none"
  /\ Working(t)' => Working(t)
  /\ process[t] = "stray" => process'[t] # "alive"
  /\ thread'[t].pc \in Busy => thread[t].pc \in Busy
  /\ thread'[t].pc \in Early => thread[t].pc \in Early
  /\ thread'[t].pc # "none"

\* A step of one turn that winds down, or goes on, keeps what is said of every
\* other turn and of every two of them.
LEMMA OneTurn ==
  ASSUME Invariant, NEW t \in Task, Winds(t), TypeOK', Held(t)', Won(t)', Asked(t)'
  PROVE  Invariant'
<1> DEFINE Same(u) == /\ task'[u].conversation = task[u].conversation
                      /\ task'[u].source = task[u].source
                      /\ Working(u)' => Working(u)
                      /\ process[u] = "stray" => process'[u] # "alive"
                      /\ thread'[u].pc \in Busy => thread[u].pc \in Busy
                      /\ task'[u].status = "none" <=> task[u].status = "none"
<1>1. \A u \in Task : Same(u)
  BY DEF Winds, Working, Live
<1>2. \A u \in Task : Fresh(u)'
  <2> SUFFICES ASSUME NEW u \in Task
               PROVE  Fresh(u)'
    OBVIOUS
  <2>1. CASE u = t
    BY <2>1, <1>1 DEF Winds, Fresh, Invariant, Each
  <2>2. CASE u # t
    <3>1. Fresh(u)
      BY DEF Invariant, Each
    <3>2. \A c \in Conversation : lease[c] # u => lease'[c] # u
      BY DEF Winds
    <3> QED
      BY <2>2, <3>1, <3>2, <1>1 DEF Winds, Fresh
  <2> QED
    BY <2>1, <2>2
<1>3. \A u \in Task : u # t => Held(u)' /\ Won(u)' /\ Asked(u)'
  <2> SUFFICES ASSUME NEW u \in Task, u # t
               PROVE  Held(u)' /\ Won(u)' /\ Asked(u)'
    OBVIOUS
  <2>1. Each(u) /\ TypeOK
    BY DEF Invariant
  <2>2. Owns(u) /\ task[u].status # "none" => Owns(u)'
    <3> SUFFICES ASSUME Owns(u), task[u].status # "none"
                 PROVE  Owns(u)'
      OBVIOUS
    <3>1. task[u] \in Row
      BY <2>1, Types
    <3>2. task[u].conversation \in Conversation /\ task[u].source \in Conversation \union {None}
      BY <2>1, <3>1 DEF Each, Fresh, Row
    <3> QED
      BY <3>2 DEF Winds, Owns
  <2>3. Held(u)'
    BY <2>1, <2>2 DEF Each, Held, Winds, Live, Fresh, Holding, Busy, Early
  <2>4. Won(u)'
    BY <2>1 DEF Each, Won, Winds, Live
  <2>5. Asked(u)'
    BY <2>1 DEF Each, Asked, Winds
  <2> QED
    BY <2>3, <2>4, <2>5
<1>4. \A u, v \in Task : u # v => Serial(u, v)' /\ Apart(u, v)'
  <2> SUFFICES ASSUME NEW u \in Task, NEW v \in Task, u # v
               PROVE  Serial(u, v)' /\ Apart(u, v)'
    OBVIOUS
  <2>1. Same(u) /\ Same(v) /\ Serial(u, v) /\ Apart(u, v)
    BY <1>1 DEF Invariant
  <2>2. Apart(u, v)'
    BY <2>1 DEF Apart
  <2>3. \A w \in Task : Working(w)' /\ process[w] = "stray" => process'[w] = "stray"
    <3> SUFFICES ASSUME NEW w \in Task, Working(w)', process[w] = "stray"
                 PROVE  process'[w] = "stray"
      OBVIOUS
    <3>1. Held(w) /\ process'[w] # "alive"
      BY <1>1 DEF Invariant, Each
    <3>2. thread'[w].pc \notin Early
      BY <3>1 DEF Winds, Held, Early
    <3> QED
      BY <3>1, <3>2 DEF Working, Live
  <2>4. Serial(u, v)'
    BY <2>1, <2>3 DEF Serial, Related
  <2> QED
    BY <2>2, <2>4
<1> QED
  BY <1>2, <1>3, <1>4 DEF Invariant, Each

-----------------------------------------------------------------------------
(* The worker thread.                                                      *)

\* The thread of t goes on, and touches nothing but its process.
LEMMA GoesOn ==
  ASSUME Invariant, NEW t \in Task, NEW pc \in Busy, NEW verdict \in Verdicts, To(t, pc, verdict),
         thread[t].pc \in Busy, pc \in Early => thread[t].pc \in Early,
         UNCHANGED <<task, question, independent, asking, lease, slots, crashes>>,
         NEW end \in {"none", "alive", "stray", "gone"}, process' = [process EXCEPT ![t] = end],
         pc \in Early => process[t] = end,
         end = "alive" => pc \in {"ready", "turn", "stop"} /\ process[t] = "alive",
         Live(t)' => Live(t), pc = "finish" /\ verdict = "completed" => end \notin {"alive", "stray"}
  PROVE  Invariant'
<1>1. TypeOK /\ Each(t)
  BY DEF Invariant
<1>2. /\ thread' \in [Task -> Thread] /\ thread'[t].pc = pc /\ thread'[t].verdict = verdict
      /\ \A u \in Task : u # t => thread'[u] = thread[u]
  BY <1>1, Types, Went DEF Busy, Early, Pcs
<1>3. /\ process' \in [Task -> {"none", "alive", "stray", "gone"}] /\ process'[t] = end
      /\ \A u \in Task : u # t => process'[u] = process[u]
  BY <1>1, Types
<1>4. TypeOK'
  BY <1>1, <1>2, <1>3, Types, TypesAfter
<1>5. task[t].status # "none" /\ thread'[t].pc # "none"
  BY <1>1, <1>2 DEF Each, Fresh, Busy, Early
<1>6. Owns(t) /\ task[t].status \in ACTIVE
  BY <1>1 DEF Each, Held, Holding
<1>7. Winds(t)
  BY <1>1, <1>2, <1>3, <1>5 DEF Winds, Working, Live
<1>8. Held(t)'
  BY <1>2, <1>3, <1>6, <1>1 DEF Held, Owns, Each
<1>9. Won(t)'
  BY <1>2, <1>3, <1>6 DEF Won, Live, ACTIVE
<1>10. Asked(t)'
  BY <1>1, <1>2 DEF Asked, Each
<1> QED
  BY <1>4, <1>7, <1>8, <1>9, <1>10, OneTurn

\* Every step of a turn's thread, its end and its failure included.
LEMMA ThreadsSound ==
  ASSUME Invariant, NEW t \in Task, Threads(t) \/ EndTurn(t) \/ Fail(t)
  PROVE  Invariant'
<1>1. TypeOK /\ Each(t)
  BY DEF Invariant
<1>2. process = [process EXCEPT ![t] = process[t]] /\ process[t] \in {"none", "alive", "stray", "gone"}
  BY <1>1, Types
<1> USE DEF rows, locks, Busy, Early, Verdicts
<1>3. CASE Refuse(t)
  <2>1. /\ thread' \in [Task -> Thread] /\ thread'[t].pc = "done"
        /\ \A u \in Task : u # t => thread'[u] = thread[u]
    BY <1>1, <1>3, Ended DEF Pcs, Refuse
  <2>2. /\ task' \in [Task -> Row] /\ task'[t].status \in {task[t].status, "failed"}
        /\ task'[t].conversation = task[t].conversation /\ task'[t].source = task[t].source
        /\ task'[t].report = task[t].report /\ task'[t].cancel = task[t].cancel
        /\ \A u \in Task : u # t => task'[u] = task[u]
    <3>1. CASE task' = [task EXCEPT ![t].status = "failed"]
      BY <1>1, <3>1, Stated, Types DEF Statuses, Terminal
    <3>2. CASE task' = task
      BY <1>1, <3>2, Types
    <3> QED
      BY <1>3, <3>1, <3>2 DEF Refuse
  <2>3. /\ lease' \in [Conversation -> Task \union {None}] /\ slots' = slots \ {t}
        /\ \A c \in Conversation : lease'[c] = IF lease[c] = t THEN None ELSE lease[c]
    BY <1>1, <1>3, FreedLocks, Types DEF Refuse
  <2>4. process[t] = "none" /\ thread[t].pc = "launch" /\ task[t].status \in ACTIVE
    BY <1>1, <1>3 DEF Refuse, Each, Held
  <2>5. TypeOK'
    BY <1>1, <1>3, <2>1, <2>2, <2>3, Types, TypesAfter DEF Refuse
  <2>6. Winds(t)
    BY <1>1, <1>3, <2>1, <2>2, <2>3, <2>4 DEF Winds, Refuse, Working, Live, Each, Fresh
  <2>7. Held(t)' /\ Won(t)'
    BY <1>3, <2>1, <2>2, <2>4 DEF Held, Won, Live, Holding, Refuse, ACTIVE
  <2>8. Asked(t)'
    BY <1>1, <1>3, <2>2, <2>4 DEF Asked, Each, Refuse, ACTIVE, Terminal
  <2> QED
    BY <2>5, <2>6, <2>7, <2>8, OneTurn
<1>4. CASE Launch(t)
  <2>1. process[t] = "none"
    BY <1>1, <1>4 DEF Launch, Each, Held
  <2>2. PICK pc \in {"stop", "spawn"}, verdict \in {"cancelled", "failed"} : To(t, pc, verdict)
    BY <1>4 DEF Launch
  <2> QED
    BY <1>2, <1>4, <2>1, <2>2, GoesOn DEF Launch, Live
<1>5. CASE Spawn(t)
  <2>1. PICK pc \in {"ready", "stop"} :
          /\ To(t, pc, "failed")
          /\ \/ process' = process
             \/ pc = "ready" /\ process' = [process EXCEPT ![t] = "alive"]
    BY <1>5 DEF Spawn
  <2>2. /\ thread' \in [Task -> Thread] /\ thread'[t].pc = pc /\ thread'[t].verdict = "failed"
        /\ \A u \in Task : u # t => thread'[u] = thread[u]
    BY <1>1, <2>1, Types, Went DEF Pcs
  <2>3. /\ task' \in [Task -> Row] /\ task'[t].status = "running"
        /\ task'[t].conversation = task[t].conversation /\ task'[t].source = task[t].source
        /\ task'[t].report = task[t].report /\ task'[t].cancel = task[t].cancel
        /\ \A u \in Task : u # t => task'[u] = task[u]
    BY <1>1, <1>5, Stated, Types DEF Spawn, Statuses, ACTIVE
  <2>4. /\ process' \in [Task -> {"none", "alive", "stray", "gone"}]
        /\ process'[t] \in {"none", "alive"} /\ (process'[t] = "alive" => pc = "ready")
        /\ \A u \in Task : u # t => process'[u] = process[u]
    BY <1>1, <1>5, <2>1, Types DEF Spawn, Each, Held
  <2>5. thread[t].pc = "spawn" /\ Owns(t) /\ task[t].status # "none" /\ task[t].status \in ACTIVE
    BY <1>1, <1>5 DEF Spawn, Each, Held, Holding, Fresh
  <2>6. TypeOK'
    BY <1>1, <1>5, <2>2, <2>3, <2>4, Types, TypesAfter DEF Spawn
  <2>7. Winds(t)
    BY <1>1, <1>5, <2>2, <2>3, <2>4, <2>5 DEF Winds, Spawn, Working, Each, Held
  <2>8. Held(t)' /\ Won(t)'
    BY <1>5, <2>2, <2>3, <2>4, <2>5 DEF Held, Won, Spawn, Owns, ACTIVE, Live
  <2>9. Asked(t)'
    BY <1>1, <1>5, <2>2, <2>3, <2>5 DEF Asked, Each, Spawn, ACTIVE, Terminal
  <2> QED
    BY <2>6, <2>7, <2>8, <2>9, OneTurn
<1>6. CASE Ready(t)
  <2>1. PICK pc \in {"stop", "turn"}, verdict \in {"cancelled", "failed"} : To(t, pc, verdict)
    BY <1>6 DEF Ready
  <2> QED
    BY <1>2, <1>6, <2>1, GoesOn DEF Ready, Live
<1>7. CASE Stop(t)
  <2>1. PICK end \in {"none", "stray", "gone"} :
          /\ process' = [process EXCEPT ![t] = end]
          /\ end = "stray" => process[t] \in {"alive", "stray"}
          /\ \/ task[t].cancel /\ To(t, "finish", "cancelled")
             \/ ~task[t].cancel /\ end # "stray" /\ To(t, "finish", thread[t].verdict)
             \/ ~task[t].cancel /\ To(t, "finish", "failed")
    BY <1>1, <1>2, <1>7 DEF Stop
  <2>2. PICK verdict \in Verdicts :
          To(t, "finish", verdict) /\ (verdict = "completed" => end # "stray")
    BY <1>1, <2>1, Types DEF Thread
  <2>3. Live(t)' => Live(t)
    BY <1>1, <2>1, Types DEF Live
  <2>4. /\ thread[t].pc = "stop" /\ "finish" \in Busy /\ "finish" \notin Early
        /\ end # "alive" /\ (verdict = "completed" => end \notin {"alive", "stray"})
        /\ UNCHANGED <<task, question, independent, asking, lease, slots, crashes>>
    BY <1>7, <2>1, <2>2 DEF Stop
  <2> HIDE DEF Busy, Early
  <2>5. thread[t].pc \in Busy
    BY <2>4 DEF Busy
  <2> QED
    BY <2>1, <2>2, <2>3, <2>4, <2>5, GoesOn
<1>8. CASE EndTurn(t)
  <2>1. PICK verdict \in Verdicts : To(t, "stop", verdict)
    BY <1>8 DEF EndTurn
  <2> QED
    BY <1>2, <1>8, <2>1, GoesOn DEF EndTurn, Live
<1>9. CASE Finish(t)
  <2>1. thread[t].pc = "finish" /\ thread[t].verdict \in Verdicts \intersect Statuses \intersect Terminal
    BY <1>1, <1>9, Types DEF Finish, Thread, Statuses, Terminal
  <2>2. /\ thread' \in [Task -> Thread] /\ thread'[t].pc = "release"
        /\ \A u \in Task : u # t => thread'[u] = thread[u]
    BY <1>1, <1>9, Types, Went DEF Finish, Pcs
  <2>3. /\ task' \in [Task -> Row] /\ task'[t].status = thread[t].verdict
        /\ task'[t].conversation = task[t].conversation /\ task'[t].source = task[t].source
        /\ task'[t].report = task[t].report
        /\ \A u \in Task : u # t => task'[u] = task[u]
    BY <1>1, <1>9, <2>1, Stated, Types DEF Finish
  <2>4. /\ question' \in [Task -> Asks]
        /\ \A u \in Task : u # t => question'[u] = question[u]
        /\ \A q \in Question :
             \/ /\ question[t][q].state = "pending" /\ question'[t][q].state = "cancelled"
                /\ question'[t][q].answer = question[t][q].answer
             \/ question[t][q].state # "pending" /\ question'[t][q] = question[t][q]
    BY <1>1, <1>9, Closed, Types DEF Finish, States
  <2>5. TypeOK'
    BY <1>1, <1>9, <2>2, <2>3, <2>4, Types, TypesAfter DEF Finish
  <2>6. Owns(t) /\ task[t].status # "none" /\ process[t] # "alive"
    BY <1>1, <2>1 DEF Each, Held, Holding, Fresh
  <2>7. Winds(t)
    BY <1>9, <2>1, <2>2, <2>3, <2>4, <2>6 DEF Winds, Finish, Working, Live
  <2>8. Held(t)' /\ Won(t)'
    BY <1>1, <1>9, <2>1, <2>2, <2>3, <2>6 DEF Held, Won, Live, Finish, Owns, Each
  <2>9. Asked(t)'
    BY <1>1, <1>9, <2>1, <2>3, <2>4, Types, ClosedAsked DEF Each, Finish
  <2> QED
    BY <2>5, <2>7, <2>8, <2>9, OneTurn
<1>10. CASE Fail(t)
  <2>1. /\ thread' \in [Task -> Thread] /\ thread'[t].pc = "stuck"
        /\ \A u \in Task : u # t => thread'[u] = thread[u]
    BY <1>1, <1>10, Ended DEF Pcs, Fail
  <2>2. /\ Owns(t) /\ task[t].status # "none" /\ process[t] # "alive"
        /\ thread[t].pc \in {"launch", "finish", "release"}
    BY <1>1, <1>10 DEF Each, Held, Holding, Fresh, Fail
  <2>3. TypeOK'
    BY <1>1, <1>10, <2>1, Types, TypesAfter DEF Fail
  <2>4. Winds(t)
    BY <1>10, <2>1, <2>2 DEF Winds, Fail, Working, Live
  <2>5. Held(t)' /\ Won(t)'
    BY <1>1, <1>10, <2>1, <2>2 DEF Held, Won, Live, Fail, Owns, Each
  <2>6. Asked(t)'
    BY <1>1, <1>10, <2>1 DEF Asked, Each, Fail
  <2> QED
    BY <2>3, <2>4, <2>5, <2>6, OneTurn
<1>11. CASE Release(t)
  <2>1. /\ thread' \in [Task -> Thread] /\ thread'[t].pc = "done"
        /\ \A u \in Task : u # t => thread'[u] = thread[u]
    BY <1>1, <1>11, Ended DEF Pcs, Release
  <2>2. /\ lease' \in [Conversation -> Task \union {None}]
        /\ slots \ {t} \subseteq slots' /\ slots' \subseteq slots
        /\ \A c \in Conversation : lease'[c] = lease[c] \/ (lease[c] = t /\ lease'[c] = None)
        /\ process[t] = "stray" => lease' = lease /\ slots' = slots
    BY <1>1, <1>11, FreedLocks, Types DEF Release
  <2>3. Owns(t) /\ task[t].status # "none" /\ process[t] # "alive" /\ thread[t].pc = "release"
    BY <1>1, <1>11 DEF Each, Held, Holding, Fresh, Release
  <2>4. TypeOK'
    BY <1>1, <1>11, <2>1, <2>2, Types, TypesAfter DEF Release
  <2>5. Winds(t)
    BY <1>11, <2>1, <2>2, <2>3 DEF Winds, Release, Working, Live
  <2>6. Held(t)' /\ Won(t)'
    BY <1>1, <1>11, <2>1, <2>2, <2>3 DEF Held, Won, Live, Release, Owns, Each, Holding
  <2>7. Asked(t)'
    BY <1>1, <1>11, <2>1 DEF Asked, Each, Release
  <2> QED
    BY <2>4, <2>5, <2>6, <2>7, OneTurn
<1> QED
  BY <1>3, <1>4, <1>5, <1>6, <1>7, <1>8, <1>9, <1>10, <1>11 DEF Threads

-----------------------------------------------------------------------------
(* Callbacks and other callers: steps on the row and questions of a turn.  *)

\* The row and the questions of t change, and neither its thread nor its locks.
LEMMA RowMoves ==
  ASSUME Invariant, NEW t \in Task, UNCHANGED <<thread, process, lease, slots, crashes>>,
         task' \in [Task -> Row], question' \in [Task -> Asks], independent' \subseteq independent \union {t},
         asking' \in [Task -> Question \union {None}],
         \A u \in Task : u # t =>
           task'[u] = task[u] /\ question'[u] = question[u] /\ asking'[u] = asking[u],
         task'[t].conversation = task[t].conversation, task'[t].source = task[t].source,
         task[t].status # "none", task'[t].status # "none",
         thread[t].pc \in Busy => task'[t].status \in ACTIVE,
         task'[t].status = "completed" => task[t].status = "completed", Asked(t)'
  PROVE  Invariant'
<1>1. TypeOK /\ Each(t)
  BY DEF Invariant
<1>2. TypeOK'
  <2>1. independent' \subseteq Task
    BY <1>1, Types
  <2> QED
    BY <1>1, <2>1, Types, TypesAfter
<1>3. Winds(t)
  BY <1>1 DEF Winds, Working, Live, Each, Fresh
<1>4. Held(t)' /\ Won(t)'
  BY <1>1 DEF Each, Held, Won, Live, Owns
<1> QED
  BY <1>2, <1>3, <1>4, OneTurn

\* What is known of a row that goes on once its question is settled.
LEMMA Resumes ==
  ASSUME TypeOK, NEW t \in Task, task' = Resumed(t)
  PROVE  /\ task' \in [Task -> Row]
         /\ task'[t].conversation = task[t].conversation /\ task'[t].source = task[t].source
         /\ task'[t].report = task[t].report /\ task'[t].cancel = task[t].cancel
         /\ task'[t].status = IF task[t].status = "waiting_input" THEN "running" ELSE task[t].status
         /\ \A u \in Task : u # t => task'[u] = task[u]
<1>1. task \in [Task -> Row] /\ task[t] \in Row
  BY Types
<1>2. PICK s \in Statuses :
        /\ s = IF task[t].status = "waiting_input" THEN "running" ELSE task[t].status
        /\ task' = [task EXCEPT ![t].status = s]
  BY <1>1 DEF Resumed, Row, Statuses, ACTIVE
<1> QED
  BY <1>1, <1>2, Stated

\* Every step of the callbacks a turn's process makes.
LEMMA CallbacksSound ==
  ASSUME Invariant, NEW t \in Task, Callbacks(t)
  PROVE  Invariant'
<1>1. TypeOK /\ Each(t)
  BY DEF Invariant
<1>2. /\ task \in [Task -> Row] /\ question \in [Task -> Asks]
      /\ asking \in [Task -> Question \union {None}] /\ independent \subseteq Task
  BY <1>1, Types
<1> USE DEF rows, locks
<1>3. CASE Poll(t)
  <2>1. task[t].status # "none" /\ asking[t] \in Question
    BY <1>1, <1>2, <1>3 DEF Poll, Each, Fresh
  <2>2. /\ asking' \in [Task -> Question \union {None}] /\ asking'[t] = None
        /\ \A u \in Task : u # t => asking'[u] = asking[u]
    BY <1>2, <1>3 DEF Poll
  <2>3. CASE UNCHANGED <<task, question>>
    <3>1. Asked(t)'
      BY <1>1, <1>3, <2>2, <2>3 DEF Poll, Asked, Each
    <3> QED
      BY <1>1, <1>2, <1>3, <2>1, <2>2, <2>3, <3>1, RowMoves DEF Poll, Each, Held
  <2>4. CASE /\ task[t].status \in ACTIVE /\ ~task[t].cancel
             /\ RequireSnapshot(t, asking[t])
    <3>0. PICK q \in Question : q = asking[t] /\ question[t][q].state \notin {"none", "cancelled"}
      BY <1>1, <2>1, <2>4 DEF Each, Asked, ACTIVE, Terminal
    <3>1. /\ question' \in [Task -> Asks]
          /\ \A u \in Task : u # t => question'[u] = question[u]
          /\ question'[t][q].state = "context_required"
          /\ question'[t][q].answer = question[t][q].answer
          /\ \A r \in Question : r # q => question'[t][r] = question[t][r]
      <4>1. Moves(t, q, "context_required")
        BY <2>4, <3>0 DEF Moves, RequireSnapshot
      <4>2. "context_required" \in States
        BY DEF States, Unresolved
      <4> QED
        BY <1>2, <4>1, <4>2, Moved, ZenonT(60)
    <3>2. /\ task' \in [Task -> Row] /\ task'[t].status = "running"
          /\ task'[t].conversation = task[t].conversation /\ task'[t].source = task[t].source
          /\ task'[t].report = task[t].report /\ task'[t].cancel = task[t].cancel
          /\ \A u \in Task : u # t => task'[u] = task[u]
      BY <1>2, <2>4, Stated DEF RequireSnapshot, Statuses, ACTIVE
    <3>3. \A r \in Question : question'[t][r].state # "pending"
      BY <1>1, <3>0, <3>1 DEF Each, Asked
    <3>4. Asked(t)'
      <4>1. \A r \in Question :
              /\ Kept(question'[t][r])
              /\ question'[t][r].state = "cancelled" => task'[t].cancel \/ task'[t].status \in Terminal
        <5>1. CASE task[t].status \in Terminal
          BY <2>4, <5>1 DEF ACTIVE, Terminal
        <5>2. CASE task[t].status \notin Terminal
          BY <1>1, <3>0, <3>1, <3>2, <5>2 DEF Each, Asked, Kept
        <5> QED
          BY <5>1, <5>2
      <4>2. task'[t].report = "success" => \A r \in Question : Settled(question'[t][r])
        <5> SUFFICES ASSUME task[t].report = "success", NEW r \in Question
                     PROVE  Settled(question'[t][r])
          BY <3>2
        <5>1. Kept(question[t][r]) /\ Settled(question[t][r])
          BY <1>1 DEF Each, Asked
        <5>2. CASE r # q
          BY <3>1, <5>1, <5>2
        <5>3. CASE r = q
          <6>1. question[t][r] \in AskRow
            BY <1>2 DEF Asks
          <6> QED
            BY <3>0, <3>1, <5>1, <5>3, <6>1 DEF Settled, Kept, AskRow, States, Unresolved
        <5> QED
          BY <5>2, <5>3
      <4> QED
        BY <2>2, <3>3, <4>1, <4>2 DEF Asked
    <3> QED
      BY <1>2, <1>3, <2>1, <2>2, <3>1, <3>2, <3>4, RowMoves DEF Poll, ACTIVE
  <2>5. CASE /\ task[t].status \in ACTIVE
             /\ question[t][asking[t]].state \in {"pending", "expired"}
             /\ question' = Expired(t, asking[t]) /\ task' = Resumed(t)
    <3>0. PICK q \in Question : q = asking[t]
      BY <2>1
    <3>1. /\ question' \in [Task -> Asks]
          /\ \A u \in Task : u # t => question'[u] = question[u]
          /\ question'[t][q].state = "expired" /\ question'[t][q].answer = question[t][q].answer
          /\ \A r \in Question : r # q => question'[t][r] = question[t][r]
      <4>1. Moves(t, q, "expired")
        BY <2>5, <3>0 DEF Moves, Expired
      <4>2. "expired" \in States
        BY DEF States, Unresolved
      <4> QED
        BY <1>2, <4>1, <4>2, Moved, ZenonT(60)
    <3>2. /\ task' \in [Task -> Row]
          /\ task'[t].conversation = task[t].conversation /\ task'[t].source = task[t].source
          /\ task'[t].report = task[t].report /\ task'[t].cancel = task[t].cancel
          /\ task'[t].status = IF task[t].status = "waiting_input" THEN "running" ELSE task[t].status
          /\ \A u \in Task : u # t => task'[u] = task[u]
      BY <1>1, <2>5, Resumes
    <3>3. \A r \in Question : question'[t][r].state # "pending"
      BY <1>1, <3>0, <3>1 DEF Each, Asked
    <3>4. Asked(t)'
      <4>1. \A r \in Question :
              /\ Kept(question'[t][r])
              /\ question'[t][r].state = "cancelled" => task'[t].cancel \/ task'[t].status \in Terminal
        <5>1. \A r \in Question : Kept(question'[t][r])
          <6>1. \A r \in Question : Kept(question[t][r])
            BY <1>1 DEF Each, Asked
          <6> QED
            BY <2>5, <3>0, <3>1, <6>1 DEF Kept
        <5>2. task[t].status \in Terminal => task'[t].status \in Terminal
          BY <3>2 DEF Terminal
        <5> QED
          BY <1>1, <3>0, <3>1, <3>2, <5>1, <5>2 DEF Each, Asked
      <4>2. task'[t].report # "success"
        BY <1>1, <2>5, <3>0, <3>2 DEF Each, Asked, Settled, Unresolved
      <4> QED
        BY <2>2, <3>3, <4>1, <4>2 DEF Asked
    <3>5. task'[t].status \in ACTIVE
      BY <2>5, <3>2 DEF ACTIVE
    <3> QED
      BY <1>2, <1>3, <2>1, <2>2, <3>1, <3>2, <3>4, <3>5, RowMoves DEF Poll, ACTIVE
  <2> QED
    BY <1>3, <2>3, <2>4, <2>5 DEF Poll
<1>4. CASE AbandonCall(t)
  <2>1. /\ asking' \in [Task -> Question \union {None}] /\ asking'[t] = None
        /\ \A u \in Task : u # t => asking'[u] = asking[u]
    BY <1>2, <1>4 DEF AbandonCall
  <2>2. task[t].status # "none"
    BY <1>1, <1>4 DEF AbandonCall, Each, Fresh
  <2>3. Asked(t)'
    BY <1>1, <1>4, <2>1 DEF AbandonCall, Asked, Each
  <2> QED
    BY <1>1, <1>2, <1>4, <2>1, <2>2, <2>3, RowMoves DEF AbandonCall, Each, Held
<1>5. ASSUME NEW q \in Question, Ask(t, q)
      PROVE  Invariant'
  <2>1. /\ thread[t].pc \in {"turn", "stop", "finish"} /\ task[t].status = "running"
        /\ task[t].report = "none" /\ asking[t] = None
    BY <1>5 DEF Ask, CallsBack, Running
  <2>2. CASE t \in independent
    <3>1. /\ question' \in [Task -> Asks]
          /\ \A u \in Task : u # t => question'[u] = question[u]
          /\ question'[t][q].state = "context_required"
          /\ question'[t][q].answer = question[t][q].answer
          /\ \A r \in Question : r # q => question'[t][r] = question[t][r]
      <4>1. Moves(t, q, "context_required")
        BY <1>5, <2>2 DEF Moves, Ask, RequireSnapshot
      <4>2. "context_required" \in States
        BY DEF States, Unresolved
      <4> QED
        BY <1>2, <1>5, <4>1, <4>2, Moved, ZenonT(60)
    <3>2. /\ task' \in [Task -> Row] /\ task'[t].status = "running"
          /\ task'[t].conversation = task[t].conversation /\ task'[t].source = task[t].source
          /\ task'[t].report = task[t].report /\ task'[t].cancel = task[t].cancel
          /\ \A u \in Task : u # t => task'[u] = task[u]
      <4>1. "running" \in Statuses /\ task' = [task EXCEPT ![t].status = "running"]
        BY <1>5, <2>2 DEF Ask, RequireSnapshot, Statuses, ACTIVE
      <4> QED
        BY <1>2, <4>1, Stated
    <3>3. UNCHANGED <<asking, independent, thread, process, lease, slots, crashes>>
      BY <1>5, <2>2 DEF Ask
    <3>4. Asked(t)'
      <4>1. \A r \in Question : Kept(question'[t][r]) /\ question'[t][r].state # "pending"
        BY <1>1, <1>5, <2>1, <3>1 DEF Each, Asked, Kept, Ask
      <4>2. \A r \in Question :
              question'[t][r].state = "cancelled" => task'[t].cancel \/ task'[t].status \in Terminal
        BY <1>1, <2>1, <3>1, <3>2 DEF Each, Asked, Terminal
      <4> QED
        BY <2>1, <3>2, <3>3, <4>1, <4>2 DEF Asked
    <3> QED
      BY <1>2, <2>1, <3>1, <3>2, <3>3, <3>4, RowMoves DEF ACTIVE
  <2>3. CASE t \notin independent
    <3>1. question[t][q].state = "none"
      BY <1>5 DEF Ask
    <3>2. Moves(t, q, "pending")
      BY <1>5, <2>3 DEF Moves, Ask
    <3>3. "pending" \in States
      BY DEF States
    <3>4. /\ question' \in [Task -> Asks]
          /\ \A u \in Task : u # t => question'[u] = question[u]
          /\ question'[t][q].state = "pending" /\ question'[t][q].answer = question[t][q].answer
          /\ \A r \in Question : r # q => question'[t][r] = question[t][r]
      BY <1>2, <1>5, <3>2, <3>3, Moved, ZenonT(60)
    <3>6. /\ task' \in [Task -> Row] /\ task'[t].status = "waiting_input"
          /\ task'[t].conversation = task[t].conversation /\ task'[t].source = task[t].source
          /\ task'[t].report = task[t].report /\ task'[t].cancel = task[t].cancel
          /\ \A u \in Task : u # t => task'[u] = task[u]
      <4>1. "waiting_input" \in Statuses
        BY DEF Statuses, ACTIVE
      <4>2. task' = [task EXCEPT ![t].status = "waiting_input"]
        BY <1>5, <2>3 DEF Ask
      <4> QED
        BY <1>2, <4>1, <4>2, Stated
    <3>7. /\ asking' \in [Task -> Question \union {None}] /\ asking'[t] = q
          /\ \A u \in Task : u # t => asking'[u] = asking[u]
      BY <1>2, <1>5, <2>3, ZenonT(60) DEF Ask
    <3>8. UNCHANGED <<independent, thread, process, lease, slots, crashes>>
      BY <1>5 DEF Ask
    <3>9. \A r \in Question : question[t][r].state # "pending"
      BY <1>1, <2>1 DEF Asked, Each
    <3>10. \A r \in Question : question'[t][r].state = "pending" => r = q
      BY <3>4, <3>9
    <3>11. \A r \in Question :
             /\ Kept(question'[t][r])
             /\ question'[t][r].state = "cancelled" => task'[t].cancel \/ task'[t].status \in Terminal
      <4>1. \A r \in Question : Kept(question'[t][r])
        BY <1>1, <3>1, <3>4 DEF Each, Asked, Kept
      <4>2. task[t].status \notin Terminal
        BY <2>1 DEF Terminal
      <4> QED
        BY <1>1, <3>4, <3>6, <4>1, <4>2 DEF Each, Asked
    <3>12. Asked(t)'
      BY <2>1, <3>4, <3>6, <3>7, <3>8, <3>10, <3>11 DEF Asked, Early
    <3> QED
      BY <1>2, <2>1, <3>4, <3>6, <3>7, <3>8, <3>12, RowMoves DEF ACTIVE
  <2> QED
    BY <2>2, <2>3
<1>6. ASSUME NEW outcome \in {"success", "blocked"}, Report(t, outcome)
      PROVE  Invariant'
  <2>1. task[t] \in Row /\ task[t].status = "running"
    BY <1>2, <1>6 DEF Report, Running
  <2>2. [task[t] EXCEPT !.report = outcome] \in Row
    BY <2>1 DEF Row
  <2>3. /\ task' \in [Task -> Row] /\ task'[t] = [task[t] EXCEPT !.report = outcome]
        /\ \A u \in Task : u # t => task'[u] = task[u]
    BY <1>2, <1>6, <2>2 DEF Report
  <2>4. /\ task'[t].status = "running" /\ task'[t].report = outcome
        /\ task'[t].conversation = task[t].conversation /\ task'[t].source = task[t].source
        /\ task'[t].cancel = task[t].cancel
    BY <2>1, <2>3 DEF Row
  <2>5. Asked(t)'
    <3>1. outcome = "success" => \A q \in Question : Settled(question[t][q])
      BY <1>1, <1>6, <2>1 DEF Report, Asked, Each, Settled
    <3> QED
      BY <1>1, <1>6, <2>1, <2>4, <3>1 DEF Report, Asked, Each
  <2> QED
    BY <1>2, <1>6, <2>1, <2>3, <2>4, <2>5, RowMoves DEF Report, ACTIVE
<1>7. CASE ClaimReview(t) \/ OpenComparison(t)
  <2>1. /\ independent' \subseteq independent \union {t} /\ thread[t].pc \in {"turn", "stop", "finish"}
        /\ UNCHANGED <<task, question, thread, asking, process, lease, slots, crashes>>
    BY <1>2, <1>7 DEF ClaimReview, OpenComparison, CallsBack
  <2>2. task[t].status \in ACTIVE /\ Asked(t)'
    BY <1>1, <2>1 DEF Each, Held, Asked, Busy
  <2> QED
    BY <1>2, <2>1, <2>2, RowMoves DEF ACTIVE
<1> QED
  BY <1>3, <1>4, <1>5, <1>6, <1>7 DEF Callbacks

\* Every step others take on a turn: a read that recovers it, a cancellation, an answer to
\* its question or none in time, and the end of a process it left behind.
LEMMA OthersSound ==
  ASSUME Invariant, NEW t \in Task, Others(t)
  PROVE  Invariant'
<1>1. TypeOK /\ Each(t)
  BY DEF Invariant
<1>2. /\ task \in [Task -> Row] /\ question \in [Task -> Asks]
      /\ asking \in [Task -> Question \union {None}] /\ independent \subseteq Task
  BY <1>1, Types
<1> USE DEF rows, locks
<1>3. CASE Refresh(t)
  <2>1. PICK overdue \in (SUBSET Pending(t)) \ {{}} :
          question' = [question EXCEPT ![t] = [r \in Question |->
             IF r \in overdue THEN [question[t][r] EXCEPT !.state = "expired"] ELSE question[t][r]]]
    BY <1>3 DEF Refresh
  <2>2. PICK q \in Question : question[t][q].state = "pending" /\ q \in overdue
    BY <2>1 DEF Pending
  <2>3. \A r \in Question : question[t][r].state = "pending" => r = q
    BY <1>1, <2>2 DEF Each, Asked
  <2>4. overdue = {q}
    BY <2>2, <2>3 DEF Pending
  <2>5. /\ task[t].status = "waiting_input" /\ task' \in {task, Resumed(t)}
        /\ UNCHANGED <<independent, thread, asking, process, lease, slots, crashes>>
    BY <1>3 DEF Refresh
  <2>6. Moves(t, q, "expired")
    <3> DEFINE expired == [r \in Question |->
          IF r \in overdue THEN [question[t][r] EXCEPT !.state = "expired"] ELSE question[t][r]]
    <3>1. question[t] \in Asks
      BY <1>2
    <3>2. expired = [question[t] EXCEPT ![q].state = "expired"]
      BY <2>4, <3>1 DEF Asks
    <3> QED
      BY <2>1, <3>2 DEF Moves
  <2>7. /\ question' \in [Task -> Asks]
        /\ \A u \in Task : u # t => question'[u] = question[u]
        /\ question'[t][q].state = "expired" /\ question'[t][q].answer = question[t][q].answer
        /\ \A r \in Question : r # q => question'[t][r] = question[t][r]
    <3>1. "expired" \in States
      BY DEF States, Unresolved
    <3> QED
      BY <1>2, <2>6, <3>1, Moved, ZenonT(60)
  <2>8. /\ task' \in [Task -> Row] /\ task'[t].status \in {"waiting_input", "running"}
        /\ task'[t].conversation = task[t].conversation /\ task'[t].source = task[t].source
        /\ task'[t].report = task[t].report /\ task'[t].cancel = task[t].cancel
        /\ \A u \in Task : u # t => task'[u] = task[u]
    BY <1>1, <1>2, <2>5, Resumes
  <2>9. task'[t].report # "success"
    BY <1>1, <2>2, <2>8 DEF Each, Asked, Settled
  <2>10. \A r \in Question :
           /\ Kept(question'[t][r]) /\ question'[t][r].state # "pending"
           /\ question'[t][r].state = "cancelled" => task'[t].cancel \/ task'[t].status \in Terminal
    <3>1. \A r \in Question : Kept(question'[t][r]) /\ question'[t][r].state # "pending"
      <4>1. \A r \in Question : Kept(question[t][r])
        BY <1>1 DEF Each, Asked
      <4> QED
        BY <2>2, <2>3, <2>7, <4>1 DEF Kept
    <3>2. task[t].status \notin Terminal
      BY <2>5 DEF Terminal
    <3> QED
      BY <1>1, <2>7, <2>8, <3>1, <3>2 DEF Each, Asked
  <2>11. Asked(t)'
    <3>1. asking'[t] = asking[t] /\ asking[t] \in Question \union {None}
      BY <1>2, <2>5
    <3>2. asking'[t] # None => question'[t][asking'[t]].state # "none"
      BY <1>1, <2>7, <3>1 DEF Each, Asked
    <3> QED
      BY <2>9, <2>10, <3>2 DEF Asked
  <2> QED
    BY <1>2, <2>5, <2>7, <2>8, <2>11, RowMoves DEF ACTIVE
<1>4. CASE Cancel(t)
  <2>1. /\ question' \in [Task -> Asks]
        /\ \A u \in Task : u # t => question'[u] = question[u]
        /\ \A q \in Question :
             \/ /\ question[t][q].state = "pending" /\ question'[t][q].state = "cancelled"
                /\ question'[t][q].answer = question[t][q].answer
             \/ question[t][q].state # "pending" /\ question'[t][q] = question[t][q]
    BY <1>2, <1>4, Closed DEF Cancel, States
  <2>2. task[t] \in Row /\ task[t].status \in ACTIVE
    BY <1>2, <1>4 DEF Cancel
  <2> DEFINE cancelled == [[task[t] EXCEPT !.cancel = TRUE] EXCEPT !.status = "cancelling"]
  <2>3. cancelled \in Row
    <3>1. [task[t] EXCEPT !.cancel = TRUE] \in Row
      BY <2>2 DEF Row
    <3> QED
      BY <3>1 DEF Row, Statuses, ACTIVE
  <2>4. /\ cancelled.conversation = task[t].conversation /\ cancelled.source = task[t].source
        /\ cancelled.report = task[t].report /\ cancelled.status = "cancelling"
        /\ cancelled.cancel = TRUE
    BY <2>2 DEF Row
  <2>5. task' = [task EXCEPT ![t] = cancelled]
    BY <1>4, <2>2 DEF Cancel, Row
  <2> HIDE DEF cancelled
  <2>6. /\ task' \in [Task -> Row] /\ task'[t] = cancelled
        /\ \A u \in Task : u # t => task'[u] = task[u]
    BY <1>2, <2>3, <2>5
  <2>7. Asked(t)'
    BY <1>1, <1>2, <1>4, <2>1, <2>4, <2>6, ClosedAsked DEF Each, Cancel
  <2> QED
    BY <1>2, <1>4, <2>1, <2>2, <2>4, <2>6, <2>7, RowMoves DEF Cancel, ACTIVE
<1>5. CASE Recover(t)
  <2>1. /\ question' \in [Task -> Asks]
        /\ \A u \in Task : u # t => question'[u] = question[u]
        /\ \A q \in Question :
             \/ /\ question[t][q].state = "pending" /\ question'[t][q].state = "cancelled"
                /\ question'[t][q].answer = question[t][q].answer
             \/ question[t][q].state # "pending" /\ question'[t][q] = question[t][q]
    BY <1>2, <1>5, Closed DEF Recover, States
  <2>2. /\ task' \in [Task -> Row] /\ task'[t].status = "interrupted"
        /\ task'[t].conversation = task[t].conversation /\ task'[t].source = task[t].source
        /\ task'[t].report = task[t].report
        /\ \A u \in Task : u # t => task'[u] = task[u]
    BY <1>2, <1>5, Stated DEF Recover, Statuses, Terminal
  <2>3. task[t].status \in ACTIVE /\ thread[t].pc \notin Busy
    BY <1>1, <1>5 DEF Recover, Each, Held, Holding, Owns
  <2>4. Asked(t)'
    BY <1>1, <1>2, <1>5, <2>1, <2>2, ClosedAsked DEF Each, Recover, Terminal
  <2> QED
    BY <1>2, <1>5, <2>1, <2>2, <2>3, <2>4, RowMoves DEF Recover, ACTIVE
<1>6. CASE StrayExits(t)
  <2>1. /\ process' \in [Task -> {"none", "alive", "stray", "gone"}] /\ process'[t] = "gone"
        /\ \A u \in Task : u # t => process'[u] = process[u]
    BY <1>1, <1>6, Types DEF StrayExits
  <2>2. TypeOK'
    BY <1>1, <1>6, <2>1, Types, TypesAfter DEF StrayExits
  <2>3. task[t].status # "none" /\ thread[t].pc # "none" /\ thread[t].pc \notin Early
    BY <1>1, <1>6 DEF StrayExits, Each, Fresh, Held
  <2>4. Winds(t)
    BY <1>6, <2>1, <2>3 DEF StrayExits, Winds, Working, Live
  <2>5. Held(t)' /\ Won(t)' /\ Asked(t)'
    BY <1>1, <1>6, <2>1, <2>3 DEF StrayExits, Each, Held, Won, Asked, Live, Owns
  <2> QED
    BY <2>2, <2>4, <2>5, OneTurn
<1>7. CASE EndReview(t)
  <2>1. /\ independent' \subseteq independent \union {t} /\ t \in independent
        /\ UNCHANGED <<task, question, thread, asking, process, lease, slots, crashes>>
    BY <1>7 DEF EndReview
  <2>2. Asked(t)' /\ task[t].status # "none"
    BY <1>1, <2>1 DEF Each, Asked, Fresh
  <2> QED
    BY <1>1, <1>2, <2>1, <2>2, RowMoves DEF Each, Held
<1>8. ASSUME NEW q \in Question, NEW state \in {"answered", "decision_unresolved"},
             Reply(t, q, state)
      PROVE  Invariant'
  <2>1. question[t][q].state = "pending" /\ task[t].status = "waiting_input"
    BY <1>8 DEF Reply
  <2>2. [state |-> state, answer |-> state] \in AskRow
    BY DEF AskRow, States, Answers, Unresolved
  <2>3. question' = [question EXCEPT ![t][q] = [state |-> state, answer |-> state]]
    BY <1>8 DEF Reply
  <2>4. /\ question' \in [Task -> Asks]
        /\ \A u \in Task : u # t => question'[u] = question[u]
        /\ question'[t][q] = [state |-> state, answer |-> state]
        /\ \A r \in Question : r # q => question'[t][r] = question[t][r]
    BY <1>2, <1>8, <2>2, <2>3, Put, ZenonT(120)
  <2>5. /\ task' \in [Task -> Row] /\ task'[t].status = "running"
        /\ task'[t].conversation = task[t].conversation /\ task'[t].source = task[t].source
        /\ task'[t].report = task[t].report /\ task'[t].cancel = task[t].cancel
        /\ \A u \in Task : u # t => task'[u] = task[u]
    BY <1>2, <1>8, Stated DEF Reply, Statuses, ACTIVE
  <2>6. question'[t][q].state = state /\ question'[t][q].answer = state
    BY <2>4
  <2>7. \A r \in Question :
          /\ Kept(question'[t][r]) /\ question'[t][r].state # "pending"
          /\ question'[t][r].state = "cancelled" => task'[t].cancel \/ task'[t].status \in Terminal
    BY <1>1, <2>1, <2>4, <2>5, <2>6 DEF Each, Asked, Kept, Terminal
  <2>8. task'[t].report # "success"
    BY <1>1, <2>1, <2>5 DEF Each, Asked, Settled
  <2>9. Asked(t)'
    <3>1. UNCHANGED asking
      BY <1>8 DEF Reply
    <3>2. asking'[t] # None => question'[t][asking'[t]].state # "none"
      BY <1>1, <1>2, <2>4, <2>6, <3>1 DEF Each, Asked
    <3> QED
      BY <2>7, <2>8, <3>2 DEF Asked
  <2> QED
    BY <1>2, <1>8, <2>1, <2>4, <2>5, <2>9, RowMoves DEF Reply, ACTIVE
<1> QED
  BY <1>3, <1>4, <1>5, <1>6, <1>7, <1>8 DEF Others

-----------------------------------------------------------------------------
(* Admission and crashes.                                                  *)

Admitted == {u \in Task : task[u].status # "none"}

\* The turn that is admitted next is the first one that was not.
LEMMA NextTurn ==
  ASSUME \A u \in Task : Fresh(u), NEW t \in Task, t = Cardinality(Admitted) + 1
  PROVE  task[t].status = "none" /\ \A u \in Task : u < t => task[u].status # "none"
<1>1. \A u, v \in Task : u \in Admitted /\ v < u => v \in Admitted
  BY DEF Admitted, Fresh
<1>2. \A n \in 0..MaxTasks : IsFiniteSet(1..n) /\ Cardinality(1..n) = n
  <2> SUFFICES ASSUME NEW n \in 0..MaxTasks
               PROVE  IsFiniteSet(1..n) /\ Cardinality(1..n) = n
    OBVIOUS
  <2>1. Cardinality(1..n) = IF 1 > n THEN 0 ELSE n - 1 + 1
    BY FS_Interval
  <2> QED
    BY <2>1, FS_Interval
<1>3. IsFiniteSet(Admitted) /\ Cardinality(Admitted) \in Nat
  <2>1. IsFiniteSet(1..MaxTasks) /\ Admitted \in SUBSET (1..MaxTasks)
    BY <1>2 DEF Admitted
  <2> QED
    BY <2>1, FS_Subset, FS_CardinalityType
<1>4. task[t].status = "none"
  <2> SUFFICES ASSUME t \in Admitted PROVE FALSE
    BY DEF Admitted
  <2>1. 1..t \in SUBSET Admitted
    BY <1>1
  <2>2. Cardinality(1..t) <= Cardinality(Admitted)
    BY <1>3, <2>1, FS_Subset
  <2> QED
    BY <1>2, <1>3, <2>2
<1>5. ASSUME NEW u \in Task, u < t
      PROVE  task[u].status # "none"
  <2> SUFFICES ASSUME u \notin Admitted PROVE FALSE
    BY DEF Admitted
  <2>1. Admitted \in SUBSET (1..(u - 1))
    BY <1>1 DEF Admitted
  <2>2. Cardinality(Admitted) <= Cardinality(1..(u - 1)) /\ u - 1 \in 0..MaxTasks
    <3>1. u - 1 \in 0..MaxTasks
      OBVIOUS
    <3>2. IsFiniteSet(1..(u - 1))
      BY <1>2, <3>1
    <3> QED
      BY <2>1, <3>1, <3>2, FS_Subset
  <2> QED
    BY <1>2, <1>3, <1>5, <2>2
<1> QED
  BY <1>4, <1>5

\* A new turn, continuing an earlier conversation or not, is apart from those that run.
LEMMA StartSound ==
  ASSUME Invariant, NEW c \in Conversation, NEW source \in Conversation \union {None},
         Start(c, source)
  PROVE  Invariant'
<1>1. TypeOK /\ \A u \in Task : Each(u)
  BY SMTT(30) DEF Invariant
<1> DEFINE taken == {c} \union ({source} \ {None})
<1>2. PICK t \in Task :
      /\ t = Cardinality(Admitted) + 1
      /\ \A d \in taken : lease[d] = None /\ Continuable(d)
      /\ source # None => source \in WorkMode <=> c \in WorkMode
      /\ FilesFree(c)
      /\ task' = [task EXCEPT ![t] = [@ EXCEPT !.conversation = c, !.source = source,
                                               !.status = "starting"]]
      /\ thread' = [thread EXCEPT ![t].pc = "launch"]
      /\ lease' = [d \in Conversation |-> IF d \in taken THEN t ELSE lease[d]]
      /\ slots' = slots \union {t} /\ independent' \in {independent, independent \union {t}}
      /\ UNCHANGED <<question, asking, process, crashes>>
  BY ZenonT(60) DEF Start, Admitted
<1>3. task[t].status = "none" /\ \A u \in Task : u < t => task[u].status # "none"
  <2>1. \A u \in Task : Fresh(u)
    BY <1>1 DEF Each
  <2> QED
    BY <1>2, <2>1, NextTurn
<1> DEFINE row == [[[task[t] EXCEPT !.conversation = c] EXCEPT !.source = source] EXCEPT !.status = "starting"]
<1>4. /\ row \in Row /\ row.conversation = c /\ row.source = source
      /\ row.status = "starting" /\ row.report = task[t].report
  <2>1. task[t] \in Row
    BY <1>1, <1>2, Types
  <2> QED
    BY <2>1 DEF Row, Statuses, ACTIVE
<1>5. task' = [task EXCEPT ![t] = row]
  BY <1>2
<1> HIDE DEF row
<1>6. /\ task' \in [Task -> Row] /\ task'[t].conversation = c /\ task'[t].source = source
      /\ task'[t].status = "starting" /\ task'[t].report = task[t].report
      /\ \A u \in Task : u # t => task'[u] = task[u]
  BY <1>1, <1>2, <1>4, <1>5, Types
<1>7. /\ thread' \in [Task -> Thread] /\ thread'[t].pc = "launch"
      /\ \A u \in Task : u # t => thread'[u] = thread[u]
  BY <1>1, <1>2, Ended DEF Pcs
<1>8. /\ lease' \in [Conversation -> Task \union {None}]
      /\ \A d \in Conversation : lease'[d] = IF d \in taken THEN t ELSE lease[d]
  BY <1>1, <1>2, Types
<1>9. TypeOK'
  BY <1>1, <1>2, <1>6, <1>7, <1>8, Types, TypesAfter
<1>10. \A u \in Task : task[u].status # "none" => task[u].conversation # None
  BY <1>1, ConversationAssumption DEF Each, Fresh
<1>11. c # None /\ taken \subseteq Conversation
  BY ConversationAssumption
\* Whoever has to do with a conversation that is taken holds nothing of it any more.
<1>12. ASSUME NEW u \in Task, task[u].status # "none",
              {task[u].conversation, task[u].source} \intersect taken # {}
       PROVE  thread[u].pc \notin Holding /\ process[u] # "alive"
  <2>1. ~Owns(u)
    BY <1>2, <1>12, <1>11 DEF Owns
  <2> QED
    BY <1>1, <2>1 DEF Each, Held, Live, Holding, Busy, Early
<1>13. ASSUME NEW u \in Task, task[u].conversation \in taken, c \in WorkMode,
              task[u].status # "none"
       PROVE  ~Live(u)
  <2>1. task[u].conversation \in WorkMode
    BY <1>2, <1>13
  <2>2. task[u].status = "completed"
    BY <1>2, <1>13, <2>1 DEF Continuable, Turns
  <2> QED
    BY <1>1, <2>2 DEF Each, Won
<1>14. \A u \in Task : Each(u)'
  <2> SUFFICES ASSUME NEW u \in Task
               PROVE  Each(u)'
    OBVIOUS
  <2>1. CASE u = t
    <3>1. Fresh(t) /\ Held(t) /\ Asked(t)
      BY <1>1, <1>2 DEF Each
    <3>2. Owns(t)'
      BY <1>2, <1>6, <1>8 DEF Owns
    <3>3. Fresh(t)'
      BY <1>3, <1>6, <1>7 DEF Fresh
    <3>4. Held(t)' /\ Won(t)'
      BY <1>2, <1>3, <1>6, <1>7, <3>1, <3>2 DEF Held, Won, Live, Fresh, ACTIVE
    <3>5. Asked(t)'
      BY <1>2, <1>3, <1>6, <3>1 DEF Asked, Fresh, Terminal
    <3> QED
      BY <2>1, <3>3, <3>4, <3>5 DEF Each
  <2>2. CASE u # t
    <3>1. Each(u) /\ task'[u] = task[u] /\ thread'[u] = thread[u]
      BY <1>1, <1>6, <1>7, <2>2
    <3>2. Owns(u) /\ task[u].status # "none" => Owns(u)'
      <4> SUFFICES ASSUME Owns(u), task[u].status # "none"
                   PROVE  Owns(u)'
        OBVIOUS
      <4>1. task[u] \in Row
        BY <1>1, Types
      <4>2. task[u].conversation \in Conversation /\ task[u].source \in Conversation \union {None}
        BY <3>1, <4>1 DEF Row, Each, Fresh
      <4> QED
        BY <1>2, <1>8, <3>1, <4>2 DEF Owns
    <3>3. Fresh(u)'
      BY <1>2, <1>6, <1>8, <2>2, <3>1 DEF Each, Fresh
    <3>4. Held(u)' /\ Won(u)' /\ Asked(u)'
      BY <1>2, <3>1, <3>2 DEF Each, Held, Won, Asked, Live, Fresh, Holding, Busy, Early
    <3> QED
      BY <3>3, <3>4 DEF Each
  <2> QED
    BY <2>1, <2>2
<1>15. \A u, v \in Task : u # v => Serial(u, v)' /\ Apart(u, v)'
  <2> SUFFICES ASSUME NEW u \in Task, NEW v \in Task, u # v
               PROVE  Serial(u, v)' /\ Apart(u, v)'
    OBVIOUS
  <2>1. CASE u # t /\ v # t
    <3>1. Serial(u, v) /\ Apart(u, v)
      BY DEF Invariant
    <3> QED
      BY <1>2, <1>6, <1>7, <2>1, <3>1 DEF Serial, Apart, Related, Working, Live
  <2>2. \A w \in Task : w # t /\ Working(w)' =>
          /\ Working(w) /\ task[w].status # "none" /\ process'[w] = process[w]
          /\ task'[w] = task[w] /\ (thread'[w].pc \in Busy => thread[w].pc \in Busy)
    BY <1>1, <1>2, <1>6, <1>7 DEF Working, Live, Each, Fresh, Early
  \* Of a turn that works beside the new one only a process is left, that nobody watches.
  <2>3. ASSUME NEW w \in Task, w # t, Working(w)',
               {task[w].conversation, task[w].source} \intersect taken # {}
        PROVE  process'[w] = "stray"
    BY <1>12, <2>2, <2>3 DEF Working, Live, Holding, Busy
  <2>4. \A w \in Task : w # t /\ thread[w].pc \in Busy /\ task[w].conversation \in WorkMode
                        /\ c \in WorkMode => Owned[task[w].conversation] \intersect Owned[c] = {}
    BY <1>1, <1>2 DEF FilesFree, Each, Held
  <2>5. CASE u = t
    <3>1. Serial(u, v)'
      <4> SUFFICES ASSUME Working(v)', Related(u, v)'
                   PROVE  process'[v] = "stray" /\ c \notin WorkMode
        BY <1>6, <2>5 DEF Serial
      <4>1. task[v].conversation \in taken
        BY <1>6, <1>10, <2>2, <2>5 DEF Related
      <4> QED
        BY <1>13, <2>2, <2>3, <2>5, <4>1 DEF Working, Live
    <3>2. Apart(u, v)'
      BY <1>6, <1>7, <2>4, <2>5 DEF Apart
    <3> QED
      BY <3>1, <3>2
  <2>6. CASE v = t
    <3>1. Serial(u, v)'
      <4> SUFFICES ASSUME Working(u)', Related(u, v)'
                   PROVE  /\ process'[u] = "stray"
                          /\ task'[u].conversation = c \/ t < u => task'[u].conversation \notin WorkMode
        BY <1>6, <2>6 DEF Serial
      <4>1. c \in {task[u].conversation, task[u].source} /\ ~(t < u)
        <5>1. Fresh(u) /\ task[u].status # "none" /\ task'[u] = task[u] /\ u # t
          BY <1>1, <2>2, <2>6 DEF Each
        <5> QED
          BY <1>3, <1>6, <2>6, <5>1 DEF Related, Fresh
      <4>2. process'[u] = "stray" /\ task'[u] = task[u] /\ Live(u) /\ task[u].status # "none"
        BY <2>2, <2>3, <2>6, <4>1 DEF Live
      <4> QED
        BY <1>13, <4>1, <4>2
    <3>2. Apart(u, v)'
      BY <1>6, <1>7, <2>4, <2>6 DEF Apart
    <3> QED
      BY <3>1, <3>2
  <2> QED
    BY <2>1, <2>5, <2>6
<1> QED
  BY <1>9, <1>14, <1>15 DEF Invariant

\* A server crash leaves turns to recover and may leave processes behind.
LEMMA CrashSound ==
  ASSUME Invariant, NEW T \in SUBSET Task, Crash(T)
  PROVE  Invariant'
<1>1. TypeOK /\ \A t \in Task : Each(t)
  BY DEF Invariant
<1>2. \A t \in Task :
        /\ t \in T => /\ thread[t].pc \notin {"none", "dead"}
                      /\ thread'[t] = [pc |-> "dead", verdict |-> "failed"] /\ asking'[t] = None
                      /\ process'[t] = IF process[t] = "alive" THEN "stray" ELSE process[t]
        /\ t \notin T => /\ thread'[t] = thread[t] /\ asking'[t] = asking[t]
                         /\ process'[t] = process[t]
  BY DEF Crash
<1>3. /\ \A c \in Conversation : lease'[c] = IF lease[c] \in T THEN None ELSE lease[c]
      /\ slots' = slots \ T /\ UNCHANGED <<task, question, independent>>
  BY DEF Crash, rows
<1>4. TypeOK'
  <2>1. /\ thread' \in [Task -> Thread]
        /\ asking' \in [Task -> Question \union {None}]
        /\ process' \in [Task -> {"none", "alive", "stray", "gone"}]
        /\ lease' \in [Conversation -> Task \union {None}]
        /\ crashes' \in 0..MaxCrashes
    BY <1>1, Types DEF Crash, Thread, Pcs, Verdicts
  <2> QED
    BY <1>1, <1>3, <2>1, Types, TypesAfter
<1>5. ASSUME NEW t \in Task
      PROVE  Each(t)'
  <2>1. Each(t)
    BY <1>1
  <2>2. CASE t \in T
    <3>1. thread'[t].pc = "dead" /\ process'[t] # "alive" /\ (Live(t)' => Live(t))
      BY <1>2, <2>2 DEF Live
    <3>2. Fresh(t)' 
      BY <1>2, <1>3, <2>1, <2>2, <3>1 DEF Each, Fresh
    <3>3. Held(t)' /\ Won(t)'
      BY <1>3, <2>1, <3>1 DEF Each, Held, Won, Holding, Busy, Early, Live
    <3>4. Asked(t)'
      BY <1>2, <1>3, <2>1, <2>2, <3>1 DEF Each, Asked, Early
    <3> QED
      BY <3>2, <3>3, <3>4 DEF Each
  <2>3. CASE t \notin T
    <3>1. task[t] \in Row
      BY <1>1, Types
    <3>2. Owns(t) /\ task[t].status # "none" => Owns(t)'
      BY <1>3, <2>1, <2>3, <3>1 DEF Owns, Each, Fresh, Row
    <3>3. Fresh(t)'
      BY <1>2, <1>3, <2>1, <2>3 DEF Each, Fresh
    <3>4. Held(t)' /\ Won(t)' /\ Asked(t)'
      BY <1>2, <1>3, <2>1, <2>3, <3>2 DEF Each, Held, Won, Asked, Live, Fresh, Holding, Busy, Early
    <3> QED
      BY <3>3, <3>4 DEF Each
  <2> QED
    BY <2>2, <2>3
<1>6. ASSUME NEW t \in Task
      PROVE  /\ Working(t)' => Working(t)
             /\ process[t] = "stray" => process'[t] = "stray"
             /\ thread'[t].pc \in Busy => thread[t].pc \in Busy
  BY <1>2 DEF Working, Live, Busy, Early
<1>7. ASSUME NEW t \in Task, NEW u \in Task, t # u
      PROVE  Serial(t, u)' /\ Apart(t, u)'
  <2>1. Serial(t, u) /\ Apart(t, u)
    BY <1>7 DEF Invariant
  <2>2. Serial(t, u)'
    BY <1>3, <1>6, <2>1 DEF Serial, Related
  <2>3. Apart(t, u)'
    BY <1>3, <1>6, <2>1 DEF Apart
  <2> QED
    BY <2>2, <2>3
<1> QED
  BY <1>4, <1>5, <1>7 DEF Invariant

-----------------------------------------------------------------------------
(* The theorems.                                                           *)

\* The invariant holds at first.
LEMMA InitInvariant == Init => Invariant
<1> SUFFICES ASSUME Init
             PROVE  Invariant
  OBVIOUS
<1>1. TypeOK
  BY InitTyped
<1>2. ASSUME NEW t \in Task
      PROVE  Each(t)
  BY <1>2, ConversationAssumption
     DEF Init, Each, Fresh, Held, Won, Asked, Kept, Settled, Live, Holding, Busy, Early, Unresolved
<1>3. \A t, u \in Task : Serial(t, u) /\ Apart(t, u)
  BY DEF Init, Serial, Apart, Working, Live, Busy, Early
<1> QED
  BY <1>1, <1>2, <1>3 DEF Invariant

\* Every step keeps the invariant.
LEMMA NextInvariant == Invariant /\ [Next]_vars => Invariant'
<1> SUFFICES ASSUME Invariant, [Next]_vars
             PROVE  Invariant'
  OBVIOUS
<1>1. CASE UNCHANGED vars
  <2> USE <1>1 DEF vars
  <2>1. TypeOK'
    BY DEF Invariant, TypeOK
  <2>2. ASSUME NEW t \in Task
        PROVE  Each(t)'
    <3>1. Each(t)
      BY DEF Invariant
    <3> QED
      BY <3>1 DEF Each, Fresh, Held, Won, Asked, Live, Owns
  <2>3. ASSUME NEW t \in Task, NEW u \in Task, t # u
        PROVE  Serial(t, u)' /\ Apart(t, u)'
    <3>1. Serial(t, u) /\ Apart(t, u)
      BY <2>3 DEF Invariant
    <3> QED
      BY <3>1 DEF Serial, Apart, Working, Live, Related
  <2> QED
    BY <2>1, <2>2, <2>3 DEF Invariant
<1>2. CASE \E c \in Conversation, source \in Conversation \union {None} : Start(c, source)
  BY <1>2, StartSound
<1>3. CASE \E T \in SUBSET Task : Crash(T)
  BY <1>3, CrashSound
<1>4. CASE \E t \in Task : Threads(t) \/ EndTurn(t) \/ Fail(t) \/ Callbacks(t) \/ Others(t)
  BY <1>4, ThreadsSound, CallbacksSound, OthersSound
<1> QED
  BY <1>1, <1>2, <1>3, <1>4 DEF Next

\* The rows of the turns, their threads, processes and locks agree in every state.
THEOREM TasksAreInductive == Spec => []Invariant
BY InitInvariant, NextInvariant, PTL DEF Spec

\* What turns share is never shared by two at a time: not a conversation, not a file of
\* two watched work turns, not a slot; and locks cover a process until it is gone.
THEOREM LocksSound == Spec => []LocksAreSound
<1>1. Invariant => LocksAreSound
  <2> SUFFICES ASSUME Invariant
               PROVE  LocksAreSound
    OBVIOUS
  <2>1. TypeOK /\ \A t \in Task : Each(t)
    BY DEF Invariant
  <2>2. ConversationsAreSerial
    BY DEF Invariant, ConversationsAreSerial, Serial, Working
  <2>3. FilesAreExclusive
    <3>1. \A t \in Task : process[t] = "alive" => thread[t].pc \in Busy
      BY <2>1 DEF Each, Held, Busy
    <3> QED
      BY <3>1 DEF Invariant, FilesAreExclusive, Apart
  <2>4. ProcessesAreCovered
    BY <2>1 DEF ProcessesAreCovered, Each, Held, Owns
  <2> QED
    BY <2>1, <2>2, <2>3, <2>4 DEF LocksAreSound
<1> QED
  BY <1>1, TasksAreInductive, PTL

\* A step changes the row of a turn only as long as it is not terminal.
LEMMA TerminalStands ==
  ASSUME Invariant, Next, NEW t \in Task, task[t].status \in Terminal
  PROVE  task'[t] = task[t] /\ question'[t] = question[t]
<1>1. TypeOK /\ \A u \in Task : Each(u)
  BY DEF Invariant
<1>2. /\ task[t].status \notin ACTIVE \union {"none"} /\ thread[t].pc \notin Busy
      /\ \A q \in Question : question[t][q].state # "pending"
  BY <1>1 DEF Each, Held, Asked, ACTIVE, Terminal
<1>3. task \in [Task -> Row] /\ question \in [Task -> Asks]
  BY <1>1, Types
<1>4. ASSUME NEW c \in Conversation, NEW source \in Conversation \union {None}, Start(c, source)
      PROVE  task'[t] = task[t] /\ question'[t] = question[t]
  <2>1. PICK u \in Task : /\ u = Cardinality(Admitted) + 1 /\ UNCHANGED question
                          /\ \A v \in Task : v # u => task'[v] = task[v]
    BY <1>3, <1>4 DEF Start, Admitted
  <2>2. task[u].status = "none"
    <3>1. \A v \in Task : Fresh(v)
      BY <1>1 DEF Each
    <3> QED
      BY <2>1, <3>1, NextTurn
  <2> QED
    BY <1>2, <2>1, <2>2
<1>5. ASSUME NEW T \in SUBSET Task, Crash(T)
      PROVE  task'[t] = task[t] /\ question'[t] = question[t]
  BY <1>5 DEF Crash, rows
<1>6. ASSUME NEW u \in Task, Threads(u) \/ EndTurn(u) \/ Fail(u) \/ Callbacks(u) \/ Others(u)
      PROVE  task'[t] = task[t] /\ question'[t] = question[t]
  <2> USE DEF rows, Busy, Early, Close, Pending
  <2>1. CASE Threads(u) \/ EndTurn(u) \/ Fail(u)
    BY <1>2, <1>3, <2>1 DEF Threads, Refuse, Launch, Spawn, Ready, Stop, Finish, Release, EndTurn, Fail
  <2>2. CASE Callbacks(u)
    BY <1>2, <1>3, <2>2
       DEF Callbacks, Poll, RequireSnapshot, AbandonCall, Ask, Report, Expired, Resumed, Running, ACTIVE,
           ClaimReview, OpenComparison
  <2>3. CASE Others(u)
    BY <1>2, <1>3, <2>3 DEF Others, Refresh, Cancel, Recover, StrayExits, EndReview, Reply, Resumed, ACTIVE
  <2> QED
    BY <1>6, <2>1, <2>2, <2>3
<1> QED
  BY <1>4, <1>5, <1>6 DEF Next

\* No step touches a question that was answered, but the poll of a turn that is
\* independent since.
Stands(t, q) ==
  /\ question'[t][q].answer = question[t][q].answer
  /\ \/ question'[t][q] = question[t][q]
     \/ /\ question'[t][q].state = "context_required"
        /\ asking[t] = q /\ t \in independent

LEMMA AnswerStands ==
  ASSUME Invariant, Next, NEW t \in Task, NEW q \in Question, question[t][q].answer # "none"
  PROVE  Stands(t, q)
<1>1. TypeOK /\ \A u \in Task : Each(u)
  BY DEF Invariant
<1>2. question \in [Task -> Asks] /\ question[t][q] \in AskRow
  BY <1>1, Types DEF Asks
<1>3. question[t][q].state \in {"answered", "decision_unresolved", "context_required"}
  BY <1>1, <1>2 DEF Each, Asked, Kept, AskRow, States, Unresolved
<1>4. ASSUME question'[t][q] = question[t][q]
      PROVE  Stands(t, q)
  BY <1>4 DEF Stands
<1>5. ASSUME NEW u \in Task, NEW state \in {"expired", "cancelled"}, question' = Close(u, state)
      PROVE  question'[t][q] = question[t][q]
  BY <1>2, <1>3, <1>5 DEF Close, Pending, Asks
<1>6. ASSUME NEW u \in Task, NEW r \in Question, NEW state \in States, <<u, r>> # <<t, q>>,
             question' = [question EXCEPT ![u][r].state = state]
      PROVE  question'[t][q] = question[t][q]
  BY <1>2, <1>6 DEF Asks
<1>7. ASSUME NEW u \in Task, Threads(u) \/ EndTurn(u) \/ Fail(u) \/ Callbacks(u) \/ Others(u)
      PROVE  Stands(t, q)
  <2>1. CASE Threads(u) \/ EndTurn(u) \/ Fail(u)
    BY <1>4, <1>5, <2>1
       DEF Threads, Refuse, Launch, Spawn, Ready, Stop, Finish, Release, EndTurn, Fail, rows
  <2>2. CASE Poll(u)
    <3>1. asking[u] \in Question /\ {"expired", "context_required"} \subseteq States
      BY <1>1, <2>2, Types DEF Poll, States, Unresolved
    <3>2. CASE UNCHANGED question
      BY <1>4, <3>2
    <3>3. CASE /\ question' = [question EXCEPT ![u][asking[u]].state = "context_required"]
               /\ question[u][asking[u]].state = "context_required" \/ u \in independent
      <4>1. CASE <<u, asking[u]>> = <<t, q>>
        <5>1. /\ question'[t][q].state = "context_required"
              /\ question'[t][q].answer = question[t][q].answer
              /\ question'[t][q] = [question[t][q] EXCEPT !.state = "context_required"]
          <6>1. u = t /\ asking[u] = q
            BY <4>1
          <6>2. Moves(t, q, "context_required")
            BY <3>3, <6>1 DEF Moves
          <6> QED
            BY <1>2, <3>1, <6>2, Moved
        <5>2. question[t][q].state = "context_required" => question'[t][q] = question[t][q]
          BY <1>2, <5>1 DEF AskRow
        <5> QED
          BY <3>3, <4>1, <5>1, <5>2 DEF Stands
      <4>2. CASE <<u, asking[u]>> # <<t, q>>
        BY <1>4, <1>6, <3>1, <3>3, <4>2
      <4> QED
        BY <4>1, <4>2
    <3>4. CASE /\ question' = [question EXCEPT ![u][asking[u]].state = "expired"]
               /\ question[u][asking[u]].state \in {"pending", "expired"}
      <4>1. <<u, asking[u]>> # <<t, q>>
        BY <1>3, <3>4
      <4> QED
        BY <1>4, <1>6, <3>1, <3>4, <4>1
    <3> QED
      BY <2>2, <3>2, <3>3, <3>4 DEF Poll, RequireSnapshot, Expired, rows
  <2>3. CASE \E r \in Question : Ask(u, r)
    <3>1. PICK r \in Question : Ask(u, r)
      BY <2>3
    <3>2. <<u, r>> # <<t, q>>
      BY <1>3, <3>1 DEF Ask
    <3>3. PICK state \in {"context_required", "pending"} : question' = [question EXCEPT ![u][r].state = state]
      BY <3>1 DEF Ask, RequireSnapshot
    <3> QED
      BY <1>4, <1>6, <3>2, <3>3 DEF States, Unresolved
  <2>4. CASE Refresh(u)
    BY <1>2, <1>3, <1>4, <2>4 DEF Refresh, Pending, Asks
  <2>5. CASE \E r \in Question : \E state \in {"answered", "decision_unresolved"} : Reply(u, r, state)
    <3>1. PICK r \in Question, state \in {"answered", "decision_unresolved"} : Reply(u, r, state)
      BY <2>5
    <3>2. <<u, r>> # <<t, q>>
      BY <1>3, <3>1 DEF Reply
    <3>3. question' = [question EXCEPT ![u][r] = [state |-> state, answer |-> state]]
      BY <3>1 DEF Reply
    <3>4. question'[t][q] = question[t][q]
      BY <1>2, <3>2, <3>3 DEF Asks
    <3> QED
      BY <1>4, <3>4
  <2> QED
    BY <1>4, <1>5, <1>7, <2>1, <2>2, <2>3, <2>4, <2>5
       DEF Callbacks, Others, Cancel, Recover, AbandonCall, Report, StrayExits, ClaimReview,
           OpenComparison, EndReview, rows
<1>8. ASSUME NEW c \in Conversation, NEW source \in Conversation \union {None}, Start(c, source)
      PROVE  UNCHANGED question
  BY <1>8 DEF Start
<1>9. ASSUME NEW T \in SUBSET Task, Crash(T)
      PROVE  UNCHANGED question
  BY <1>9 DEF Crash, rows
<1> QED
  BY <1>4, <1>7, <1>8, <1>9 DEF Next

\* What was told stands: no deadline, cancellation, recovery or late callback touches an
\* accepted answer, unless the turn became independent before its call read it, nor an
\* announced row; and a success has an answer to every question it waited for.
THEOREM ToldStanding == Spec => ToldStands
<1>1. Invariant => SuccessHasAnswers
  BY DEF Invariant, Each, Asked, Settled, SuccessHasAnswers
<1>2. Invariant /\ [Next]_vars =>
        [\A t \in Task, q \in Question : question[t][q].answer # "none" =>
           /\ question'[t][q].answer = question[t][q].answer
           /\ \/ question'[t][q] = question[t][q]
              \/ /\ question'[t][q].state = "context_required"
                 /\ asking[t] = q /\ t \in independent]_vars
  BY AnswerStands DEF Stands
<1>3. Invariant /\ [Next]_vars =>
        [\A t \in Task : task[t].status \in Terminal =>
           task'[t] = task[t] /\ question'[t] = question[t]]_vars
  BY TerminalStands
<1> QED
  BY <1>1, <1>2, <1>3, TasksAreInductive, PTL
     DEF Spec, ToldStands, AnswersStand, TerminalIsFinal
=============================================================================
