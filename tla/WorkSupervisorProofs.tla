------------------------ MODULE WorkSupervisorProofs ------------------------
(***************************************************************************)
(* Proofs about the controller of autonomous work, for any number of       *)
(* cards, attempts, controllers and commands: whatever crashes, one        *)
(* process at a time works on a card, a recorded stop is a fact, and work  *)
(* counts only when the controller saw its process end.                    *)
(*                                                                         *)
(* The operator's word is taken by the code as it is, so the theorems are  *)
(* about an operator who vouches only for stops that happened              *)
(* (HonestOperator); without that the recorded stop need not be a fact.    *)
(***************************************************************************)
EXTENDS WorkSupervisor, TLAPS

\* Before its process can have ended, and before it can have begun.
Executing == {"prepare", "launch", "spawn", "poll"}
Unborn == {"prepare", "launch", "spawn"}

\* What the store, the thread and the process of attempt a say of each other.
\* The process and the thread that may start one keep the attempt outstanding.
Told(a) ==
  /\ row[a].state = "none" => a \notin live /\ thread[a].pc = "none" /\ ~row[a].gone
  /\ thread[a].pc \in Executing => Outstanding(a) /\ ~row[a].gone
  /\ a \in live => Outstanding(a) /\ ~row[a].gone
  /\ thread[a].pc \in Unborn \union {"confirm", "finish"} => a \notin live
  /\ thread[a].pc \in {"settle", "release"} /\ thread[a].stopped => a \notin live
  /\ thread[a].pc = "finish" => row[a].attested = "supervisor"
  /\ row[a].state = "succeeded" => row[a].attested = "supervisor"

\* What the operator vouched for, or is about to.
Vouched ==
  cli.pc # "idle" =>
    /\ cli.attempt \in Attempts \ live /\ thread[cli.attempt].pc \notin Working
    /\ row[cli.attempt].state \notin {"none", "succeeded"}

\* A card has one attempt whose end is not settled.
Alone ==
  \A a, b \in Attempts :
    Outstanding(a) /\ Outstanding(b) /\ row[a].card = row[b].card => a = b

\* A card that is open has work left.
WorkLeft == \A c \in Card : Open(c) => card[c].left > 0

Sound == (\A a \in Attempts : Told(a)) /\ Vouched /\ Alone

-----------------------------------------------------------------------------
(* Rows that lose their authority.                                         *)

\* Fencing changes the state of active rows only.
LEMMA FencedRow ==
  ASSUME row \in [Attempts -> Row], NEW A
  PROVE  /\ Fenced(A) \in [Attempts -> Row]
         /\ \A a \in Attempts :
              /\ Fenced(A)[a].card = row[a].card /\ Fenced(A)[a].gone = row[a].gone
              /\ Fenced(A)[a].attested = row[a].attested
              /\ \/ Fenced(A)[a].state = row[a].state
                 \/ Active(a) /\ Fenced(A)[a].state = "recovery_required"
<1> SUFFICES ASSUME NEW a \in Attempts
             PROVE  /\ Fenced(A)[a] \in Row
                    /\ Fenced(A)[a].card = row[a].card /\ Fenced(A)[a].gone = row[a].gone
                    /\ Fenced(A)[a].attested = row[a].attested
                    /\ \/ Fenced(A)[a].state = row[a].state
                       \/ Active(a) /\ Fenced(A)[a].state = "recovery_required"
  BY DEF Fenced
<1>1. row[a] \in Row
  OBVIOUS
<1>2. Fenced(A)[a] = IF a \in A /\ Active(a)
                     THEN [row[a] EXCEPT !.state = "recovery_required"] ELSE row[a]
  BY DEF Fenced
<1> QED
  BY <1>1, <1>2 DEF Row, RowStates

\* Attempts that lose their authority lose nothing else.
LEMMA FencingSound ==
  ASSUME TypeOK, Sound, NEW A, row' = Fenced(A), UNCHANGED <<live, thread, cli>>
  PROVE  Sound'
<1>1. \A a \in Attempts :
        /\ row'[a].card = row[a].card /\ row'[a].gone = row[a].gone
        /\ row'[a].attested = row[a].attested
        /\ \/ row'[a].state = row[a].state
           \/ row[a].state \in ActiveStates /\ row'[a].state = "recovery_required"
  BY FencedRow DEF TypeOK, Active
<1>2. \A a \in Attempts : Told(a)'
  BY <1>1 DEF Sound, Told, Outstanding, Active, Uncertain, ActiveStates, Executing, Unborn
<1>3. Vouched'
  BY <1>1 DEF Sound, Vouched
<1>4. Alone'
  BY <1>1 DEF Sound, Alone, Outstanding, Active, Uncertain, ActiveStates
<1> QED
  BY <1>2, <1>3, <1>4 DEF Sound

\* Steps that touch neither rows, threads, processes nor the operator's command.
LEMMA SameSound ==
  ASSUME Sound, UNCHANGED <<row, live, thread, cli>>
  PROVE  Sound'
BY DEF Sound, Told, Vouched, Alone, Outstanding, Active, Uncertain

\* A step of the thread of attempt a alone: the other attempts are as they were.
LEMMA OwnSound ==
  ASSUME TypeOK, Sound, NEW a \in Attempts,
         \A b \in Attempts \ {a} : /\ row'[b] = row[b] /\ thread'[b] = thread[b]
                                   /\ b \in live' <=> b \in live,
         row'[a].card = row[a].card, Outstanding(a)' => Outstanding(a),
         Told(a)', cli' = cli,
         thread[a].pc \in Working
  PROVE  Sound'
<1>1. \A b \in Attempts : Told(b)'
  <2> SUFFICES ASSUME NEW b \in Attempts \ {a}
               PROVE  Told(b)'
    OBVIOUS
  <2>1. Told(b)
    BY DEF Sound
  <2> QED
    BY <2>1 DEF Told, Outstanding, Active, Uncertain
<1>2. Alone'
  <2>1. \A b \in Attempts : Outstanding(b)' => Outstanding(b) /\ row'[b].card = row[b].card
    BY DEF Outstanding, Active, Uncertain
  <2>2. \A b \in Attempts : row'[b].card = row[b].card
    OBVIOUS
  <2> QED
    BY <2>1, <2>2 DEF Sound, Alone
<1>3. Vouched'
  <2>1. cli.pc # "idle" => cli.attempt \in Attempts \ {a}
    BY DEF Sound, Vouched
  <2> QED
    BY <2>1 DEF Sound, Vouched
<1> QED
  BY <1>1, <1>2, <1>3 DEF Sound

-----------------------------------------------------------------------------
(* Types.                                                                  *)

\* The parts of the type.
LEMMA Typed ==
  ASSUME TypeOK
  PROVE  /\ \A c \in Card : card[c] \in CardRecord /\ seen[c] \in View
         /\ \A a \in Attempts : row[a] \in Row /\ thread[a] \in Thread /\ row[a].card \in Card
         /\ sup \in Controller /\ sup.owner \in 0..MaxOwners
BY DEF TypeOK, Row, Controller

\* A view that became old is a view.
LEMMA TouchedType ==
  ASSUME seen \in [Card -> View], NEW c \in Card, Touched(c)
  PROVE  seen' \in [Card -> View]
<1>1. [seen[c] EXCEPT !.fresh = FALSE] \in View
  BY DEF View
<1> QED
  BY <1>1 DEF Touched

\* What the supervisor reads of a card is a view.
LEMMA ViewType ==
  ASSUME TypeOK
  PROVE  Unseen \in [Card -> View] /\ \A c \in Card : ViewOf(c) \in View
<1>1. \A c \in Card : card[c].status \in {"active", "paused"} \union Terminal /\ Granted(c) \in BOOLEAN
  BY DEF TypeOK, CardRecord, Granted
<1> QED
  BY <1>1 DEF Unseen, ViewOf, View

\* The loop keeps the types.
LEMMA LoopTyped ==
  ASSUME TypeOK, Loop
  PROVE  TypeOK'
<1> USE ConstantsAssumption, Typed, ViewType DEF store, files
<1>1. /\ card \in [Card -> CardRecord] /\ row \in [Attempts -> Row]
      /\ live \subseteq Attempts /\ thread \in [Attempts -> Thread]
      /\ sup \in Controller /\ threads \subseteq Attempts
      /\ seen \in [Card -> View]
      /\ status \in [owner : 0..MaxOwners, active : SUBSET Attempts]
      /\ stopFile \in 0..MaxOwners
      /\ cli \in [pc : {"idle", "checked", "attested"}, attempt : Attempts \union {None}]
      /\ commands \in 0..MaxCommands
  BY DEF TypeOK
<1>2. ASSUME NEW pc \in Down \union {"recover", "check", "pausing", "reap", "launch",
                                     "publish", "decide", "closing"}
      PROVE  [sup EXCEPT !.pc = pc] \in Controller
  BY <1>1 DEF Controller
<1>3. Closing \in Controller
  BY <1>1 DEF Closing, Controller
<1>4. \A c : [sup EXCEPT !.cards = @ \ {c}] \in Controller
  BY <1>1 DEF Controller
<1>5. CASE Recover
  BY <1>1, <1>2, <1>5, FencedRow DEF Recover, Sup, TypeOK
<1>6. CASE CheckStop
  <2>1. [sup EXCEPT !.pc = "pausing", !.stop = TRUE, !.cards = Card] \in Controller
    BY <1>1 DEF Controller
  <2>2. [c \in Card |-> ViewOf(c)] \in [Card -> View]
    OBVIOUS
  <2>3. /\ seen' \in {seen, [c \in Card |-> ViewOf(c)]}
        /\ sup' \in {[sup EXCEPT !.pc = "reap"],
                     [sup EXCEPT !.pc = "pausing", !.stop = TRUE, !.cards = Card]}
    BY <1>6, Zenon DEF CheckStop, Sup
  <2>4. [sup EXCEPT !.pc = "reap"] \in Controller
    BY <1>2
  <2>5. seen' \in [Card -> View] /\ sup' \in Controller
    BY <1>1, <2>1, <2>2, <2>3, <2>4, Zenon
  <2> QED
    BY <1>1, <1>6, <2>5 DEF CheckStop, TypeOK
<1>7. CASE PausedOwned
  BY <1>1, <1>2, <1>7 DEF PausedOwned, Sup, TypeOK
<1>8. CASE Reap
  <2>1. \A S \in SUBSET Card : [sup EXCEPT !.pc = "launch", !.cards = S] \in Controller
    BY <1>1 DEF Controller
  <2> DEFINE S == {c \in Card : Reservable(c)}
  <2>2. S \in SUBSET Card
    OBVIOUS
  <2>3. sup' \in {[sup EXCEPT !.pc = "publish"], [sup EXCEPT !.pc = "launch", !.cards = S]}
    BY <1>8 DEF Reap
  <2> HIDE DEF S
  <2>4. sup' \in Controller /\ threads' \subseteq Attempts
    BY <1>1, <1>2, <1>8, <2>1, <2>2, <2>3 DEF Reap
  <2> QED
    BY <1>1, <1>8, <2>4 DEF Reap, TypeOK
<1>9. CASE Launched
  <2>1. [sup EXCEPT !.pc = "publish", !.cards = {}] \in Controller
    BY <1>1 DEF Controller
  <2> QED
    BY <1>1, <1>9, <2>1 DEF Launched, TypeOK
<1>10. CASE Publish
  BY <1>1, <1>2, <1>10 DEF Publish, Sup, TypeOK
<1>11. CASE Decide
  BY <1>1, <1>2, <1>3, <1>11 DEF Decide, TypeOK
<1>12. CASE Close
  BY <1>1, <1>2, <1>12 DEF Close, Sup, TypeOK, Down
<1>13. ASSUME NEW c \in Card, PauseOwned(c)
       PROVE  TypeOK'
  <2>1. [card[c] EXCEPT !.status = "paused"] \in CardRecord
    BY <1>1 DEF CardRecord
  <2>2. [card EXCEPT ![c].status = "paused"] \in [Card -> CardRecord]
    BY <1>1, <2>1
  <2>3. [seen EXCEPT ![c] = ViewOf(c)] \in [Card -> View]
    BY <1>1
  <2>4. /\ card' \in {card, [card EXCEPT ![c].status = "paused"]}
        /\ row' \in {row, Fenced(Of(c))}
        /\ sup' \in {sup, Closing, [sup EXCEPT !.cards = @ \ {c}]}
        /\ seen' \in {seen, Unseen, [seen EXCEPT ![c] = ViewOf(c)]}
    BY <1>13 DEF PauseOwned
  <2>5. /\ card' \in [Card -> CardRecord] /\ row' \in [Attempts -> Row]
        /\ sup' \in Controller /\ seen' \in [Card -> View]
    <3>1. row' \in [Attempts -> Row]
      BY <1>1, <2>4, FencedRow
    <3>2. [sup EXCEPT !.cards = @ \ {c}] \in Controller
      BY <1>4
    <3> QED
      BY <1>1, <1>3, <2>2, <2>3, <2>4, <3>1, <3>2, ViewType, Zenon
  <2> QED
    BY <1>1, <1>13, <2>5 DEF PauseOwned, TypeOK
<1>14. ASSUME NEW c \in Card, Launch(c)
       PROVE  TypeOK'
  <2>1. \A state \in RowStates, gone \in BOOLEAN : RowOf(c, state, gone) \in Row
    BY DEF RowOf, Row
  <2>2. \A a \in Attempts : [thread[a] EXCEPT !.pc = "prepare"] \in Thread
    BY <1>1 DEF Thread, Working
  <2>3. \A a \in Attempts :
          /\ [row EXCEPT ![a] = RowOf(c, "reserved", FALSE)] \in [Attempts -> Row]
          /\ [row EXCEPT ![a] = RowOf(c, "recovery_required", TRUE)] \in [Attempts -> Row]
          /\ [thread EXCEPT ![a].pc = "prepare"] \in [Attempts -> Thread]
    BY <1>1, <2>1, <2>2 DEF RowStates, ActiveStates
  <2>4. CASE UNCHANGED <<row, thread, threads>> /\ sup' = [sup EXCEPT !.cards = @ \ {c}]
    BY <1>1, <1>4, <1>14, <2>4 DEF Launch, TypeOK
  <2>5. ASSUME NEW a \in Attempts,
               row' = [row EXCEPT ![a] = RowOf(c, "reserved", FALSE)],
               thread' = [thread EXCEPT ![a].pc = "prepare"],
               threads' = threads \union {a}, sup' = [sup EXCEPT !.cards = @ \ {c}]
        PROVE  TypeOK'
    BY <1>1, <1>4, <1>14, <2>3, <2>5 DEF Launch, TypeOK
  <2>6. ASSUME NEW a \in Attempts,
               row' = [row EXCEPT ![a] = RowOf(c, "recovery_required", TRUE)],
               sup' = Closing, UNCHANGED <<thread, threads>>
        PROVE  TypeOK'
    BY <1>1, <1>3, <1>14, <2>3, <2>6 DEF Launch, TypeOK
  <2> QED
    BY <1>14, <2>4, <2>5, <2>6 DEF Launch
<1> QED
  BY <1>5, <1>6, <1>7, <1>8, <1>9, <1>10, <1>11, <1>12, <1>13, <1>14 DEF Loop

\* Finishing an attempt as uncertain keeps the types and the card's work.
LEMMA UncertainTyped ==
  ASSUME TypeOK, WorkLeft, NEW a \in Attempts, FinishUncertain(a), Open(row[a].card)
  PROVE  /\ card' \in [Card -> CardRecord] /\ row' \in [Attempts -> Row] /\ WorkLeft'
<1> USE Typed
<1> DEFINE c == row[a].card
           d == [card[c] EXCEPT !.status = "paused", !.grant = IF @ = "open" THEN "spent" ELSE @]
<1>1. c \in Card /\ card \in [Card -> CardRecord] /\ row \in [Attempts -> Row]
  BY DEF TypeOK
<1>2. row' = [row EXCEPT ![a] = [row[a] EXCEPT !.state = "recovery_required", !.metered = TRUE]]
  BY DEF FinishUncertain
<1>3. row' \in [Attempts -> Row]
  BY <1>1, <1>2 DEF Row, RowStates
<1>4. card' \in {card, [card EXCEPT ![c] = d]}
  BY <1>1 DEF FinishUncertain
<1>5. d \in CardRecord /\ d.left = card[c].left
  BY <1>1 DEF CardRecord
<1> HIDE DEF d, c
<1>6. card' \in [Card -> CardRecord]
  BY <1>1, <1>4, <1>5
<1>7. WorkLeft'
  BY <1>1, <1>4, <1>5 DEF WorkLeft, Open, c
<1> QED
  BY <1>3, <1>6, <1>7

\* The threads keep the types, and a card that stays open has work left.
LEMMA ExecutesTyped ==
  ASSUME TypeOK, WorkLeft, NEW a \in Attempts, Executes(a)
  PROVE  TypeOK' /\ WorkLeft'
<1> USE ConstantsAssumption, Typed
<1>1. /\ card \in [Card -> CardRecord] /\ row \in [Attempts -> Row]
      /\ live \subseteq Attempts /\ thread \in [Attempts -> Thread]
      /\ sup \in Controller /\ threads \subseteq Attempts
      /\ seen \in [Card -> View]
      /\ status \in [owner : 0..MaxOwners, active : SUBSET Attempts]
      /\ stopFile \in 0..MaxOwners
      /\ cli \in [pc : {"idle", "checked", "attested"}, attempt : Attempts \union {None}]
      /\ commands \in 0..MaxCommands
  BY DEF TypeOK
<1>2. \A pc \in Working : [thread EXCEPT ![a].pc = pc] \in [Attempts -> Thread]
  BY <1>1 DEF Thread
<1>3. [thread EXCEPT ![a] = Idle("done")] \in [Attempts -> Thread]
  BY <1>1 DEF Thread, Idle
<1>4. \A stopped \in BOOLEAN :
        [thread EXCEPT ![a].pc = "settle", ![a].stopped = stopped] \in [Attempts -> Thread]
  BY <1>1, ZenonT(60) DEF Thread, Working
<1>5. \A who \in {"supervisor", "operator"} :
        [row EXCEPT ![a].gone = TRUE, ![a].attested = who] \in [Attempts -> Row]
  BY <1>1, ZenonT(60) DEF Row
<1>6. \A c \in Card : Touched(c) => seen' \in [Card -> View]
  BY <1>1, TouchedType
<1>7. ASSUME card' = card
      PROVE  WorkLeft'
  BY <1>7 DEF WorkLeft, Open
<1>8. CASE Prepare(a)
  <2>1. [thread EXCEPT ![a].pc = "launch", ![a].launching = TRUE] \in [Attempts -> Thread]
    BY <1>1, ZenonT(60) DEF Thread, Working
  <2>2. thread' \in [Attempts -> Thread]
    BY <1>4, <1>8, <2>1 DEF Prepare, Raises
  <2> QED
    BY <1>1, <1>7, <1>8, <2>2 DEF Prepare, TypeOK, store, controller, files
<1>9. CASE Start(a)
  <2>1. [row EXCEPT ![a].state = "running"] \in [Attempts -> Row]
    BY <1>1 DEF Row, RowStates, ActiveStates
  <2>2. /\ thread' \in [Attempts -> Thread] /\ row' \in [Attempts -> Row]
        /\ seen' \in [Card -> View]
    BY <1>1, <1>2, <1>4, <1>6, <1>9, <2>1 DEF Start, Raises, Goes, Working
  <2> QED
    BY <1>1, <1>7, <1>9, <2>2 DEF Start, TypeOK, files
<1>10. CASE Spawn(a)
  <2>1. thread' \in [Attempts -> Thread] /\ live' \subseteq Attempts
    BY <1>1, <1>2, <1>4, <1>10 DEF Spawn, Raises, Goes, Working
  <2> QED
    BY <1>1, <1>7, <1>10, <2>1 DEF Spawn, TypeOK, store, controller, files
<1>11. CASE PollInvalid(a)
  <2>1. thread' \in [Attempts -> Thread] /\ live' \subseteq Attempts
    BY <1>1, <1>2, <1>4, <1>11 DEF PollInvalid, Raises, Goes, Working
  <2> QED
    BY <1>1, <1>7, <1>11, <2>1 DEF PollInvalid, TypeOK, store, controller, files
<1>12. CASE PollResult(a)
  <2>1. \A success \in BOOLEAN :
          [thread EXCEPT ![a].pc = "confirm", ![a].success = success] \in [Attempts -> Thread]
    BY <1>1, ZenonT(60) DEF Thread, Working
  <2>2. thread' \in [Attempts -> Thread]
    BY <1>4, <1>12, <2>1 DEF PollResult, Raises
  <2> QED
    BY <1>1, <1>7, <1>12, <2>2 DEF PollResult, TypeOK, store, controller, files
<1>13. CASE Confirm(a)
  <2>1. /\ thread' \in [Attempts -> Thread] /\ row' \in [Attempts -> Row]
        /\ seen' \in [Card -> View]
    BY <1>1, <1>2, <1>5, <1>6, <1>13 DEF Confirm, ConfirmStopped, Goes, Working
  <2> QED
    BY <1>1, <1>7, <1>13, <2>1 DEF Confirm, TypeOK, files
<1>14. CASE Finish(a)
  <2>1. /\ thread' \in [Attempts -> Thread] /\ seen' \in [Card -> View]
    BY <1>3, <1>6, <1>14 DEF Finish, Done
  <2>2. card' \in [Card -> CardRecord] /\ row' \in [Attempts -> Row] /\ WorkLeft'
    <3>1. CASE ~Admitted(a)
      BY <1>1, <1>7, <1>14, <3>1 DEF Finish, store
    <3>2. CASE Admitted(a) /\ FinishUncertain(a)
      BY <3>2, UncertainTyped DEF Admitted
    <3>3. CASE /\ Admitted(a)
               /\ row' = [row EXCEPT ![a].state = "succeeded", ![a].metered = TRUE]
               /\ card' = [card EXCEPT ![row[a].card] = Succeeded(row[a].card)]
      <4> DEFINE c == row[a].card
                 d == Succeeded(c)
      <4>1. c \in Card /\ card[c].left > 0 /\ card[c].left \in 0..Assignments
        BY <1>1, <3>3 DEF Admitted, WorkLeft, CardRecord
      <4>2. /\ d \in CardRecord /\ d.left = card[c].left - 1
            /\ card[c].left = 1 => d.status = "completed"
        <5>1. card[c] \in CardRecord /\ card[c].left - 1 \in 0..Assignments
          BY <1>1, <4>1
        <5>2. d = [card[c] EXCEPT !.left = card[c].left - 1,
                     !.status = IF card[c].left = 1 THEN "completed" ELSE card[c].status]
          BY DEF Succeeded
        <5> QED
          BY <5>1, <5>2 DEF CardRecord, Terminal
      <4>3. row' \in [Attempts -> Row]
        <5>1. row' = [row EXCEPT ![a] = [row[a] EXCEPT !.state = "succeeded", !.metered = TRUE]]
          BY <3>3
        <5>2. [row[a] EXCEPT !.state = "succeeded", !.metered = TRUE] \in Row
          BY <1>1, ZenonT(60) DEF Row, RowStates
        <5> QED
          BY <1>1, <5>1, <5>2
      <4>4. card' = [card EXCEPT ![c] = d]
        BY <3>3
      <4> HIDE DEF c, d
      <4>5. card' \in [Card -> CardRecord]
        BY <1>1, <4>2, <4>4
      <4>6. \A x \in Card : Open(x)' => card'[x].left > 0
        BY <1>1, <4>1, <4>2, <4>4 DEF WorkLeft, Open, Terminal
      <4> QED
        BY <4>3, <4>5, <4>6 DEF WorkLeft
    <3> QED
      BY <1>14, <3>1, <3>2, <3>3 DEF Finish
  <2> QED
    BY <1>1, <1>14, <2>1, <2>2 DEF Finish, TypeOK, files
<1>15. CASE Settle(a)
  <2>1. thread' \in [Attempts -> Thread] /\ seen' \in [Card -> View]
    BY <1>2, <1>3, <1>6, <1>15 DEF Settle, Done, Goes, Working
  <2>2. card' \in [Card -> CardRecord] /\ row' \in [Attempts -> Row] /\ WorkLeft'
    BY <1>1, <1>7, <1>15, UncertainTyped DEF Settle, Admitted, store
  <2> QED
    BY <1>1, <1>15, <2>1, <2>2 DEF Settle, TypeOK, files
<1>16. CASE Release(a)
  <2>1. /\ thread' \in [Attempts -> Thread] /\ row' \in [Attempts -> Row]
        /\ seen' \in [Card -> View]
    BY <1>1, <1>3, <1>5, <1>6, <1>16 DEF Release, ConfirmStopped, Done
  <2> QED
    BY <1>1, <1>7, <1>16, <2>1 DEF Release, TypeOK, files
<1> QED
  BY <1>8, <1>9, <1>10, <1>11, <1>12, <1>13, <1>14, <1>15, <1>16 DEF Executes

\* The environment and the operator's commands keep the types.
LEMMA OutsideTyped ==
  ASSUME TypeOK, WorkLeft, Vouched, Environment \/ Operator
  PROVE  TypeOK' /\ WorkLeft'
<1> USE ConstantsAssumption, Typed DEF store, controller, files
<1>1. /\ card \in [Card -> CardRecord] /\ row \in [Attempts -> Row]
      /\ live \subseteq Attempts /\ thread \in [Attempts -> Thread]
      /\ sup \in Controller /\ threads \subseteq Attempts
      /\ seen \in [Card -> View]
      /\ status \in [owner : 0..MaxOwners, active : SUBSET Attempts]
      /\ stopFile \in 0..MaxOwners
      /\ cli \in [pc : {"idle", "checked", "attested"}, attempt : Attempts \union {None}]
      /\ commands \in 0..MaxCommands
  BY DEF TypeOK
<1>2. ASSUME NEW c \in Card, NEW d \in CardRecord, d.left = card[c].left,
             d.status \notin Terminal => Open(c)
      PROVE  LET cards == [card EXCEPT ![c] = d] IN
             /\ cards \in [Card -> CardRecord]
             /\ \A x \in Card : cards[x].status \notin Terminal => cards[x].left > 0
  BY <1>1, <1>2 DEF WorkLeft, Open
<1>3. \A name : Command(name) => commands' \in 0..MaxCommands
  BY <1>1 DEF Command
<1>4. \A c \in Card : Touched(c) => seen' \in [Card -> View]
  BY <1>1, TouchedType
<1>5. ASSUME card' = card
      PROVE  WorkLeft'
  BY <1>5 DEF WorkLeft, Open
<1>6. ASSUME NEW c \in Card, NEW d \in CardRecord, card' = [card EXCEPT ![c] = d],
             d.left = card[c].left, d.status \notin Terminal => Open(c)
      PROVE  card' \in [Card -> CardRecord] /\ WorkLeft'
  BY <1>2, <1>6 DEF WorkLeft, Open
<1>7. CASE StartSupervisor
  <2>1. sup.owner + 1 \in 0..MaxOwners
    BY <1>1, <1>7 DEF StartSupervisor, Controller
  <2>2. sup' \in Controller
    BY <1>7, <2>1 DEF StartSupervisor, Controller
  <2> QED
    BY <1>1, <1>5, <1>7, <2>2 DEF StartSupervisor, TypeOK
<1>8. CASE Crash
  <2>1. sup' \in Controller
    BY <1>1, <1>8 DEF Crash, Controller, Down
  <2>2. Idle("lost") \in Thread
    BY DEF Idle, Thread
  <2>3. thread' \in [Attempts -> Thread]
    BY <1>1, <1>8, <2>2 DEF Crash
  <2>4. seen' \in [Card -> View]
    BY <1>8, ViewType DEF Crash
  <2> QED
    BY <1>1, <1>5, <1>8, <2>1, <2>3, <2>4 DEF Crash, TypeOK
<1>9. ASSUME NEW a \in Attempts, ProcessExits(a)
      PROVE  TypeOK' /\ WorkLeft'
  BY <1>1, <1>5, <1>9 DEF ProcessExits, TypeOK
<1>10. ASSUME NEW a \in Attempts, Expire(a)
       PROVE  TypeOK' /\ WorkLeft'
  BY <1>1, <1>4, <1>5, <1>10, FencedRow DEF Expire, TypeOK
<1>11. ASSUME NEW c \in Card, GrantSpent(c)
       PROVE  TypeOK' /\ WorkLeft'
  <2> DEFINE d == [card[c] EXCEPT !.grant = "spent"]
  <2>1. d \in CardRecord /\ d.left = card[c].left /\ d.status = card[c].status
    BY <1>1 DEF CardRecord
  <2>2. card' = [card EXCEPT ![c] = d]
    BY <1>11 DEF GrantSpent
  <2> HIDE DEF d
  <2>3. card' \in [Card -> CardRecord] /\ WorkLeft'
    BY <1>6, <2>1, <2>2 DEF Open
  <2> QED
    BY <1>1, <1>4, <1>11, <2>3 DEF GrantSpent, TypeOK
<1>12. ASSUME NEW c \in Card, Pause(c)
       PROVE  TypeOK' /\ WorkLeft'
  <2> DEFINE d == [card[c] EXCEPT !.status = "paused"]
  <2>1. d \in CardRecord /\ d.left = card[c].left /\ Open(c)
    BY <1>1, <1>12 DEF CardRecord, Pause
  <2>2. card' = [card EXCEPT ![c] = d]
    BY <1>12 DEF Pause
  <2> HIDE DEF d
  <2>3. card' \in [Card -> CardRecord] /\ WorkLeft'
    BY <1>6, <2>1, <2>2 DEF Open
  <2> QED
    BY <1>1, <1>3, <1>4, <1>12, <2>3, FencedRow DEF Pause, TypeOK
<1>13. ASSUME NEW c \in Card, Resume(c)
       PROVE  TypeOK' /\ WorkLeft'
  <2> DEFINE d == [card[c] EXCEPT !.status = "active"]
  <2>1. d \in CardRecord /\ d.left = card[c].left /\ Open(c)
    BY <1>1, <1>13 DEF CardRecord, Resume, Open, Terminal
  <2>2. card' = [card EXCEPT ![c] = d]
    BY <1>13 DEF Resume
  <2> HIDE DEF d
  <2>3. card' \in [Card -> CardRecord] /\ WorkLeft'
    BY <1>6, <2>1, <2>2 DEF Open
  <2> QED
    BY <1>1, <1>3, <1>4, <1>13, <2>3 DEF Resume, TypeOK
<1>14. ASSUME NEW c \in Card, Authorize(c)
       PROVE  TypeOK' /\ WorkLeft'
  <2> DEFINE d == [card[c] EXCEPT !.grant = "open"]
  <2>1. d \in CardRecord /\ d.left = card[c].left /\ d.status = card[c].status
    BY <1>1 DEF CardRecord
  <2>2. card' = [card EXCEPT ![c] = d]
    BY <1>14 DEF Authorize
  <2> HIDE DEF d
  <2>3. card' \in [Card -> CardRecord] /\ WorkLeft'
    BY <1>6, <2>1, <2>2 DEF Open
  <2> QED
    BY <1>1, <1>3, <1>4, <1>14, <2>3 DEF Authorize, TypeOK
<1>15. ASSUME NEW c \in Card, Revoke(c)
       PROVE  TypeOK' /\ WorkLeft'
  <2> DEFINE d == [card[c] EXCEPT !.grant = "revoked"]
  <2>1. d \in CardRecord /\ d.left = card[c].left /\ d.status = card[c].status
    BY <1>1 DEF CardRecord
  <2>2. card' = [card EXCEPT ![c] = d]
    BY <1>15 DEF Revoke
  <2> HIDE DEF d
  <2>3. card' \in [Card -> CardRecord] /\ WorkLeft'
    BY <1>6, <2>1, <2>2 DEF Open
  <2> QED
    BY <1>1, <1>3, <1>4, <1>15, <2>3, FencedRow DEF Revoke, TypeOK
<1>16. ASSUME NEW c \in Card, Cancel(c)
       PROVE  TypeOK' /\ WorkLeft'
  <2> DEFINE d == [card[c] EXCEPT !.status = "cancelled",
                                  !.grant = IF @ = "none" THEN @ ELSE "revoked"]
  <2>1. d \in CardRecord /\ d.left = card[c].left /\ d.status \in Terminal
    BY <1>1, ZenonT(60) DEF CardRecord, Terminal
  <2>2. card' = [card EXCEPT ![c] = d]
    BY <1>16 DEF Cancel
  <2> HIDE DEF d
  <2>3. card' \in [Card -> CardRecord] /\ WorkLeft'
    BY <1>6, <2>1, <2>2
  <2> QED
    BY <1>1, <1>3, <1>4, <1>16, <2>3 DEF Cancel, TypeOK
<1>17. CASE RequestStop
  BY <1>1, <1>3, <1>5, <1>17 DEF RequestStop, TypeOK
<1>18. CASE Signal
  <2>1. [sup EXCEPT !.stop = TRUE] \in Controller
    BY <1>1 DEF Controller
  <2> QED
    BY <1>1, <1>3, <1>5, <1>18, <2>1 DEF Signal, TypeOK
<1>19. ASSUME NEW a \in Attempts, ReconcileCheck(a)
       PROVE  TypeOK' /\ WorkLeft'
  BY <1>1, <1>3, <1>5, <1>19 DEF ReconcileCheck, TypeOK
<1>20. ASSUME ReconcileAttest, cli.attempt \in Attempts
       PROVE  TypeOK' /\ WorkLeft'
  <2> DEFINE a == cli.attempt
  <2>1. [row[a] EXCEPT !.gone = TRUE, !.attested = "operator"] \in Row
    <3>1. row[a] \in Row
      BY <1>20
    <3> QED
      BY <3>1 DEF Row
  <2>2. row' = [row EXCEPT ![a] = [row[a] EXCEPT !.gone = TRUE, !.attested = "operator"]]
    BY <1>20 DEF ReconcileAttest, ConfirmStopped
  <2>3. row' \in [Attempts -> Row]
    BY <1>1, <1>20, <2>1, <2>2
  <2>4. cli' \in [pc : {"idle", "checked", "attested"}, attempt : Attempts \union {None}]
    BY <1>1, <1>20 DEF ReconcileAttest
  <2>5. seen' \in [Card -> View]
    BY <1>4, <1>20 DEF ReconcileAttest
  <2> QED
    BY <1>1, <1>5, <1>20, <2>3, <2>4, <2>5 DEF ReconcileAttest, TypeOK
<1>21. ASSUME ReconcileDispose, cli.attempt \in Attempts
       PROVE  TypeOK' /\ WorkLeft'
  <2> DEFINE a == cli.attempt
             c == row[a].card
             d == [card[c] EXCEPT !.status = "paused", !.grant = IF @ = "open" THEN "spent" ELSE @]
  <2>1. [row[a] EXCEPT !.state = "reconciled"] \in Row
    BY <1>1, <1>21 DEF Row, RowStates
  <2>2. row' \in {row, [row EXCEPT ![a] = [row[a] EXCEPT !.state = "reconciled"]]}
    BY <1>21 DEF ReconcileDispose
  <2>3. row' \in [Attempts -> Row]
    BY <1>1, <1>21, <2>1, <2>2
  <2>4. cli' \in [pc : {"idle", "checked", "attested"}, attempt : Attempts \union {None}]
    BY <1>21 DEF ReconcileDispose
  <2>5. c \in Card /\ d \in CardRecord /\ d.left = card[c].left
    <3>1. c \in Card /\ card[c] \in CardRecord
      BY <1>21
    <3> QED
      BY <3>1 DEF CardRecord
  <2>6. seen' \in [Card -> View]
    BY <1>1, <1>4, <1>21, <2>5 DEF ReconcileDispose
  <2>7. card' = card \/ (Open(c) /\ card' = [card EXCEPT ![c] = d])
    BY <1>21 DEF ReconcileDispose
  <2> HIDE DEF c, d
  <2>8. card' \in [Card -> CardRecord] /\ WorkLeft'
    BY <1>1, <1>5, <1>6, <2>5, <2>7
  <2> QED
    BY <1>1, <1>21, <2>3, <2>4, <2>6, <2>8 DEF ReconcileDispose, TypeOK
<1>22. (ReconcileAttest \/ ReconcileDispose) /\ Vouched => cli.attempt \in Attempts
  BY DEF ReconcileAttest, ReconcileDispose, Vouched
<1> QED
  BY <1>7, <1>8, <1>9, <1>10, <1>11, <1>12, <1>13, <1>14, <1>15, <1>16, <1>17, <1>18, <1>19,
     <1>20, <1>21, <1>22 DEF Environment, Operator

-----------------------------------------------------------------------------
(* Every step keeps what the store, threads and processes say of each      *)
(* other.                                                                  *)

\* Every step of an attempt's executor thread and of its process.
LEMMA ExecutesSound ==
  ASSUME TypeOK, Sound, NEW a \in Attempts, Executes(a)
  PROVE  Sound'
<1> USE Typed DEF store, controller, files, Working
<1>1. /\ row \in [Attempts -> Row] /\ thread \in [Attempts -> Thread]
      /\ row[a] \in Row /\ thread[a] \in Thread /\ Told(a)
  BY DEF TypeOK, Sound
<1>2. \A b \in Attempts \ {a} : /\ row'[b] = row[b] /\ thread'[b] = thread[b]
                                /\ b \in live' <=> b \in live
  BY <1>1 DEF Executes, Prepare, Start, Spawn, PollInvalid, PollResult, Confirm, Finish, Settle,
         Release, FinishUncertain, ConfirmStopped, Goes, Done, Raises
<1>3. cli' = cli /\ thread[a].pc \in Working
  BY DEF Executes, Prepare, Start, Spawn, PollInvalid, PollResult, Confirm, Finish, Settle,
         Release
<1>4. ASSUME row'[a].card = row[a].card, Outstanding(a)' => Outstanding(a), Told(a)'
      PROVE  Sound'
  BY <1>2, <1>3, <1>4, OwnSound
<1> USE DEF Told, Outstanding, Active, Uncertain, ActiveStates, Executing, Unborn
<1>5. CASE Prepare(a)
  <2>1. /\ row' = row /\ live' = live
        /\ thread'[a].pc \in {"launch", "settle"} /\ thread[a].pc = "prepare"
    BY <1>1, <1>5 DEF Prepare, Raises, Thread
  <2> QED
    BY <1>1, <1>4, <2>1
<1>6. CASE Start(a)
  <2>1. /\ live' = live /\ thread[a].pc = "launch"
        /\ row'[a].card = row[a].card /\ row'[a].gone = row[a].gone
        /\ \/ /\ row'[a].state = "running" /\ thread'[a].pc = "spawn"
              /\ row[a].state \in ActiveStates
           \/ row'[a].state = row[a].state /\ thread'[a].pc = "settle"
    BY <1>1, <1>6 DEF Start, Authentic, Raises, Goes, Thread, Row
  <2> QED
    BY <1>1, <1>4, <2>1
<1>7. CASE Spawn(a)
  <2>1. /\ row' = row /\ thread[a].pc = "spawn"
        /\ \/ thread'[a].pc = "poll"
           \/ thread'[a].pc = "settle" /\ ~thread'[a].stopped
    BY <1>1, <1>7 DEF Spawn, Raises, Goes, Thread
  <2> QED
    BY <1>1, <1>4, <2>1
<1>8. CASE PollInvalid(a)
  <2>1. /\ row' = row /\ thread[a].pc = "poll"
        /\ \/ live' = live \ {a} /\ thread'[a].pc \in {"confirm", "settle"}
           \/ live' = live /\ thread'[a].pc = "settle" /\ ~thread'[a].stopped
    BY <1>1, <1>8 DEF PollInvalid, Raises, Goes, Thread
  <2> QED
    BY <1>1, <1>4, <2>1
<1>9. CASE PollResult(a)
  <2>1. /\ row' = row /\ live' = live /\ thread[a].pc = "poll" /\ a \notin live
        /\ thread'[a].pc \in {"confirm", "settle"}
    BY <1>1, <1>9 DEF PollResult, Raises, Thread
  <2> QED
    BY <1>1, <1>4, <2>1
<1>10. CASE Confirm(a)
  <2>1. /\ live' = live /\ thread[a].pc = "confirm" /\ thread'[a].pc = "finish"
        /\ row'[a].card = row[a].card /\ row'[a].state = row[a].state
        /\ row'[a].attested = "supervisor"
    BY <1>1, <1>10 DEF Confirm, ConfirmStopped, Goes, Thread, Row
  <2> QED
    BY <1>1, <1>4, <2>1
<1>11. CASE Finish(a)
  <2>1. /\ live' = live /\ thread[a].pc = "finish" /\ thread'[a].pc = "done"
        /\ row'[a].card = row[a].card /\ row'[a].attested = row[a].attested
        /\ row'[a].gone = row[a].gone
        /\ \/ row'[a].state = row[a].state
           \/ Outstanding(a) /\ row'[a].state \in {"succeeded", "recovery_required"}
    BY <1>1, <1>11 DEF Finish, FinishUncertain, Admitted, Done, Idle, Thread, Row
  <2> QED
    BY <1>1, <1>4, <2>1
<1>12. CASE Settle(a)
  <2>1. /\ live' = live /\ thread[a].pc = "settle" /\ thread'[a].pc \in {"release", "done"}
        /\ thread'[a].pc = "release" => thread'[a].stopped = thread[a].stopped
        /\ row'[a].card = row[a].card /\ row'[a].attested = row[a].attested
        /\ row'[a].gone = row[a].gone
        /\ \/ row'[a].state = row[a].state
           \/ Outstanding(a) /\ row'[a].state = "recovery_required"
    BY <1>1, <1>12 DEF Settle, FinishUncertain, Admitted, Goes, Done, Idle, Thread, Row
  <2> QED
    BY <1>1, <1>4, <2>1
<1>13. CASE Release(a)
  <2>1. /\ live' = live /\ thread[a].pc = "release" /\ thread'[a].pc = "done"
        /\ row'[a].card = row[a].card /\ row'[a].state = row[a].state
        /\ \/ row' = row
           \/ thread[a].stopped /\ row'[a].attested = "supervisor"
    BY <1>1, <1>13 DEF Release, ConfirmStopped, Done, Idle, Thread, Row
  <2> QED
    BY <1>1, <1>4, <2>1
<1> QED
  BY <1>5, <1>6, <1>7, <1>8, <1>9, <1>10, <1>11, <1>12, <1>13 DEF Executes

\* A launch needs that nothing of the card is outstanding.
LEMMA LaunchSound ==
  ASSUME TypeOK, Sound, NEW c \in Card, Launch(c)
  PROVE  Sound'
<1> USE Typed DEF files
<1>1. row \in [Attempts -> Row] /\ thread \in [Attempts -> Thread]
  BY DEF TypeOK
<1>2. CASE ~Reservable(c)
  BY <1>2, SameSound DEF Launch
<1>3. ASSUME NEW a \in Attempts, Reservable(c), IsNew(a),
             \/ /\ row' = [row EXCEPT ![a] = RowOf(c, "reserved", FALSE)]
                /\ thread' = [thread EXCEPT ![a].pc = "prepare"]
             \/ /\ row' = [row EXCEPT ![a] = RowOf(c, "recovery_required", TRUE)]
                /\ thread' = thread
      PROVE  Sound'
  <2>1. /\ live' = live /\ cli' = cli
    BY DEF Launch
  <2>2. /\ row[a].state = "none" /\ a \notin live /\ thread[a].pc = "none"
        /\ \A b \in Attempts : row[b].card = c => ~Outstanding(b)
    BY <1>3 DEF IsNew, Reservable, Of, Sound, Told, Outstanding, Active, Uncertain, ActiveStates
  <2>3. \A b \in Attempts \ {a} : row'[b] = row[b] /\ thread'[b] = thread[b]
    BY <1>1, <1>3
  <2>4. /\ row'[a].card = c
        /\ \/ row'[a].state = "reserved" /\ ~row'[a].gone /\ thread'[a].pc = "prepare"
           \/ row'[a].state = "recovery_required" /\ thread'[a].pc = "none"
    BY <1>1, <1>3, <2>2 DEF RowOf, Thread
  <2>5. \A b \in Attempts : Told(b)'
    BY <2>1, <2>2, <2>3, <2>4
       DEF Sound, Told, Outstanding, Active, Uncertain, ActiveStates, Executing, Unborn
  <2>6. Alone'
    <3>1. \A b \in Attempts \ {a} :
            Outstanding(b)' => Outstanding(b) /\ row'[b].card = row[b].card /\ row[b].card # c
      BY <2>2, <2>3 DEF Outstanding, Active, Uncertain
    <3> QED
      BY <2>4, <3>1 DEF Sound, Alone
  <2>7. Vouched'
    BY <2>1, <2>2, <2>3 DEF Sound, Vouched
  <2> QED
    BY <2>5, <2>6, <2>7 DEF Sound
<1> QED
  BY <1>2, <1>3 DEF Launch

\* Every step of the supervisor's loop.
LEMMA LoopSound ==
  ASSUME TypeOK, Sound, Loop
  PROVE  Sound'
<1> USE DEF store, files
<1>1. CASE Recover
  BY <1>1, FencingSound DEF Recover
<1>2. CASE CheckStop
  BY <1>2, SameSound DEF CheckStop
<1>3. CASE PausedOwned \/ Reap \/ Launched \/ Publish \/ Decide
  BY <1>3, SameSound DEF PausedOwned, Reap, Launched, Publish, Decide
<1>4. CASE Close
  <2>1. live' \subseteq live /\ UNCHANGED <<row, thread, cli>>
    BY <1>4 DEF Close
  <2> QED
    BY <2>1 DEF Sound, Told, Vouched, Alone, Outstanding, Active, Uncertain
<1>5. ASSUME NEW c \in Card, PauseOwned(c)
      PROVE  Sound'
  <2>1. UNCHANGED <<live, thread, cli>> /\ row' \in {row, Fenced(Of(c))}
    BY <1>5 DEF PauseOwned
  <2> QED
    BY <2>1, FencingSound, SameSound
<1> QED
  BY <1>1, <1>2, <1>3, <1>4, <1>5, LaunchSound DEF Loop

\* Starts and crashes of a supervisor, and what the operator and the cards do.
LEMMA EnvironmentSound ==
  ASSUME TypeOK, Sound, Environment
  PROVE  Sound'
<1> USE DEF store, controller, files
<1>1. CASE StartSupervisor
  BY <1>1, SameSound DEF StartSupervisor
<1>2. CASE Crash
  <2>1. UNCHANGED <<row, live, cli>> /\ thread \in [Attempts -> Thread]
    BY <1>2 DEF Crash, TypeOK
  <2>2. \A a \in Attempts : \/ thread'[a] = thread[a] /\ thread[a].pc \notin Working
                            \/ thread[a].pc \in Working /\ thread'[a].pc = "lost"
    BY <1>2 DEF Crash, Idle
  <2>3. \A a \in Attempts : Told(a)'
    BY <2>1, <2>2 DEF Sound, Told, Outstanding, Active, Uncertain, Executing, Unborn, Working
  <2>4. Vouched'
    BY <2>1, <2>2 DEF Sound, Vouched, Working
  <2>5. Alone'
    BY <2>1 DEF Sound, Alone, Outstanding, Active, Uncertain
  <2> QED
    BY <2>3, <2>4, <2>5 DEF Sound
<1>3. ASSUME NEW a \in Attempts, ProcessExits(a)
      PROVE  Sound'
  BY <1>3 DEF ProcessExits, Sound, Told, Vouched, Alone, Outstanding, Active, Uncertain
<1>4. ASSUME NEW a \in Attempts, Expire(a)
      PROVE  Sound'
  BY <1>4, FencingSound DEF Expire
<1>5. ASSUME NEW c \in Card, GrantSpent(c)
      PROVE  Sound'
  BY <1>5, SameSound DEF GrantSpent
<1> QED
  BY <1>1, <1>2, <1>3, <1>4, <1>5 DEF Environment

\* The operator vouches for what happened.
LEMMA OperatorSound ==
  ASSUME TypeOK, Sound, HonestOperator, Operator
  PROVE  Sound'
<1> USE Typed DEF store, controller, files
<1>1. ASSUME NEW c \in Card, Resume(c) \/ Authorize(c) \/ Cancel(c)
      PROVE  Sound'
  BY <1>1, SameSound DEF Resume, Authorize, Cancel
<1>2. ASSUME NEW c \in Card, Pause(c) \/ Revoke(c)
      PROVE  Sound'
  BY <1>2, FencingSound DEF Pause, Revoke
<1>3. CASE RequestStop \/ Signal
  BY <1>3, SameSound DEF RequestStop, Signal
<1>4. ASSUME NEW a \in Attempts, ReconcileCheck(a)
      PROVE  Sound'
  <2>1. /\ UNCHANGED <<row, live, thread>> /\ cli' = [pc |-> "checked", attempt |-> a]
        /\ a \notin live /\ thread[a].pc \notin Working
        /\ row[a].state \in ActiveStates \union {"recovery_required"}
    BY <1>4 DEF ReconcileCheck, Outstanding, Active, Uncertain
  <2> QED
    BY <2>1 DEF Sound, Told, Vouched, Alone, Outstanding, Active, Uncertain, ActiveStates
<1>5. CASE ReconcileAttest
  <2> DEFINE a == cli.attempt
  <2>1. /\ a \in Attempts /\ a \notin live /\ thread[a].pc \notin Working
        /\ row[a].state \notin {"none", "succeeded"}
    BY <1>5 DEF ReconcileAttest, Sound, Vouched
  <2>2. UNCHANGED <<live, thread>> /\ cli'.attempt = a
    BY <1>5 DEF ReconcileAttest, TypeOK
  <2>3. /\ \A b \in Attempts \ {a} : row'[b] = row[b]
        /\ row'[a].state = row[a].state /\ row'[a].card = row[a].card
    BY <1>5, <2>1 DEF ReconcileAttest, ConfirmStopped, TypeOK, Row
  <2> HIDE DEF a
  <2>4. \A b \in Attempts : Told(b)'
    BY <2>1, <2>2, <2>3
       DEF Sound, Told, Outstanding, Active, Uncertain, Executing, Unborn, Working
  <2>5. Alone'
    BY <2>1, <2>3 DEF Sound, Alone, Outstanding, Active, Uncertain
  <2>6. Vouched'
    BY <2>1, <2>2, <2>3 DEF Vouched
  <2> QED
    BY <2>4, <2>5, <2>6 DEF Sound
<1>6. CASE ReconcileDispose
  <2> DEFINE a == cli.attempt
  <2>1. /\ a \in Attempts /\ a \notin live /\ thread[a].pc \notin Working
    BY <1>6 DEF ReconcileDispose, Sound, Vouched
  <2>2. UNCHANGED <<live, thread>> /\ cli'.pc = "idle"
    BY <1>6 DEF ReconcileDispose
  <2>3. /\ \A b \in Attempts \ {a} : row'[b] = row[b]
        /\ row'[a].card = row[a].card /\ row'[a].gone = row[a].gone
        /\ row'[a].attested = row[a].attested
        /\ row'[a].state \in {row[a].state, "reconciled"}
    BY <1>6, <2>1 DEF ReconcileDispose, TypeOK, Row
  <2> HIDE DEF a
  <2>4. \A b \in Attempts : Told(b)'
    BY <2>1, <2>2, <2>3
       DEF Sound, Told, Outstanding, Active, Uncertain, Executing, Unborn, Working
  <2>5. Alone'
    BY <2>1, <2>3 DEF Sound, Alone, Outstanding, Active, Uncertain, ActiveStates
  <2>6. Vouched'
    BY <2>2 DEF Vouched
  <2> QED
    BY <2>4, <2>5, <2>6 DEF Sound
<1> QED
  BY <1>1, <1>2, <1>3, <1>4, <1>5, <1>6 DEF Operator

-----------------------------------------------------------------------------
(* The theorems.                                                           *)

\* The inductive invariant.
Invariant == TypeOK /\ WorkLeft /\ Sound

\* The invariant holds at first.
LEMMA InitInvariant == Init => Invariant
<1> SUFFICES ASSUME Init
             PROVE  Invariant
  OBVIOUS
<1> USE ConstantsAssumption
<1>1. (CHOOSE c \in Card : TRUE) \in Card
  BY Zenon
<1>2. PICK k \in Card : row = [a \in Attempts |-> [state |-> "none", card |-> k, owner |-> None,
                          gone |-> FALSE, attested |-> "none", metered |-> FALSE]]
  BY <1>1 DEF Init
<1>3. row \in [Attempts -> Row] /\ \A a \in Attempts : row[a].state = "none" /\ ~row[a].gone
  BY <1>2 DEF Row, RowStates, None
<1>4. thread \in [Attempts -> Thread] /\ \A a \in Attempts : thread[a].pc = "none"
  BY DEF Init, Idle, Thread
<1>5. card \in [Card -> CardRecord] /\ \A c \in Card : card[c].left > 0
  BY DEF Init, CardRecord
<1>6. TypeOK
  BY <1>3, <1>4, <1>5 DEF Init, TypeOK, Controller, Down, Unseen, View, None
<1>7. Sound
  BY <1>3, <1>4 DEF Init, Sound, Told, Vouched, Alone, Outstanding, Active, Uncertain,
                    ActiveStates, Executing, Unborn
<1> QED
  BY <1>5, <1>6, <1>7 DEF Invariant, WorkLeft

\* Every step keeps it, under an honest operator.
LEMMA NextInvariant == HonestOperator /\ Invariant /\ [Next]_vars => Invariant'
<1> SUFFICES ASSUME HonestOperator, Invariant, [Next]_vars
             PROVE  Invariant'
  OBVIOUS
<1>1. TypeOK /\ WorkLeft /\ Sound /\ Vouched
  BY DEF Invariant, Sound
<1>2. CASE Loop
  <2>1. WorkLeft'
    <3>1. \A c \in Card : card'[c].left = card[c].left /\ (Open(c)' => Open(c))
      <4>1. CASE \E c \in Card : PauseOwned(c)
        <5>1. PICK c \in Card : card' = card \/ (Open(c) /\ card' = [card EXCEPT ![c].status = "paused"])
          BY <4>1 DEF PauseOwned, store
        <5> QED
          BY <1>1, <5>1 DEF TypeOK, CardRecord, Open
      <4>2. CASE card' = card
        BY <4>2 DEF Open
      <4> QED
        BY <1>2, <4>1, <4>2 DEF Loop, Recover, CheckStop, PausedOwned, Reap, Launched, Publish,
                               Decide, Close, Launch, store
    <3> QED
      BY <1>1, <3>1 DEF WorkLeft
  <2> QED
    BY <1>1, <1>2, <2>1, LoopTyped, LoopSound DEF Invariant
<1>3. CASE \E a \in Attempts : Executes(a)
  BY <1>1, <1>3, ExecutesTyped, ExecutesSound DEF Invariant
<1>4. CASE Environment
  BY <1>1, <1>4, OutsideTyped, EnvironmentSound DEF Invariant
<1>5. CASE Operator
  BY <1>1, <1>5, OutsideTyped, OperatorSound DEF Invariant
<1>6. CASE UNCHANGED vars
  BY <1>1, <1>6, SameSound DEF vars, Invariant, TypeOK, WorkLeft, Open
<1> QED
  BY <1>2, <1>3, <1>4, <1>5, <1>6 DEF Next

\* Under an operator who vouches only for stops that happened, one process at a time
\* works on a card, whatever crashed before; a recorded stop is a fact; and what
\* counts as success was seen to end by the controller.
THEOREM ExecutionsSound == HonestOperator /\ Spec => []ExecutionsAreSound
<1>1. Invariant => ExecutionsAreSound
  <2> SUFFICES ASSUME Invariant
               PROVE  ExecutionsAreSound
    OBVIOUS
  <2>1. TypeOK /\ \A a \in Attempts : Told(a)
    BY DEF Invariant, Sound
  <2>2. OneExecutionPerCard
    BY <2>1 DEF Invariant, Sound, Alone, Told, TypeOK, OneExecutionPerCard
  <2>3. GoneIsDead
    BY <2>1 DEF GoneIsDead, Told, Executing
  <2>4. SuccessWasObserved
    BY <2>1 DEF SuccessWasObserved, Told, Outstanding, Active, Uncertain, ActiveStates
  <2> QED
    BY <2>1, <2>2, <2>3, <2>4 DEF ExecutionsAreSound
<1>2. CASE HonestOperator
  BY <1>1, <1>2, InitInvariant, NextInvariant, PTL DEF Spec
<1> QED
  BY <1>2
=============================================================================
