------------------------- MODULE WorkReceiptsProofs -------------------------
(***************************************************************************)
(* Proofs about WorkReceipts: a change is made at most once over all the   *)
(* identifiers and retries its caller takes, and the store implements the  *)
(* operation log; and about what surrounds the commands, which shares no   *)
(* state with them: WorkAccess, ClaimRecovery and WorkAdapters, each with  *)
(* an inductive invariant of its own.                                      *)
(*                                                                         *)
(* The argument for WorkReceipts.  A caller leaves an identifier behind    *)
(* only after a conflict.  The revision only grows and a caller names what *)
(* it read last, so when its newest call meets a conflict every call of it *)
(* that still lingers names an older revision too: nothing can take effect *)
(* under the identifier left behind (OldIdsAreDead), and only the current  *)
(* identifier can have a receipt (OnlyCurrentId).                          *)
(***************************************************************************)
EXTENDS WorkReceipts, WorkAccess, ClaimRecovery, WorkAdapters, TLAPS

CallSet == [caller : Caller, id : 1..MaxIds, base : Nat, number : Nat]
Pcs == {"read", "send", "wait", "applied", "misused", "refused", "stale"}

TypeCorrect ==
  /\ revision \in Nat \ {0}
  /\ receipts \in [Operation -> Nat]
  /\ gate \in {"open", "closed", "retired"}
  /\ calls \subseteq CallSet
  /\ answers \subseteq [call : CallSet, outcome : {"applied", "misused", "refused", "stale"}]
  /\ caller \in [Caller -> [pc : Pcs, id : 1..MaxIds, base : Nat, calls : Nat]]
  /\ changes \in Nat

\* Nobody names a revision that is not there yet.
BasesAreOld == \A c \in Caller : caller[c].base <= revision

\* A lingering call is not newer than what its caller knows.
CallsAreOld ==
  \A call \in calls :
    /\ call.base <= caller[call.caller].base
    /\ call.id <= caller[call.caller].id

AnswersAreOld ==
  \A answer \in answers : answer.call.number <= caller[answer.call.caller].calls

\* What lingers under an identifier its caller left behind cannot take effect.
OldIdsAreDead ==
  \A call \in calls : call.id < caller[call.caller].id => call.base < revision

OnlyCurrentId ==
  \A op \in Operation : receipts[op] # None => op[2] = caller[op[1]].id

\* A conflict that its caller is about to read still stands.
ConflictsStand ==
  \A answer \in answers :
    LET c == answer.call.caller IN
    answer.outcome = "stale" /\ caller[c].pc = "wait" /\ answer.call = Call(c) =>
      receipts[<<c, caller[c].id>>] = None /\ caller[c].base < revision

IInv ==
  /\ TypeCorrect /\ BasesAreOld /\ CallsAreOld /\ AnswersAreOld
  /\ OldIdsAreDead /\ OnlyCurrentId /\ ConflictsStand

USE DEF None

-----------------------------------------------------------------------------

\* The call of a caller is a call.
LEMMA CallIsCall ==
  ASSUME TypeCorrect, NEW c \in Caller
  PROVE  Call(c) \in CallSet
BY DEF TypeCorrect, CallSet, Call

\* A call is answered in one of four ways.
LEMMA OutcomeIsOutcome ==
  ASSUME NEW call, NEW receipt
  PROVE  Outcome(call, receipt) \in {"applied", "misused", "refused", "stale"}
BY DEF Outcome

\* An answer is added only for a call its caller waits for.
LEMMA AnsweredAdds ==
  ASSUME NEW call, NEW outcome, NEW answer \in Answered(call, outcome)
  PROVE  \/ answer \in answers
         \/ /\ answer = [call |-> call, outcome |-> outcome]
            /\ caller[call.caller].pc = "wait" /\ Call(call.caller) = call
BY DEF Answered

\* The invariant holds at first.
LEMMA InitIsSound == Init => IInv
BY BoundsAssumption
DEF Init, IInv, TypeCorrect, BasesAreOld, CallsAreOld, AnswersAreOld, OldIdsAreDead,
    OnlyCurrentId, ConflictsStand, Pcs, Operation

\* A caller that reads learns a revision that exists.
LEMMA ReadKeeps ==
  ASSUME IInv, NEW c \in Caller, Read(c)
  PROVE  IInv'
<1> USE DEF Read, IInv, store
<1>1. TypeCorrect'
  BY DEF TypeCorrect, Pcs
<1>2. BasesAreOld' /\ CallsAreOld' /\ AnswersAreOld' /\ OldIdsAreDead'
  BY DEF TypeCorrect, CallSet, BasesAreOld, CallsAreOld, AnswersAreOld, OldIdsAreDead
<1>3. OnlyCurrentId'
  BY DEF TypeCorrect, OnlyCurrentId, Operation
<1>4. ConflictsStand'
  BY DEF TypeCorrect, CallSet, ConflictsStand, Call
<1> QED BY <1>1, <1>2, <1>3, <1>4

\* A call that is sent carries what its caller read.
LEMMA SendKeeps ==
  ASSUME IInv, NEW c \in Caller, Send(c)
  PROVE  IInv'
<1> USE DEF Send, IInv, store
<1>1. TypeCorrect'
  BY DEF TypeCorrect, Pcs, Call, CallSet
<1>2. BasesAreOld' /\ CallsAreOld' /\ AnswersAreOld' /\ OldIdsAreDead'
  BY DEF TypeCorrect, CallSet, Call, BasesAreOld, CallsAreOld, AnswersAreOld, OldIdsAreDead
<1>3. OnlyCurrentId'
  BY DEF TypeCorrect, OnlyCurrentId, Operation
<1>4. ConflictsStand'
  BY DEF TypeCorrect, CallSet, AnswersAreOld, ConflictsStand, Call
<1> QED BY <1>1, <1>2, <1>3, <1>4

\* A caller that gives up waiting sends again or changes nothing.
LEMMA LosePatienceKeeps ==
  ASSUME IInv, NEW c \in Caller, LosePatience(c)
  PROVE  IInv'
<1> USE DEF LosePatience, IInv, store
<1>1. TypeCorrect'
  BY DEF TypeCorrect, Pcs
<1>2. BasesAreOld' /\ CallsAreOld' /\ AnswersAreOld' /\ OldIdsAreDead'
  BY DEF TypeCorrect, CallSet, BasesAreOld, CallsAreOld, AnswersAreOld, OldIdsAreDead
<1>3. OnlyCurrentId'
  BY DEF TypeCorrect, OnlyCurrentId, Operation
<1>4. ConflictsStand'
  BY DEF TypeCorrect, CallSet, ConflictsStand, Call
<1> QED BY <1>1, <1>2, <1>3, <1>4

\* A caller takes the answer to the call it waits for.
LEMMA ReadAnswerKeeps ==
  ASSUME IInv, NEW c \in Caller, ReadAnswer(c)
  PROVE  IInv'
<1> USE DEF ReadAnswer, IInv, store
<1> PICK answer \in answers :
      /\ answer.call = Call(c)
      /\ answers' = answers \ {answer}
      /\ IF answer.outcome = "stale" /\ caller[c].id < MaxIds
         THEN caller' = [caller EXCEPT ![c].pc = "read", ![c].id = @ + 1]
         ELSE caller' = [caller EXCEPT ![c].pc = answer.outcome]
  OBVIOUS
<1>1. TypeCorrect'
  BY BoundsAssumption DEF TypeCorrect, Pcs
<1>2. BasesAreOld' /\ AnswersAreOld'
  BY DEF TypeCorrect, CallSet, BasesAreOld, AnswersAreOld
<1>3. CASE answer.outcome = "stale" /\ caller[c].id < MaxIds
  <2>1. answer.call.caller = c
    BY DEF Call
  <2>2. receipts[<<c, caller[c].id>>] = None /\ caller[c].base < revision
    BY <1>3, <2>1 DEF ConflictsStand
  <2>3. CallsAreOld'
    BY <1>3 DEF TypeCorrect, CallSet, CallsAreOld
  <2>4. OldIdsAreDead'
    BY <1>3, <2>2 DEF TypeCorrect, CallSet, CallsAreOld, OldIdsAreDead
  <2>5. OnlyCurrentId'
    BY <1>3, <2>2 DEF TypeCorrect, OnlyCurrentId, Operation
  <2>6. ConflictsStand'
    BY <1>3 DEF TypeCorrect, CallSet, ConflictsStand, Call
  <2> QED BY <1>1, <1>2, <2>3, <2>4, <2>5, <2>6
<1>4. CASE ~(answer.outcome = "stale" /\ caller[c].id < MaxIds)
  <2>1. CallsAreOld' /\ OldIdsAreDead'
    BY <1>4 DEF TypeCorrect, CallSet, CallsAreOld, OldIdsAreDead
  <2>2. OnlyCurrentId'
    BY <1>4 DEF TypeCorrect, OnlyCurrentId, Operation
  <2>3. ConflictsStand'
    BY <1>4 DEF TypeCorrect, CallSet, ConflictsStand, Call
  <2> QED BY <1>1, <1>2, <2>1, <2>2, <2>3
<1> QED BY <1>3, <1>4

\* The store executes a call once: it applies it, recognizes it, or refuses it.
LEMMA ExecuteKeeps ==
  ASSUME IInv, NEW call \in calls, Execute(call)
  PROVE  IInv'
<1> DEFINE op == <<call.caller, call.id>>
           outcome == Outcome(call, receipts[op])
<1> USE DEF IInv
<1>1. /\ call \in CallSet /\ op \in Operation
      /\ call.base \in Nat /\ call.caller \in Caller /\ call.id \in 1..MaxIds
  BY DEF TypeCorrect, CallSet, Operation
<1>2. /\ calls' = calls \ {call} /\ answers' = Answered(call, outcome)
      /\ UNCHANGED <<gate, caller, changes>>
  BY DEF Execute
<1>3. outcome \in {"applied", "misused", "refused", "stale"}
  BY OutcomeIsOutcome
<1>4. outcome = "stale" => receipts[op] = None /\ call.base # revision
  BY DEF Outcome
<1>5. outcome = "applied" /\ receipts[op] = None => call.base = revision
  BY DEF Outcome
<1>6. IF outcome = "applied" /\ receipts[op] = None
      THEN revision' = revision + 1 /\ receipts' = [receipts EXCEPT ![op] = call.base]
      ELSE UNCHANGED <<revision, receipts>>
  BY DEF Execute
<1> HIDE DEF outcome
<1>7. ASSUME NEW answer \in answers'
      PROVE  \/ answer \in answers
             \/ /\ answer = [call |-> call, outcome |-> outcome]
                /\ caller[call.caller].pc = "wait" /\ Call(call.caller) = call
  BY <1>2, AnsweredAdds
<1>8. answers' \subseteq [call : CallSet, outcome : {"applied", "misused", "refused", "stale"}]
  BY <1>1, <1>3, <1>7 DEF TypeCorrect
<1>9. AnswersAreOld'
  <2> SUFFICES ASSUME NEW answer \in answers'
               PROVE  answer.call.number <= caller[answer.call.caller].calls
    BY <1>2 DEF AnswersAreOld
  <2>1. CASE answer \in answers
    BY <2>1 DEF AnswersAreOld
  <2>2. CASE answer = [call |-> call, outcome |-> outcome] /\ Call(call.caller) = call
    BY <1>1, <2>2 DEF Call, TypeCorrect
  <2> QED BY <1>7, <2>1, <2>2
<1>10. CASE outcome = "applied" /\ receipts[op] = None
  <2>1. revision' = revision + 1 /\ receipts' = [receipts EXCEPT ![op] = call.base]
    BY <1>6, <1>10
  <2>2. call.base = revision /\ call.base <= caller[call.caller].base
    BY <1>5, <1>10 DEF CallsAreOld
  <2>3. call.id = caller[call.caller].id
    BY <1>1, <2>2 DEF TypeCorrect, CallSet, CallsAreOld, OldIdsAreDead
  <2>4. TypeCorrect'
    BY <1>1, <1>2, <1>8, <2>1 DEF TypeCorrect
  <2>5. BasesAreOld' /\ CallsAreOld' /\ OldIdsAreDead'
    BY <1>2, <2>1 DEF TypeCorrect, CallSet, BasesAreOld, CallsAreOld, OldIdsAreDead
  <2>6. OnlyCurrentId'
    BY <1>1, <1>2, <2>1, <2>3 DEF TypeCorrect, OnlyCurrentId
  <2>7. ConflictsStand'
    <3> SUFFICES ASSUME NEW answer \in answers', NEW c, c = answer.call.caller,
                        answer.outcome = "stale", caller[c].pc = "wait",
                        answer.call = Call(c)
                 PROVE  receipts'[<<c, caller[c].id>>] = None /\ caller[c].base < revision'
      BY <1>2 DEF ConflictsStand, Call
    <3>1. answer \in answers
      BY <1>7, <1>10
    <3>2. c \in Caller
      BY <1>8 DEF CallSet
    <3>3. receipts[<<c, caller[c].id>>] = None /\ caller[c].base < revision
      BY <3>1 DEF ConflictsStand
    <3>4. <<c, caller[c].id>> # op
      BY <1>1, <2>2, <3>3, <3>2 DEF TypeCorrect
    <3>5. <<c, caller[c].id>> \in Operation
      BY <3>2 DEF TypeCorrect, Operation
    <3> QED BY <2>1, <3>2, <3>3, <3>4, <3>5 DEF TypeCorrect
  <2> QED BY <1>9, <2>4, <2>5, <2>6, <2>7
<1>11. CASE ~(outcome = "applied" /\ receipts[op] = None)
  <2>1. UNCHANGED <<revision, receipts>>
    BY <1>6, <1>11
  <2>2. TypeCorrect'
    BY <1>2, <1>8, <2>1 DEF TypeCorrect
  <2>3. BasesAreOld' /\ CallsAreOld' /\ OldIdsAreDead' /\ OnlyCurrentId'
    BY <1>2, <2>1 DEF BasesAreOld, CallsAreOld, OldIdsAreDead, OnlyCurrentId
  <2>4. ConflictsStand'
    <3> SUFFICES ASSUME NEW answer \in answers', NEW c, c = answer.call.caller,
                        answer.outcome = "stale", caller[c].pc = "wait",
                        answer.call = Call(c)
                 PROVE  receipts[<<c, caller[c].id>>] = None /\ caller[c].base < revision
      BY <1>2, <2>1 DEF ConflictsStand, Call
    <3>1. CASE answer \in answers
      BY <3>1 DEF ConflictsStand
    <3>2. CASE answer = [call |-> call, outcome |-> outcome]
      <4>1. call = Call(c) /\ c = call.caller /\ outcome = "stale"
        BY <3>2
      <4>2. call.base = caller[c].base /\ call.id = caller[c].id
        BY <4>1 DEF Call
      <4>3. receipts[<<c, caller[c].id>>] = None /\ call.base # revision
        BY <1>4, <4>1, <4>2
      <4>4. c \in Caller  BY <1>1, <4>1
      <4>5. caller[c].base \in Nat /\ revision \in Nat  BY <4>4 DEF TypeCorrect
      <4>6. caller[c].base <= revision  BY <4>4 DEF BasesAreOld
      <4>7. caller[c].base # revision  BY <4>2, <4>3
      <4>8. caller[c].base < revision  BY <4>5, <4>6, <4>7
      <4> QED BY <4>3, <4>8
    <3> QED BY <1>7, <3>1, <3>2
  <2> QED BY <1>9, <2>2, <2>3, <2>4
<1> QED BY <1>10, <1>11

\* A crash loses calls and answers, never a receipt.
LEMMA CrashKeeps == ASSUME IInv, Crash PROVE IInv'
BY DEF Crash, store, IInv, TypeCorrect, BasesAreOld, CallsAreOld, AnswersAreOld,
       OldIdsAreDead, OnlyCurrentId, ConflictsStand

\* A change by somebody else moves the revision.
LEMMA ChangeKeeps == ASSUME IInv, Change PROVE IInv'
<1> USE DEF Change, IInv
<1>1. TypeCorrect'
  BY DEF TypeCorrect
<1>2. BasesAreOld' /\ CallsAreOld' /\ AnswersAreOld' /\ OldIdsAreDead' /\ OnlyCurrentId'
  BY DEF TypeCorrect, CallSet, BasesAreOld, CallsAreOld, AnswersAreOld, OldIdsAreDead,
         OnlyCurrentId
<1>3. ConflictsStand'
  BY DEF TypeCorrect, CallSet, ConflictsStand, Call
<1> QED BY <1>1, <1>2, <1>3

\* Nothing happens.
LEMMA StutteringKeeps == ASSUME IInv, UNCHANGED vars PROVE IInv'
BY DEF vars, IInv, TypeCorrect, BasesAreOld, CallsAreOld, AnswersAreOld,
       OldIdsAreDead, OnlyCurrentId, ConflictsStand, Call

\* The inductive invariant: work_operations never holds a receipt for anything
\* but the identifier its caller uses now, whatever lingers.
THEOREM ReceiptsAreSound == Spec => []IInv
<1>1. ASSUME IInv, [Next]_vars PROVE IInv'
  BY <1>1, ReadKeeps, SendKeeps, LosePatienceKeeps, ReadAnswerKeeps, ExecuteKeeps,
     CrashKeeps, ChangeKeeps, StutteringKeeps DEF Next
<1> QED BY InitIsSound, <1>1, PTL DEF Spec

-----------------------------------------------------------------------------

\* A change is made at most once over all the identifiers and retries its
\* caller took (the receipt lookup and the CAS of _perform_command).
THEOREM MadeOnce == Spec => []ChangeMadeOnce
<1>1. IInv => ChangeMadeOnce
  BY DEF IInv, OnlyCurrentId, ChangeMadeOnce, Operation
<1> QED BY ReceiptsAreSound, <1>1, PTL

\* The store, with its calls, retries and crashes, implements the log of
\* operations that take effect at most once, on the revision they name.
THEOREM ImplementsLog == Spec => AtMostOnce
<1>1. Init => Log!Init
  BY DEF Init, Log!Init
<1>2. ASSUME IInv, [Next]_vars PROVE [Log!Next]_<<revision, receipts>>
  <2>1. ASSUME NEW call \in calls, Execute(call)
        PROVE  [Log!Next]_<<revision, receipts>>
    <3>1. <<call.caller, call.id>> \in Operation
      BY <1>2 DEF IInv, TypeCorrect, CallSet, Operation
    <3>2. CASE Outcome(call, receipts[<<call.caller, call.id>>]) = "applied"
               /\ receipts[<<call.caller, call.id>>] = None
      <4>1. call.base = revision
        BY <3>2 DEF Outcome
      <4>2. Log!Apply(<<call.caller, call.id>>)
        BY <2>1, <3>2, <4>1 DEF Execute, Log!Apply
      <4> QED BY <3>1, <4>2 DEF Log!Next
    <3>3. CASE ~(Outcome(call, receipts[<<call.caller, call.id>>]) = "applied"
                 /\ receipts[<<call.caller, call.id>>] = None)
      BY <2>1, <3>3 DEF Execute
    <3> QED BY <3>2, <3>3
  <2>2. CASE Change
    BY <2>2 DEF Change, Log!Next, Log!Change
  <2>3. CASE Crash \/ UNCHANGED vars \/ \E c \in Caller : Read(c) \/ Send(c) \/ LosePatience(c) \/ ReadAnswer(c)
    BY <2>3 DEF Crash, vars, store, Read, Send, LosePatience, ReadAnswer
  <2> QED BY <1>2, <2>1, <2>2, <2>3 DEF Next
<1> QED BY ReceiptsAreSound, <1>1, <1>2, PTL DEF Spec, AtMostOnce, Log!Spec

-----------------------------------------------------------------------------
(* What a caller knows of its change is settled.  On top of IInv: a caller  *)
(* that was told, or is about to be told, that its change took effect has a *)
(* receipt; after a refusal the card is closed to it; after a conflict what *)
(* lingers is too old.                                                      *)

Settled(c, outcome) ==
  /\ outcome \in {"applied", "misused"} => receipts[<<c, caller[c].id>>] # None
  /\ outcome = "refused" => gate # "open"
  /\ outcome = "stale" => caller[c].base < revision

FatesOfAnswers ==
  \A answer \in answers :
    LET c == answer.call.caller IN
    caller[c].pc = "wait" /\ answer.call = Call(c) => Settled(c, answer.outcome)

Final == {"applied", "misused", "refused", "stale"}

FatesOfCallers == \A c \in Caller : caller[c].pc \in Final => Settled(c, caller[c].pc)

Fates == FatesOfAnswers /\ FatesOfCallers

\* No step of a caller unsettles the fate of a call.
LEMMA CallersKeepFates ==
  ASSUME IInv, Fates, NEW c \in Caller,
         Read(c) \/ Send(c) \/ LosePatience(c) \/ ReadAnswer(c)
  PROVE  Fates'
<1> USE DEF Fates, IInv, store
<1>1. CASE Read(c)
  BY <1>1 DEF Read, TypeCorrect, CallSet, FatesOfAnswers, FatesOfCallers, Settled, Call, Final
<1>2. CASE Send(c)
  BY <1>2 DEF Send, TypeCorrect, CallSet, AnswersAreOld, FatesOfAnswers, FatesOfCallers,
              Settled, Call, Final
<1>3. CASE LosePatience(c)
  BY <1>3 DEF LosePatience, TypeCorrect, CallSet, FatesOfAnswers, FatesOfCallers, Settled, Call, Final
<1>4. CASE ReadAnswer(c)
  <2> PICK answer \in answers :
        /\ answer.call = Call(c)
        /\ answers' = answers \ {answer}
        /\ IF answer.outcome = "stale" /\ caller[c].id < MaxIds
           THEN caller' = [caller EXCEPT ![c].pc = "read", ![c].id = @ + 1]
           ELSE caller' = [caller EXCEPT ![c].pc = answer.outcome]
    BY <1>4 DEF ReadAnswer
  <2>1. caller[c].pc = "wait" /\ answer.call.caller = c
    BY <1>4 DEF ReadAnswer, Call
  <2>2. Settled(c, answer.outcome)
    BY <2>1 DEF FatesOfAnswers
  <2>3. UNCHANGED <<revision, receipts, gate>>
    BY <1>4 DEF ReadAnswer
  <2>4. CASE answer.outcome = "stale" /\ caller[c].id < MaxIds
    BY <2>3, <2>4 DEF TypeCorrect, CallSet, FatesOfAnswers, FatesOfCallers, Settled, Call, Final
  <2>5. CASE ~(answer.outcome = "stale" /\ caller[c].id < MaxIds)
    <3>1. caller' = [caller EXCEPT ![c].pc = answer.outcome]  BY <2>5
    <3>2. caller \in [Caller -> [pc : Pcs, id : 1..MaxIds, base : Nat, calls : Nat]]
      BY DEF TypeCorrect
    <3>3. ASSUME NEW d \in Caller
          PROVE  /\ caller'[d].id = caller[d].id /\ caller'[d].base = caller[d].base
                 /\ caller'[d].calls = caller[d].calls
                 /\ d # c => caller'[d].pc = caller[d].pc
                 /\ d = c => caller'[d].pc = answer.outcome
      BY <3>1, <3>2
    <3>4. \A d \in Caller : \A o : Settled(d, o) => Settled(d, o)'
      BY <2>3, <3>3 DEF Settled
    <3>5. FatesOfCallers'  BY <2>2, <3>3, <3>4 DEF FatesOfCallers
    <3>6. answers \subseteq [call : CallSet, outcome : {"applied", "misused", "refused", "stale"}]
      BY DEF TypeCorrect
    <3>7. \A a \in answers : a.call.caller \in Caller  BY <3>6 DEF CallSet
    <3>8. FatesOfAnswers'  BY <2>1, <3>3, <3>4, <3>7 DEF FatesOfAnswers, Call
    <3> QED BY <3>5, <3>8
  <2> QED BY <2>4, <2>5
<1> QED BY <1>1, <1>2, <1>3, <1>4

\* Nothing can take effect for a caller whose fate is settled.
LEMMA SettledIsQuiet ==
  ASSUME IInv, NEW call \in calls, NEW outcome \in Final, Settled(call.caller, outcome),
         Outcome(call, receipts[<<call.caller, call.id>>]) = "applied",
         receipts[<<call.caller, call.id>>] = None
  PROVE  FALSE
<1>1. call.base = revision /\ gate = "open"
  BY DEF Outcome, IInv, TypeCorrect
<1>2. call \in CallSet /\ call.caller \in Caller
  BY DEF IInv, TypeCorrect, CallSet
<1>3. call.base <= caller[call.caller].base /\ call.id = caller[call.caller].id
  BY <1>1, <1>2 DEF IInv, TypeCorrect, CallSet, CallsAreOld, OldIdsAreDead
<1> QED BY <1>1, <1>2, <1>3 DEF Settled, Final, IInv, TypeCorrect

\* Executing one call unsettles no answer given before.
LEMMA ExecuteKeepsFates ==
  ASSUME IInv, Fates, NEW call \in calls, Execute(call)
  PROVE  Fates'
<1> DEFINE op == <<call.caller, call.id>>
           outcome == Outcome(call, receipts[op])
<1>1. /\ op \in Operation /\ call \in CallSet
      /\ call.base \in Nat /\ call.caller \in Caller /\ call.id \in 1..MaxIds
  BY DEF IInv, TypeCorrect, CallSet, Operation
<1>2. answers' = Answered(call, outcome) /\ UNCHANGED <<gate, caller>>
  BY DEF Execute
<1>3. /\ outcome = "stale" => call.base # revision
      /\ outcome = "refused" => gate # "open"
      /\ outcome = "misused" => receipts[op] # None
      /\ outcome = "applied" /\ receipts[op] = None => call.base = revision
  BY DEF Outcome
<1>4. IF outcome = "applied" /\ receipts[op] = None
      THEN revision' = revision + 1 /\ receipts' = [receipts EXCEPT ![op] = call.base]
      ELSE UNCHANGED <<revision, receipts>>
  BY DEF Execute
<1> HIDE DEF outcome
<1>5. ASSUME NEW answer \in answers'
      PROVE  \/ answer \in answers
             \/ /\ answer = [call |-> call, outcome |-> outcome]
                /\ caller[call.caller].pc = "wait" /\ Call(call.caller) = call
  BY <1>2, AnsweredAdds
<1>6. /\ revision <= revision'
      /\ \A o \in Operation : receipts[o] # None => receipts'[o] # None
      /\ outcome = "applied" => receipts'[op] # None
  <2>1. CASE outcome = "applied" /\ receipts[op] = None
    BY <1>1, <1>3, <1>4, <2>1 DEF IInv, TypeCorrect
  <2>2. CASE ~(outcome = "applied" /\ receipts[op] = None)
    BY <1>4, <2>2 DEF IInv, TypeCorrect
  <2> QED BY <2>1, <2>2
<1>7. ASSUME NEW c \in Caller, NEW o, Settled(c, o)
      PROVE  Settled(c, o)'
  <2>1. <<c, caller[c].id>> \in Operation /\ caller[c].base \in Nat
    BY DEF IInv, TypeCorrect, Operation
  <2>2. revision \in Nat /\ revision' \in Nat
    BY <1>4 DEF IInv, TypeCorrect
  <2> QED BY <1>2, <1>6, <1>7, <2>1, <2>2 DEF Settled
<1>8. FatesOfCallers'
  BY <1>2, <1>7 DEF FatesOfCallers, Fates
<1>9. FatesOfAnswers'
  <2> SUFFICES ASSUME NEW answer \in answers', NEW c, c = answer.call.caller,
                      caller[c].pc = "wait", answer.call = Call(c)
               PROVE  Settled(c, answer.outcome)'
    BY <1>2 DEF FatesOfAnswers, Call
  <2>1. CASE answer \in answers
    <3>1. c \in Caller
      BY <2>1 DEF IInv, TypeCorrect, CallSet
    <3>2. Settled(c, answer.outcome)
      BY <2>1 DEF Fates, FatesOfAnswers
    <3> QED BY <1>7, <3>1, <3>2
  <2>2. CASE answer = [call |-> call, outcome |-> outcome]
    <3>1. call = Call(c) /\ c = call.caller /\ answer.outcome = outcome
      BY <2>2
    <3>2. call.base = caller[c].base /\ op = <<c, caller[c].id>>
      BY <3>1 DEF Call
    <3>3. outcome = "stale" => caller[c].base < revision
      BY <1>1, <1>3, <3>1, <3>2 DEF IInv, TypeCorrect, BasesAreOld
    <3>4. outcome \in {"applied", "misused"} => receipts'[op] # None
      BY <1>1, <1>3, <1>6
    <3>5. revision \in Nat /\ revision' \in Nat /\ caller[c].base \in Nat
      BY <1>1, <1>4, <3>1 DEF IInv, TypeCorrect
    <3>6. answer.outcome \in {"applied", "misused"} => receipts'[<<c, caller'[c].id>>] # None
      BY <1>2, <3>1, <3>2, <3>4
    <3>7. answer.outcome = "refused" => gate' # "open"  BY <1>2, <1>3, <3>1
    <3>8. answer.outcome = "stale" => caller'[c].base < revision'
      BY <1>2, <1>6, <3>1, <3>3, <3>5
    <3> QED BY <3>6, <3>7, <3>8 DEF Settled
  <2> QED BY <1>5, <2>1, <2>2
<1> QED BY <1>8, <1>9 DEF Fates

\* Neither does a crash or somebody else's change.
LEMMA OthersKeepFates ==
  ASSUME IInv, Fates, Crash \/ Change \/ UNCHANGED vars
  PROVE  Fates'
<1> USE DEF Fates, IInv, store
<1>1. CASE Crash
  BY <1>1 DEF Crash, FatesOfAnswers, FatesOfCallers, Settled
<1>2. CASE Change
  BY <1>2 DEF Change, TypeCorrect, CallSet, FatesOfAnswers, FatesOfCallers, Settled, Call
<1>3. CASE UNCHANGED vars
  BY <1>3 DEF vars, FatesOfAnswers, FatesOfCallers, Settled, Call
<1> QED BY <1>1, <1>2, <1>3

\* What a caller was told of its change stays true: after the answer, no call
\* of it that still lingers changes its receipts.
THEOREM FatesAreSettled == Spec => FateIsSettled
<1>1. ASSUME Init PROVE Fates
  BY <1>1 DEF Init, Fates, FatesOfAnswers, FatesOfCallers, Final
<1>2. ASSUME IInv, Fates, [Next]_vars PROVE Fates'
  BY <1>2, CallersKeepFates, ExecuteKeepsFates, OthersKeepFates DEF Next
<1>3. ASSUME IInv, Fates, [Next]_vars
      PROVE  [\A c \in Caller : caller[c].pc \in {"applied", "refused", "misused", "stale"} =>
                \A i \in 1..MaxIds : receipts'[<<c, i>>] = receipts[<<c, i>>]]_vars
  <2> SUFFICES ASSUME NEW c \in Caller, caller[c].pc \in Final, NEW i \in 1..MaxIds
               PROVE  receipts'[<<c, i>>] = receipts[<<c, i>>]
    BY DEF Final
  <2>1. ASSUME NEW call \in calls, Execute(call)
        PROVE  receipts'[<<c, i>>] = receipts[<<c, i>>]
    <3>1. /\ call.caller \in Caller /\ <<c, i>> \in Operation
          /\ <<call.caller, call.id>> \in Operation
      BY <1>3 DEF IInv, TypeCorrect, CallSet, Operation
    <3>2. CASE Outcome(call, receipts[<<call.caller, call.id>>]) = "applied"
               /\ receipts[<<call.caller, call.id>>] = None
      <4>1. receipts' = [receipts EXCEPT ![<<call.caller, call.id>>] = call.base]
        BY <2>1, <3>2 DEF Execute
      <4>2. c # call.caller
        BY <1>3, <3>2, SettledIsQuiet DEF Fates, FatesOfCallers
      <4> QED BY <1>3, <3>1, <4>1, <4>2 DEF IInv, TypeCorrect
    <3>3. CASE ~(Outcome(call, receipts[<<call.caller, call.id>>]) = "applied"
                 /\ receipts[<<call.caller, call.id>>] = None)
      BY <2>1, <3>3 DEF Execute
    <3> QED BY <3>2, <3>3
  <2>2. CASE Change \/ Crash \/ UNCHANGED vars
             \/ \E d \in Caller : Read(d) \/ Send(d) \/ LosePatience(d) \/ ReadAnswer(d)
    BY <2>2 DEF Change, Crash, vars, store, Read, Send, LosePatience, ReadAnswer
  <2> QED BY <1>3, <2>1, <2>2 DEF Next
<1> QED BY ReceiptsAreSound, <1>1, <1>2, <1>3, PTL DEF Spec, FateIsSettled

-----------------------------------------------------------------------------
(* What an answer says is so.  An answer that is under way is for the call *)
(* its caller waits for, there is one of it, and the call is executed.     *)

\* A call and its answer: the call is executed once, and only a caller that still
\* waits for it gets an answer.
Awaited ==
  /\ \A call \in calls : call.number <= caller[call.caller].calls
  /\ \A answer \in answers :
       /\ caller[answer.call.caller].pc = "wait" /\ answer.call = Call(answer.call.caller)
       /\ answer.call \notin calls
  /\ \A answer, other \in answers : answer.call.caller = other.call.caller => answer = other

\* Who is refused has not made its change before.
RefusedUnmade ==
  \A answer \in answers : answer.outcome = "refused" =>
    receipts[<<answer.call.caller, caller[answer.call.caller].id>>] = None

\* Callers, crashes and others add no answer, and answer no call twice.
LEMMA OthersKeepAwaited ==
  ASSUME IInv, Awaited, RefusedUnmade,
         \/ \E c \in Caller : Read(c) \/ Send(c) \/ LosePatience(c) \/ ReadAnswer(c)
         \/ Crash \/ Change \/ UNCHANGED vars
  PROVE  Awaited' /\ RefusedUnmade'
<1>1. /\ caller \in [Caller -> [pc : Pcs, id : 1..MaxIds, base : Nat, calls : Nat]]
      /\ \A call \in calls : call.caller \in Caller
      /\ \A answer \in answers : answer.call.caller \in Caller
  BY DEF IInv, TypeCorrect, CallSet
<1>2. ASSUME NEW c \in Caller, Read(c)
      PROVE  Awaited' /\ RefusedUnmade'
  BY <1>1, <1>2 DEF Read, store, Awaited, RefusedUnmade, Call
<1>3. ASSUME NEW c \in Caller, Send(c)
      PROVE  Awaited' /\ RefusedUnmade'
  <2>1. /\ caller[c].pc = "send" /\ caller[c].calls \in Nat
        /\ caller' = [caller EXCEPT ![c].pc = "wait", ![c].calls = @ + 1]
        /\ calls' = calls \union {Call(c)'} /\ answers' = answers /\ receipts' = receipts
    BY <1>1, <1>3 DEF Send, store
  <2>2. /\ \A d \in Caller : d # c => caller'[d] = caller[d] /\ Call(d)' = Call(d)
        /\ caller'[c].calls = caller[c].calls + 1 /\ Call(c)'.number = caller[c].calls + 1
        /\ Call(c)'.caller = c
    BY <1>1, <2>1 DEF Call
  <2>3. \A answer \in answers : answer.call.caller # c
    BY <2>1 DEF Awaited
  <2>4. \A call \in calls' : call.number <= caller'[call.caller].calls
    BY <1>1, <2>1, <2>2 DEF Awaited, IInv, TypeCorrect, CallSet
  <2> QED
    BY <1>1, <2>1, <2>2, <2>3, <2>4 DEF Awaited, RefusedUnmade
<1>4. ASSUME NEW c \in Caller, LosePatience(c)
      PROVE  Awaited' /\ RefusedUnmade'
  <2>1. /\ \A d \in Caller : d # c => caller'[d] = caller[d] /\ Call(d)' = Call(d)
        /\ \A d \in Caller : caller'[d].calls = caller[d].calls
        /\ calls' = calls /\ receipts' = receipts
        /\ answers' = {answer \in answers : answer.call # Call(c)}
    BY <1>1, <1>4 DEF LosePatience, store, Call
  <2>2. \A answer \in answers' : answer \in answers /\ answer.call.caller # c
    BY <2>1 DEF Awaited
  <2> QED
    BY <1>1, <2>1, <2>2 DEF Awaited, RefusedUnmade
<1>5. ASSUME NEW c \in Caller, ReadAnswer(c)
      PROVE  Awaited' /\ RefusedUnmade'
  <2>1. PICK answer \in answers :
          /\ answer.call = Call(c)
          /\ answers' = answers \ {answer}
          /\ IF answer.outcome = "stale" /\ caller[c].id < MaxIds
             THEN caller' = [caller EXCEPT ![c].pc = "read", ![c].id = @ + 1]
             ELSE caller' = [caller EXCEPT ![c].pc = answer.outcome]
    BY <1>5 DEF ReadAnswer
  <2>2. /\ \A d \in Caller : d # c => caller'[d] = caller[d] /\ Call(d)' = Call(d)
        /\ \A d \in Caller : caller'[d].calls = caller[d].calls
        /\ calls' = calls /\ receipts' = receipts /\ answer.call.caller = c
    BY <1>1, <1>5, <2>1 DEF ReadAnswer, store, Call
  <2>3. \A other \in answers' : other \in answers /\ other.call.caller # c
    BY <2>1, <2>2 DEF Awaited
  <2> QED
    BY <1>1, <2>2, <2>3 DEF Awaited, RefusedUnmade
<1>6. CASE Crash
  BY <1>6 DEF Crash, store, Awaited, RefusedUnmade
<1>7. CASE Change \/ UNCHANGED vars
  BY <1>7 DEF Change, vars, store, Awaited, RefusedUnmade, Call
<1> QED
  BY <1>2, <1>3, <1>4, <1>5, <1>6, <1>7

\* The store answers each call once, and a refusal of a change that was not made.
LEMMA ExecuteKeepsAwaited ==
  ASSUME IInv, Fates, Awaited, RefusedUnmade, NEW call \in calls, Execute(call)
  PROVE  Awaited' /\ RefusedUnmade'
<1> DEFINE op == <<call.caller, call.id>>
           outcome == Outcome(call, receipts[op])
<1>1. /\ op \in Operation /\ call.caller \in Caller
      /\ \A answer \in answers : answer.call.caller \in Caller
      /\ \A c \in Caller : <<c, caller[c].id>> \in Operation
  BY DEF IInv, TypeCorrect, CallSet, Operation
<1>2. /\ answers' = Answered(call, outcome) /\ caller' = caller /\ calls' = calls \ {call}
      /\ \A c : Call(c)' = Call(c)
  BY DEF Execute, Call
<1>3. outcome = "refused" => receipts[op] = None
  BY DEF Outcome
<1>4. IF outcome = "applied" /\ receipts[op] = None
      THEN receipts' = [receipts EXCEPT ![op] = call.base]
      ELSE receipts' = receipts
  BY DEF Execute
<1>5. outcome = "applied" /\ receipts[op] = None =>
        ~ \E o \in Final : Settled(call.caller, o)
  BY SettledIsQuiet
<1> HIDE DEF outcome
<1>6. \A answer \in answers' :
        \/ answer \in answers
        \/ /\ answer = [call |-> call, outcome |-> outcome]
           /\ caller[call.caller].pc = "wait" /\ Call(call.caller) = call
  BY <1>2, AnsweredAdds
<1>7. Awaited'
  <2>1. \A answer \in answers : answer.call # call
    BY DEF Awaited
  <2>2. \A answer \in answers' :
          /\ caller[answer.call.caller].pc = "wait"
          /\ answer.call = Call(answer.call.caller) /\ answer.call \notin calls'
    BY <1>2, <1>6 DEF Awaited
  <2>3. \A answer, other \in answers' :
          answer.call.caller = other.call.caller => answer = other
    <3> SUFFICES ASSUME NEW answer \in answers', NEW other \in answers',
                        answer.call.caller = other.call.caller
                 PROVE  answer = other
      OBVIOUS
    <3>1. answer.call = other.call
      BY <2>2
    <3> QED
      BY <1>6, <2>1, <3>1 DEF Awaited
  <2> QED
    BY <1>2, <2>2, <2>3 DEF Awaited
<1>8. RefusedUnmade'
  <2> SUFFICES ASSUME NEW answer \in answers', answer.outcome = "refused"
               PROVE  receipts'[<<answer.call.caller, caller[answer.call.caller].id>>] = None
    BY <1>2 DEF RefusedUnmade
  <2>1. CASE answer \in answers
    <3>1. /\ receipts[<<answer.call.caller, caller[answer.call.caller].id>>] = None
          /\ Settled(answer.call.caller, "refused")
      BY <2>1 DEF RefusedUnmade, Fates, FatesOfAnswers, Awaited
    <3>2. outcome = "applied" /\ receipts[op] = None => answer.call.caller # call.caller
      BY <1>5, <3>1 DEF Final
    <3> QED
      BY <1>1, <1>4, <2>1, <3>1, <3>2 DEF IInv, TypeCorrect
  <2>2. CASE answer = [call |-> call, outcome |-> outcome] /\ Call(call.caller) = call
    <3>1. outcome = "refused" /\ answer.call.caller = call.caller
          /\ call.id = caller[call.caller].id
      BY <2>2 DEF Call
    <3> QED
      BY <1>3, <1>4, <3>1
  <2> QED
    BY <1>6, <2>1, <2>2
<1> QED
  BY <1>7, <1>8

\* An answer is the truth about the caller's change: after "applied" it is made, after
\* a conflict or a refusal it is not.
THEOREM AnswersAreTrue == Spec => []AnswerIsTruth
<1>1. ASSUME Init PROVE Fates /\ Awaited /\ RefusedUnmade
  BY <1>1 DEF Init, Fates, FatesOfAnswers, FatesOfCallers, Final, Awaited, RefusedUnmade
<1>2. ASSUME IInv, Fates, Awaited, RefusedUnmade, [Next]_vars
      PROVE  Fates' /\ Awaited' /\ RefusedUnmade'
  BY <1>2, CallersKeepFates, ExecuteKeepsFates, OthersKeepFates, OthersKeepAwaited,
     ExecuteKeepsAwaited DEF Next
<1>3. IInv /\ Fates /\ Awaited /\ RefusedUnmade => AnswerIsTruth
  <2> SUFFICES ASSUME IInv, Fates, Awaited, RefusedUnmade, NEW answer \in answers
               PROVE  (\E i \in 1..MaxIds : receipts[<<answer.call.caller, i>>] # None)
                        <=> answer.outcome \in {"applied", "misused"}
    BY DEF AnswerIsTruth
  <2> DEFINE c == answer.call.caller
  <2>1. /\ c \in Caller /\ caller[c].id \in 1..MaxIds
        /\ answer.outcome \in Final
    BY DEF IInv, TypeCorrect, CallSet, Final
  <2>2. caller[c].pc = "wait" /\ answer.call = Call(c)
    BY DEF Awaited
  <2>3. answer.outcome \in {"applied", "misused"} => receipts[<<c, caller[c].id>>] # None
    BY <2>2 DEF Fates, FatesOfAnswers, Settled
  <2>4. answer.outcome \in {"refused", "stale"} => receipts[<<c, caller[c].id>>] = None
    BY <2>2 DEF IInv, ConflictsStand, RefusedUnmade
  <2>5. \A i \in 1..MaxIds : receipts[<<c, i>>] # None => i = caller[c].id
    BY <2>1 DEF IInv, OnlyCurrentId, Operation
  <2> QED
    BY <2>1, <2>3, <2>4, <2>5 DEF Final
<1> QED BY ReceiptsAreSound, <1>1, <1>2, <1>3, PTL DEF Spec

-----------------------------------------------------------------------------
(* WorkAccess.  A call keeps its commit from the moment it resolves it;    *)
(* the lock of the session and the intent make whatever follows of an      *)
(* attempt agree with the first commit recorded.                           *)

\* The rows of the attempts, of the card and of the calls.
Steps == {"idle", "install", "bind", "adopt", "preflight", "validate", "perform", "start",
          "finish", "preserve"}
Answers == {"nothing", "refused", "conflict", "intent", "finished", "preserved"}
SomeOutput == CHOOSE c \in Output : TRUE
Calls == [at : Steps, of : 0..MaxClaims, op : 0..2, commit : Output \union {SomeOutput},
          expected : Int, output : BOOLEAN, told : Answers]
Intents == [op : 1..2, commit : Output]
HeldStates == {"none", "active", "recovery", "succeeded", "reconciled"}
HeldRows == [state : HeldStates, intent : SUBSET Intents, finish : SUBSET Completion,
             ref : SUBSET Output]
Receipts == [1..2 -> SUBSET [of : Holding, commit : Output]]
WrittenRows == [revision : 0..MaxRevisions, receipts : Receipts]
AccessTyped ==
  /\ held \in [Holding -> HeldRows] /\ steward \in BOOLEAN /\ written \in WrittenRows
  /\ keptClaim \in 0..MaxClaims /\ submission \in [Submitter -> Calls]

\* Where a call is: past the start it has kept its own commit, past the record it has
\* its own intent, and what it was told of is its own.
IntentOf(call) == [op |-> call.op, commit |-> call.commit]
CallIsTrue(call, rows, managed) ==
  /\ call.at # "idle" => call.of \in Holding /\ rows[call.of].state # "none"
  /\ call.at \notin {"idle", "install"} => IntentOf(call) \in Intents
  /\ call.at = "adopt" => ~managed
  /\ call.at \in {"preflight", "validate"} => managed
  /\ call.output => ~managed /\ call.of \in Holding /\ rows[call.of].ref = {call.commit}
  /\ call.at = "perform" /\ ~managed /\ rows[call.of].state = "active" => call.output
  /\ call.at \in {"start", "finish", "preserve"} =>
       call.output /\ IntentOf(call) \in rows[call.of].intent
  /\ call.told = "intent" => call.of \in Holding /\ IntentOf(call) \in rows[call.of].intent
  /\ call.told = "finished" =>
       /\ ~managed /\ call.of \in Holding
       /\ [outcome |-> "success", commit |-> call.commit] \in rows[call.of].finish
  /\ call.told = "preserved" =>
       /\ ~managed /\ call.of \in Holding
       /\ [outcome |-> "interrupted", commit |-> call.commit] \in rows[call.of].finish
\* An attempt has one intent, with its receipt; what a manual one kept and completed
\* is of that intent.
AttemptIsWhole(a, row, recorded, managed) ==
  /\ \A i, j \in row.intent : i = j
  /\ \A i \in row.intent : [of |-> a, commit |-> i.commit] \in recorded[i.op]
  /\ ~managed => /\ \A i \in row.intent : row.ref = {i.commit}
                 /\ \A f \in row.finish : \E i \in row.intent : i.commit = f.commit
  /\ row.state = "succeeded" /\ ~managed =>
       \E f \in row.finish : f.outcome = "success" /\ f.commit \notin Unproven
ReceiptsAreMet(rows, recorded) ==
  \A o \in 1..2 : \A r \in recorded[o] : [op |-> o, commit |-> r.commit] \in rows[r.of].intent
AccessIsWhole ==
  /\ AccessTyped
  /\ keptClaim # 0 => held[keptClaim].state # "none"
  /\ ReceiptsAreMet(held, written.receipts)
  /\ \A a \in Holding : AttemptIsWhole(a, held[a], written.receipts, steward)
  /\ \A s \in Submitter : CallIsTrue(submission[s], held, steward)

\* No attempt comes back to life, and nothing recorded of a manual one is lost.
GoesOn(old, new, managed) ==
  /\ old.intent \subseteq new.intent
  /\ old.state # "none" => new.state # "none" /\ (new.state = "active" => old.state = "active")
  /\ ~managed => /\ old.finish \subseteq new.finish
                 /\ \A c \in Output \union {SomeOutput} : old.ref = {c} => new.ref = {c}

LEMMA CallStays ==
  ASSUME NEW rows, NEW later, NEW managed \in BOOLEAN, NEW call \in Calls,
         CallIsTrue(call, rows, managed), \A a \in Holding : GoesOn(rows[a], later[a], managed)
  PROVE  CallIsTrue(call, later, managed)
<1>1. call.commit \in Output \union {SomeOutput}  BY DEF Calls
<1>2. CASE call.of \in Holding
  <2>1. GoesOn(rows[call.of], later[call.of], managed)  BY <1>2
  <2> QED BY <1>1, <1>2, <2>1 DEF CallIsTrue, GoesOn
<1>3. CASE call.of \notin Holding
  BY <1>3 DEF CallIsTrue
<1> QED BY <1>2, <1>3

LEMMA RowStays == ASSUME NEW row, NEW managed PROVE GoesOn(row, row, managed)
BY DEF GoesOn

LEMMA AccessRows ==
  ASSUME AccessIsWhole
  PROVE  /\ held \in [Holding -> HeldRows] /\ steward \in BOOLEAN /\ written \in WrittenRows
         /\ keptClaim \in 0..MaxClaims /\ submission \in [Submitter -> Calls]
         /\ written.receipts \in Receipts
         /\ \A s \in Submitter : submission[s] \in Calls
                                 /\ CallIsTrue(submission[s], held, steward)
         /\ \A a \in Holding : held[a] \in HeldRows
                               /\ AttemptIsWhole(a, held[a], written.receipts, steward)
BY DEF AccessIsWhole, AccessTyped, WrittenRows

\* A call goes on; it may have changed one attempt and the card.
LEMMA CallGoesOn ==
  ASSUME AccessIsWhole, UNCHANGED <<steward, keptClaim>>, NEW s \in Submitter, NEW call \in Calls,
         submission' = [submission EXCEPT ![s] = call],
         held' \in [Holding -> HeldRows], written' \in WrittenRows,
         ReceiptsAreMet(held', written'.receipts),
         \A a \in Holding : /\ GoesOn(held[a], held'[a], steward)
                            /\ AttemptIsWhole(a, held'[a], written'.receipts, steward),
         CallIsTrue(call, held', steward)
  PROVE  AccessIsWhole'
<1>1. AccessTyped'  BY AccessRows DEF AccessTyped
<1>2. keptClaim' # 0 => held'[keptClaim'].state # "none"
  <2>1. keptClaim # 0 => keptClaim \in Holding
    BY AccessRows, AccessAssumption DEF Holding
  <2> QED BY <2>1 DEF AccessIsWhole, GoesOn
<1>3. \A r \in Submitter : CallIsTrue(submission'[r], held', steward)
  <2> TAKE r \in Submitter
  <2>1. CASE r = s  BY <2>1, AccessRows
  <2>2. CASE r # s
    <3>1. submission'[r] = submission[r]  BY <2>2, AccessRows
    <3>2. CallIsTrue(submission[r], held', steward)  BY AccessRows, CallStays
    <3> QED BY <3>1, <3>2
  <2> QED BY <2>1, <2>2
<1> QED BY <1>1, <1>2, <1>3 DEF AccessIsWhole

LEMMA CallMoves ==
  ASSUME AccessIsWhole, UNCHANGED <<held, steward, written>>, NEW s \in Submitter,
         NEW call \in Calls, submission' = [submission EXCEPT ![s] = call],
         CallIsTrue(call, held, steward),
         keptClaim' \in 0..MaxClaims, keptClaim' # 0 => held[keptClaim'].state # "none"
  PROVE  AccessIsWhole'
<1>1. AccessTyped'  BY AccessRows DEF AccessTyped
<1>2. \A r \in Submitter : CallIsTrue(submission'[r], held, steward)
  BY AccessRows
<1> QED BY <1>1, <1>2 DEF AccessIsWhole

\* The two ways a call changes.
LEMMA CallEdits ==
  ASSUME AccessIsWhole, NEW s \in Submitter
  PROVE  /\ \A at \in Steps : /\ [submission[s] EXCEPT !.at = at] \in Calls
                              /\ Goes(s, at) =>
                                   submission' = [submission EXCEPT ![s] = [submission[s] EXCEPT !.at = at]]
         /\ \A what \in Answers :
              /\ [submission[s] EXCEPT !.at = "idle", !.told = what] \in Calls
              /\ Tells(s, what) => submission' =
                   [submission EXCEPT ![s] = [submission[s] EXCEPT !.at = "idle", !.told = what]]
<1>1. submission[s] \in Calls /\ submission \in [Submitter -> Calls]  BY AccessRows
<1>2. \A at \in Steps : [submission[s] EXCEPT !.at = at] \in Calls  BY <1>1 DEF Calls
<1>3. \A what \in Answers : [submission[s] EXCEPT !.at = "idle", !.told = what] \in Calls
  BY <1>1 DEF Calls, Steps
<1> QED BY <1>1, <1>2, <1>3 DEF Goes, Tells

\* What a call may be told, and where it may go.
MayTell(call, what, rows, managed) ==
  /\ what = "intent" => call.of \in Holding /\ IntentOf(call) \in rows[call.of].intent
  /\ what = "finished" =>
       /\ ~managed /\ call.of \in Holding
       /\ [outcome |-> "success", commit |-> call.commit] \in rows[call.of].finish
  /\ what = "preserved" =>
       /\ ~managed /\ call.of \in Holding
       /\ [outcome |-> "interrupted", commit |-> call.commit] \in rows[call.of].finish
MayGo(call, at, rows, managed) ==
  /\ at # "idle" => call.of \in Holding /\ rows[call.of].state # "none"
  /\ at \notin {"idle", "install"} => IntentOf(call) \in Intents
  /\ at = "adopt" => ~managed
  /\ at \in {"preflight", "validate"} => managed
  /\ at = "perform" /\ ~managed /\ rows[call.of].state = "active" => call.output
  /\ at \in {"start", "finish", "preserve"} =>
       call.output /\ IntentOf(call) \in rows[call.of].intent

LEMMA CallTold ==
  ASSUME NEW call \in Calls, NEW what \in Answers, NEW rows, NEW managed, NEW new,
         new = [call EXCEPT !.at = "idle", !.told = what],
         CallIsTrue(call, rows, managed), MayTell(call, what, rows, managed)
  PROVE  CallIsTrue(new, rows, managed)
<1>1. /\ new.at = "idle" /\ new.told = what /\ new.of = call.of /\ new.op = call.op
      /\ new.commit = call.commit /\ new.output = call.output
  BY DEF Calls
<1> QED BY <1>1 DEF CallIsTrue, MayTell, IntentOf

LEMMA CallGone ==
  ASSUME NEW call \in Calls, NEW at \in Steps, NEW rows, NEW managed, NEW new,
         new = [call EXCEPT !.at = at],
         CallIsTrue(call, rows, managed), MayGo(call, at, rows, managed)
  PROVE  CallIsTrue(new, rows, managed)
<1>1. /\ new.at = at /\ new.told = call.told /\ new.of = call.of /\ new.op = call.op
      /\ new.commit = call.commit /\ new.output = call.output
  BY DEF Calls
<1> QED BY <1>1 DEF CallIsTrue, MayGo, IntentOf

\* A call that only goes on, or only ends.
LEMMA OnlyTells ==
  ASSUME AccessIsWhole, UNCHANGED <<held, steward, written, keptClaim>>, NEW s \in Submitter,
         NEW what \in Answers, Tells(s, what), MayTell(submission[s], what, held, steward)
  PROVE  AccessIsWhole'
<1>1. PICK call \in Calls : call = [submission[s] EXCEPT !.at = "idle", !.told = what]
  BY CallEdits
<1>2. submission' = [submission EXCEPT ![s] = call]  BY <1>1, CallEdits
<1>3. CallIsTrue(call, held, steward)  BY <1>1, CallTold, AccessRows
<1>4. keptClaim' \in 0..MaxClaims /\ (keptClaim' # 0 => held[keptClaim'].state # "none")
  BY AccessRows DEF AccessIsWhole
<1> QED BY <1>2, <1>3, <1>4, CallMoves

LEMMA OnlyGoes ==
  ASSUME AccessIsWhole, UNCHANGED <<held, steward, written, keptClaim>>, NEW s \in Submitter,
         NEW at \in Steps, Goes(s, at), MayGo(submission[s], at, held, steward)
  PROVE  AccessIsWhole'
<1>1. PICK call \in Calls : call = [submission[s] EXCEPT !.at = at]
  BY CallEdits
<1>2. submission' = [submission EXCEPT ![s] = call]  BY <1>1, CallEdits
<1>3. CallIsTrue(call, held, steward)  BY <1>1, CallGone, AccessRows
<1>4. keptClaim' \in 0..MaxClaims /\ (keptClaim' # 0 => held[keptClaim'].state # "none")
  BY AccessRows DEF AccessIsWhole
<1> QED BY <1>2, <1>3, <1>4, CallMoves

LEMMA InstallKeeps ==
  ASSUME AccessIsWhole, NEW s \in Submitter, InstallClaim(s) PROVE AccessIsWhole'
<1>1. submission[s] \in Calls /\ CallIsTrue(submission[s], held, steward)
      /\ submission[s].at = "install" /\ Goes(s, "idle") /\ keptClaim' = submission[s].of
      /\ UNCHANGED <<held, steward, written>>
  BY AccessRows DEF InstallClaim
<1>2. PICK call \in Calls : call = [submission[s] EXCEPT !.at = "idle"]
  BY CallEdits DEF Steps
<1>3. submission' = [submission EXCEPT ![s] = call]  BY <1>1, <1>2, CallEdits DEF Steps
<1>4. MayGo(submission[s], "idle", held, steward) /\ "idle" \in Steps  BY DEF MayGo, Steps
<1>5. CallIsTrue(call, held, steward)  BY <1>1, <1>2, <1>4, CallGone
<1>6. keptClaim' \in 0..MaxClaims /\ (keptClaim' # 0 => held[keptClaim'].state # "none")
  BY <1>1 DEF CallIsTrue, Calls
<1> QED BY <1>1, <1>3, <1>5, <1>6, CallMoves

LEMMA BeginKeeps ==
  ASSUME AccessIsWhole, NEW s \in Submitter, BeginSubmission(s) PROVE AccessIsWhole'
<1>1. PICK op \in 1..2, commit \in Output, expected \in {written.revision, written.revision - 1} :
        submission' = [submission EXCEPT ![s] =
          [at |-> "bind", of |-> keptClaim, op |-> op, commit |-> commit,
           expected |-> expected, output |-> FALSE, told |-> "nothing"]]
  BY DEF BeginSubmission
<1>2. PICK call : call = [at |-> "bind", of |-> keptClaim, op |-> op, commit |-> commit,
                          expected |-> expected, output |-> FALSE, told |-> "nothing"]
  OBVIOUS
<1>3. written.revision \in Int /\ keptClaim # 0 /\ keptClaim \in 0..MaxClaims
      /\ UNCHANGED <<held, steward, written, keptClaim>>
  BY AccessRows, AccessAssumption DEF BeginSubmission, WrittenRows
<1>4. expected \in Int  BY <1>3
<1>5. call \in Calls  BY <1>2, <1>3, <1>4 DEF Calls, Steps, Answers
<1>6. keptClaim \in Holding /\ held[keptClaim].state # "none"
  BY <1>3, AccessAssumption DEF Holding, AccessIsWhole
<1>7. CallIsTrue(call, held, steward)
  BY <1>2, <1>6 DEF CallIsTrue, IntentOf, Intents
<1> QED BY <1>1, <1>2, <1>3, <1>5, <1>6, <1>7, CallMoves

LEMMA BindKeeps ==
  ASSUME AccessIsWhole, NEW s \in Submitter, BindCaller(s) PROVE AccessIsWhole'
<1>1. PICK at \in {"perform", "preflight", "adopt"} :
        /\ Goes(s, at) /\ (at = "perform" => ~Live(submission[s].of))
        /\ (at = "adopt" => ~steward) /\ (at = "preflight" => steward)
  BY AccessRows DEF BindCaller
<1>2. CallIsTrue(submission[s], held, steward) /\ submission[s].at = "bind" /\ at \in Steps
      /\ UNCHANGED <<held, steward, written, keptClaim>>
  BY AccessRows DEF BindCaller, Steps
<1>3. MayGo(submission[s], at, held, steward)
  BY <1>1, <1>2 DEF MayGo, CallIsTrue, Live
<1> QED BY <1>1, <1>2, <1>3, OnlyGoes

\* The receipt that answers a call is of its own intent.
LEMMA OwnReceipt ==
  ASSUME AccessIsWhole, NEW s \in Submitter, submission[s].at \notin {"idle", "install"},
         Receipt(s) = {Mine(s)}
  PROVE  submission[s].of \in Holding /\ IntentOf(submission[s]) \in held[submission[s].of].intent
<1>1. CallIsTrue(submission[s], held, steward) /\ submission[s].at # "idle"  BY AccessRows
<1>2. submission[s].of \in Holding /\ IntentOf(submission[s]) \in Intents  BY <1>1 DEF CallIsTrue
<1>3. submission[s].op \in 1..2  BY <1>2 DEF IntentOf, Intents
<1>4. Mine(s) \in written.receipts[submission[s].op] /\ Mine(s).of = submission[s].of
      /\ Mine(s).commit = submission[s].commit
  BY DEF Receipt, Mine
<1>5. ReceiptsAreMet(held, written.receipts)  BY DEF AccessIsWhole
<1>6. [op |-> submission[s].op, commit |-> Mine(s).commit] \in held[Mine(s).of].intent
  BY <1>3, <1>4, <1>5 DEF ReceiptsAreMet
<1> QED BY <1>2, <1>4, <1>6 DEF IntentOf

LEMMA PreflightKeeps ==
  ASSUME AccessIsWhole, NEW s \in Submitter, Preflight(s) PROVE AccessIsWhole'
<1>1. submission[s] \in Calls /\ CallIsTrue(submission[s], held, steward)
      /\ submission[s].at = "preflight" /\ UNCHANGED <<held, steward, written, keptClaim>>
  BY AccessRows DEF Preflight
<1>2. CASE Receipt(s) = {Mine(s)} /\ Tells(s, "intent")
  <2>1. IntentOf(submission[s]) \in held[submission[s].of].intent /\ submission[s].of \in Holding
    BY <1>1, <1>2, OwnReceipt
  <2>2. MayTell(submission[s], "intent", held, steward) /\ "intent" \in Answers
    BY <2>1 DEF MayTell, Answers
  <2> QED BY <1>1, <1>2, <2>2, OnlyTells
<1>3. CASE Goes(s, "validate")
  <2>1. MayGo(submission[s], "validate", held, steward) /\ "validate" \in Steps
    BY <1>1 DEF MayGo, CallIsTrue, Steps
  <2> QED BY <1>1, <1>3, <2>1, OnlyGoes
<1>4. CASE Tells(s, "refused")
  <2>1. MayTell(submission[s], "refused", held, steward) /\ "refused" \in Answers
    BY DEF MayTell, Answers
  <2> QED BY <1>1, <1>4, <2>1, OnlyTells
<1> QED BY <1>2, <1>3, <1>4 DEF Preflight

LEMMA ValidateKeeps ==
  ASSUME AccessIsWhole, NEW s \in Submitter, ValidateCopy(s) PROVE AccessIsWhole'
<1>1. submission[s] \in Calls /\ CallIsTrue(submission[s], held, steward)
      /\ submission[s].at = "validate" /\ UNCHANGED <<held, steward, written, keptClaim>>
  BY AccessRows DEF ValidateCopy
<1>2. CASE Tells(s, "refused")
  <2>1. MayTell(submission[s], "refused", held, steward) /\ "refused" \in Answers
    BY DEF MayTell, Answers
  <2> QED BY <1>1, <1>2, <2>1, OnlyTells
<1>3. CASE Goes(s, "perform")
  <2>1. MayGo(submission[s], "perform", held, steward) /\ "perform" \in Steps
    BY <1>1 DEF MayGo, CallIsTrue, Steps
  <2> QED BY <1>1, <1>3, <2>1, OnlyGoes
<1> QED BY <1>2, <1>3 DEF ValidateCopy

LEMMA ReplayKeeps ==
  ASSUME AccessIsWhole, NEW s \in Submitter, ReplaySubmission(s) PROVE AccessIsWhole'
<1>1. submission[s] \in Calls /\ CallIsTrue(submission[s], held, steward)
      /\ submission[s].at = "perform" /\ UNCHANGED <<held, steward, written, keptClaim>>
  BY AccessRows DEF ReplaySubmission
<1>2. CASE Receipt(s) # {Mine(s)}
  <2>1. MayTell(submission[s], "refused", held, steward) /\ "refused" \in Answers
    BY DEF MayTell, Answers
  <2> QED BY <1>1, <1>2, <2>1, OnlyTells DEF ReplaySubmission
<1>3. CASE Receipt(s) = {Mine(s)}
  <2>1. IntentOf(submission[s]) \in held[submission[s].of].intent /\ submission[s].of \in Holding
    BY <1>1, <1>3, OwnReceipt
  <2>2. CASE submission[s].output
    <3>1. MayGo(submission[s], "start", held, steward) /\ "start" \in Steps
      BY <1>1, <2>1, <2>2 DEF MayGo, CallIsTrue, Steps
    <3> QED BY <1>1, <1>3, <2>2, <3>1, OnlyGoes DEF ReplaySubmission
  <2>3. CASE ~submission[s].output
    <3>1. MayTell(submission[s], "intent", held, steward) /\ "intent" \in Answers
      BY <2>1 DEF MayTell, Answers
    <3> QED BY <1>1, <1>3, <2>3, <3>1, OnlyTells DEF ReplaySubmission
  <2> QED BY <2>2, <2>3
<1> QED BY <1>2, <1>3

LEMMA RefuseKeeps ==
  ASSUME AccessIsWhole, NEW s \in Submitter, RefuseSubmission(s) PROVE AccessIsWhole'
<1>1. PICK what \in {"conflict", "refused"} : Tells(s, what)
  BY DEF RefuseSubmission
<1>2. MayTell(submission[s], what, held, steward) /\ what \in Answers  BY DEF MayTell, Answers
<1> QED BY <1>1, <1>2, OnlyTells DEF RefuseSubmission

LEMMA StartKeeps ==
  ASSUME AccessIsWhole, NEW s \in Submitter, StartOutput(s) PROVE AccessIsWhole'
<1>1. submission[s] \in Calls /\ CallIsTrue(submission[s], held, steward)
      /\ submission[s].at = "start" /\ UNCHANGED <<held, steward, written, keptClaim>>
  BY AccessRows DEF StartOutput
<1>2. MayTell(submission[s], "refused", held, steward) /\ "refused" \in Answers
  BY DEF MayTell, Answers
<1>3. MayGo(submission[s], "finish", held, steward) /\ "finish" \in Steps
  BY <1>1 DEF MayGo, CallIsTrue, Steps
<1> QED BY <1>1, <1>2, <1>3, OnlyTells, OnlyGoes DEF StartOutput

\* An attempt that changes leaves the others as they are.
LEMMA OneAttempt ==
  ASSUME AccessIsWhole, NEW a \in Holding, NEW row \in HeldRows, UNCHANGED <<steward>>,
         held' = [held EXCEPT ![a] = row], GoesOn(held[a], row, steward)
  PROVE  /\ held' \in [Holding -> HeldRows] /\ held'[a] = row
         /\ \A b \in Holding : GoesOn(held[b], held'[b], steward)
         /\ \A b \in Holding : b # a => held'[b] = held[b]
BY AccessRows, RowStays

\* The card's revision moves, its receipts do not.
LEMMA RevisedKeeps ==
  ASSUME AccessIsWhole, Revised
  PROVE  written' \in WrittenRows /\ written'.receipts = written.receipts
<1>1. written \in WrittenRows /\ written.revision \in 0..MaxRevisions
      /\ written.revision < MaxRevisions /\ written' = [written EXCEPT !.revision = @ + 1]
  BY AccessRows DEF Revised, WrittenRows
<1>2. written.revision + 1 \in 0..MaxRevisions  BY <1>1, AccessAssumption
<1> QED BY <1>1, <1>2 DEF WrittenRows

\* An attempt that goes on with the receipts it had.
LEMMA AttemptGoesOn ==
  ASSUME AccessIsWhole, NEW a \in Holding, NEW row \in HeldRows, UNCHANGED <<steward>>,
         held' = [held EXCEPT ![a] = row], GoesOn(held[a], row, steward),
         row.intent = held[a].intent, written'.receipts = written.receipts,
         AttemptIsWhole(a, row, written.receipts, steward)
  PROVE  /\ held' \in [Holding -> HeldRows]
         /\ ReceiptsAreMet(held', written'.receipts)
         /\ \A b \in Holding : /\ GoesOn(held[b], held'[b], steward)
                               /\ AttemptIsWhole(b, held'[b], written'.receipts, steward)
<1>1. held' \in [Holding -> HeldRows] /\ held'[a] = row
      /\ (\A b \in Holding : GoesOn(held[b], held'[b], steward))
      /\ \A b \in Holding : b # a => held'[b] = held[b]
  BY OneAttempt
<1>2. \A b \in Holding : held'[b].intent = held[b].intent  BY <1>1
<1>3. ReceiptsAreMet(held', written'.receipts)
  <2> SUFFICES ASSUME NEW o \in 1..2, NEW r \in written.receipts[o]
               PROVE  [op |-> o, commit |-> r.commit] \in held'[r.of].intent
    BY DEF ReceiptsAreMet
  <2>1. r.of \in Holding
    BY AccessRows DEF Receipts
  <2> QED BY <1>2, <2>1 DEF AccessIsWhole, ReceiptsAreMet
<1>4. \A b \in Holding : AttemptIsWhole(b, held'[b], written'.receipts, steward)
  BY <1>1, AccessRows
<1> QED BY <1>1, <1>3, <1>4

LEMMA AdoptKeeps ==
  ASSUME AccessIsWhole, NEW s \in Submitter, AdoptOutput(s) PROVE AccessIsWhole'
<1>0. PICK a : a = submission[s].of  OBVIOUS
<1>1. submission[s] \in Calls /\ CallIsTrue(submission[s], held, steward)
      /\ submission[s].at = "adopt" /\ UNCHANGED <<steward, written, keptClaim>>
  BY AccessRows DEF AdoptOutput
<1>2. CASE Tells(s, "refused") /\ UNCHANGED held
  <2>1. MayTell(submission[s], "refused", held, steward) /\ "refused" \in Answers
    BY DEF MayTell, Answers
  <2> QED BY <1>1, <1>2, <2>1, OnlyTells
<1>3. CASE /\ held[a].ref \subseteq {submission[s].commit}
           /\ held' = [held EXCEPT ![a].ref = {submission[s].commit}]
           /\ submission' = [submission EXCEPT ![s].at = "perform", ![s].output = TRUE]
  <2>1. /\ a \in Holding /\ IntentOf(submission[s]) \in Intents /\ ~steward
        /\ submission[s].commit \in Output /\ held[a].state # "none"
    BY <1>0, <1>1 DEF CallIsTrue, IntentOf, Intents
  <2>2. held[a] \in HeldRows /\ AttemptIsWhole(a, held[a], written.receipts, steward)
    BY <2>1, AccessRows
  <2>3. PICK row \in HeldRows : row = [held[a] EXCEPT !.ref = {submission[s].commit}]
    BY <2>1, <2>2 DEF HeldRows
  <2>4. held' = [held EXCEPT ![a] = row]  BY <1>3, <2>1, <2>3, AccessRows
  <2>5. row.state = held[a].state /\ row.intent = held[a].intent /\ row.finish = held[a].finish
        /\ row.ref = {submission[s].commit}
    BY <2>2, <2>3 DEF HeldRows
  <2>6. GoesOn(held[a], row, steward)  BY <1>3, <2>5 DEF GoesOn
  <2>7. AttemptIsWhole(a, row, written.receipts, steward)
    BY <1>3, <2>2, <2>5 DEF AttemptIsWhole
  <2>8. PICK call : call = [submission[s] EXCEPT !.at = "perform", !.output = TRUE]  OBVIOUS
  <2>9. submission' = [submission EXCEPT ![s] = call]  BY <1>3, <2>8, AccessRows
  <2>10. /\ call \in Calls /\ call.at = "perform" /\ call.output /\ call.of = a
         /\ call.op = submission[s].op /\ call.commit = submission[s].commit
         /\ call.told = submission[s].told
    BY <1>0, <1>1, <2>8 DEF Calls, Steps
  <2>11. CallIsTrue(submission[s], held', steward)
    <3>1. \A b \in Holding : GoesOn(held[b], held'[b], steward)
      BY <1>1, <2>1, <2>3, <2>4, <2>6, OneAttempt
    <3>2. steward \in BOOLEAN  BY AccessRows
    <3> QED BY <1>1, <3>1, <3>2, CallStays
  <2>12. held'[a] = row  BY <2>4, <2>1, AccessRows
  <2>13. CallIsTrue(call, held', steward)
    BY <1>0, <2>1, <2>5, <2>10, <2>11, <2>12 DEF CallIsTrue, IntentOf
  <2> QED BY <1>1, <2>1, <2>3, <2>4, <2>5, <2>6, <2>7, <2>9, <2>10, <2>13, AttemptGoesOn,
             CallGoesOn, AccessRows
<1> QED BY <1>0, <1>2, <1>3 DEF AdoptOutput

\* An attempt that moves while no call does.
LEMMA AttemptMoves ==
  ASSUME AccessIsWhole, UNCHANGED <<steward, keptClaim, submission>>,
         held' \in [Holding -> HeldRows], written' \in WrittenRows,
         ReceiptsAreMet(held', written'.receipts),
         \A a \in Holding : /\ GoesOn(held[a], held'[a], steward)
                            /\ AttemptIsWhole(a, held'[a], written'.receipts, steward)
  PROVE  AccessIsWhole'
<1>1. AccessTyped'  BY AccessRows DEF AccessTyped
<1>2. keptClaim' # 0 => held'[keptClaim'].state # "none"
  <2>1. keptClaim # 0 => keptClaim \in Holding
    BY AccessRows, AccessAssumption DEF Holding
  <2> QED BY <2>1 DEF AccessIsWhole, GoesOn
<1>3. \A r \in Submitter : CallIsTrue(submission'[r], held', steward)
  BY AccessRows, CallStays
<1> QED BY <1>1, <1>2, <1>3 DEF AccessIsWhole

\* An attempt whose state alone changes, to one that is not a success.
LEMMA StateMoves ==
  ASSUME AccessIsWhole, NEW a \in Holding, NEW state \in {"recovery", "reconciled"},
         held[a].state # "none", Revised, held' = [held EXCEPT ![a].state = state],
         UNCHANGED <<steward, keptClaim, submission>>
  PROVE  AccessIsWhole'
<1>1. held[a] \in HeldRows /\ AttemptIsWhole(a, held[a], written.receipts, steward)
  BY AccessRows
<1>2. PICK row \in HeldRows : row = [held[a] EXCEPT !.state = state]
  BY <1>1 DEF HeldRows, HeldStates
<1>3. held' = [held EXCEPT ![a] = row]  BY <1>2, AccessRows
<1>4. row.state = state /\ row.intent = held[a].intent /\ row.finish = held[a].finish
      /\ row.ref = held[a].ref
  BY <1>1, <1>2 DEF HeldRows
<1>5. GoesOn(held[a], row, steward) /\ AttemptIsWhole(a, row, written.receipts, steward)
  BY <1>1, <1>4 DEF GoesOn, AttemptIsWhole
<1> QED BY <1>2, <1>3, <1>4, <1>5, RevisedKeeps, AttemptGoesOn, AttemptMoves

LEMMA SuperviseKeeps ==
  ASSUME AccessIsWhole, NEW a \in Holding, SuperviseFinish(a) PROVE AccessIsWhole'
<1>1. PICK c \in Output :
        held' = [held EXCEPT ![a].finish = {[outcome |-> "success", commit |-> c]},
                             ![a].ref = {c}, ![a].state = "succeeded"]
  BY DEF SuperviseFinish
<1>2. held[a] \in HeldRows /\ AttemptIsWhole(a, held[a], written.receipts, steward)
  BY AccessRows
<1>3. PICK row \in HeldRows : row = [held[a] EXCEPT !.finish = {[outcome |-> "success", commit |-> c]},
                                       !.ref = {c}, !.state = "succeeded"]
  <2>1. {[outcome |-> "success", commit |-> c]} \in SUBSET Completion /\ {c} \in SUBSET Output
    BY DEF Completion
  <2> QED BY <1>2, <2>1 DEF HeldRows, HeldStates
<1>4. held' = [held EXCEPT ![a] = row]  BY <1>1, <1>3, AccessRows
<1>5. row.state = "succeeded" /\ row.intent = held[a].intent
  BY <1>2, <1>3 DEF HeldRows
<1>6. GoesOn(held[a], row, steward) /\ AttemptIsWhole(a, row, written.receipts, steward)
  BY <1>2, <1>5 DEF GoesOn, AttemptIsWhole, SuperviseFinish
<1> QED BY <1>3, <1>4, <1>5, <1>6, RevisedKeeps, AttemptGoesOn, AttemptMoves DEF SuperviseFinish

LEMMA ClaimKeeps ==
  ASSUME AccessIsWhole, NEW s \in Submitter, ClaimTheStep(s) PROVE AccessIsWhole'
<1>1. PICK a \in Holding :
        /\ held[a].state = "none" /\ held' = [held EXCEPT ![a].state = "active"]
        /\ submission' = [submission EXCEPT ![s] = [Quiescent EXCEPT !.at = "install", !.of = a]]
  BY DEF ClaimTheStep
<1>2. held[a] \in HeldRows /\ AttemptIsWhole(a, held[a], written.receipts, steward)
  BY AccessRows
<1>3. PICK row \in HeldRows : row = [held[a] EXCEPT !.state = "active"]
  BY <1>2 DEF HeldRows, HeldStates
<1>4. held' = [held EXCEPT ![a] = row]  BY <1>1, <1>3, AccessRows
<1>5. row.state = "active" /\ row.intent = held[a].intent /\ row.finish = held[a].finish
      /\ row.ref = held[a].ref
  BY <1>2, <1>3 DEF HeldRows
<1>6. GoesOn(held[a], row, steward) /\ AttemptIsWhole(a, row, written.receipts, steward)
  BY <1>1, <1>2, <1>5 DEF GoesOn, AttemptIsWhole
<1>7. PICK call : call = [Quiescent EXCEPT !.at = "install", !.of = a]  OBVIOUS
<1>8. /\ call \in Calls /\ call.at = "install" /\ call.of = a /\ call.told = "nothing"
      /\ ~call.output
  <2>1. a \in 0..MaxClaims /\ 0 \in 0..MaxClaims /\ 0 \in 0..2 /\ 0 \in Int
    BY AccessAssumption DEF Holding
  <2>2. call = [at |-> "install", of |-> a, op |-> 0, commit |-> SomeOutput, expected |-> 0,
                output |-> FALSE, told |-> "nothing"]
    BY <1>7 DEF Quiescent, SomeOutput
  <2> QED BY <2>1, <2>2 DEF Calls, Steps, Answers
<1>9. held'[a] = row  BY <1>4, AccessRows
<1>10. CallIsTrue(call, held', steward)
  BY <1>5, <1>8, <1>9 DEF CallIsTrue
<1>11. UNCHANGED <<steward, keptClaim>> /\ Revised
  BY DEF ClaimTheStep
<1>12. submission' = [submission EXCEPT ![s] = call]  BY <1>1, <1>7
<1> QED BY <1>3, <1>4, <1>5, <1>6, <1>8, <1>10, <1>11, <1>12, RevisedKeeps, AttemptGoesOn, CallGoesOn

LEMMA RecordKeeps ==
  ASSUME AccessIsWhole, NEW s \in Submitter, RecordIntent(s) PROVE AccessIsWhole'
<1>0. PICK a : a = submission[s].of  OBVIOUS
<1>1. /\ submission[s] \in Calls /\ CallIsTrue(submission[s], held, steward)
      /\ submission[s].at = "perform" /\ UNCHANGED <<steward, keptClaim>>
      /\ Receipt(s) = {} /\ held[a].state = "active" /\ held[a].intent = {}
      /\ written.revision < MaxRevisions
  BY <1>0, AccessRows DEF RecordIntent, Admissible, Live
<1>2. /\ a \in Holding /\ IntentOf(submission[s]) \in Intents
      /\ ~steward => submission[s].output
      /\ submission[s].output => held[a].ref = {submission[s].commit}
  BY <1>0, <1>1 DEF CallIsTrue
<1>3. submission[s].op \in 1..2 /\ submission[s].commit \in Output
  BY <1>2 DEF IntentOf, Intents
<1>4. held[a] \in HeldRows /\ AttemptIsWhole(a, held[a], written.receipts, steward)
  BY <1>2, AccessRows
<1>5. PICK row \in HeldRows : row = [held[a] EXCEPT !.intent = {IntentOf(submission[s])}]
  BY <1>2, <1>4 DEF HeldRows
<1>6. held' = [held EXCEPT ![a] = row]
  BY <1>0, <1>5, AccessRows DEF RecordIntent, IntentOf
<1>7. row.state = "active" /\ row.intent = {IntentOf(submission[s])}
      /\ row.finish = held[a].finish /\ row.ref = held[a].ref
  BY <1>1, <1>4, <1>5 DEF HeldRows
<1>8. GoesOn(held[a], row, steward)  BY <1>1, <1>7 DEF GoesOn
<1>9. PICK recorded \in Receipts :
        recorded = [written.receipts EXCEPT ![submission[s].op] = {Mine(s)}]
  <2>1. Mine(s) \in [of : Holding, commit : Output]  BY <1>0, <1>2, <1>3 DEF Mine
  <2> QED BY <1>3, <2>1, AccessRows DEF Receipts
<1>10. /\ recorded[submission[s].op] = {Mine(s)}
       /\ \A o \in 1..2 : o # submission[s].op => recorded[o] = written.receipts[o]
       /\ written.receipts[submission[s].op] = {}
  BY <1>1, <1>3, <1>9, AccessRows DEF Receipts, Receipt
<1>11. written'.receipts = recorded /\ written' \in WrittenRows
  <2>1. written.revision + 1 \in 0..MaxRevisions
    BY <1>1, AccessRows, AccessAssumption DEF WrittenRows
  <2>2. written' = [revision |-> written.revision + 1, receipts |-> recorded]
    BY <1>9 DEF RecordIntent
  <2> QED BY <2>1, <2>2 DEF WrittenRows
<1>12. /\ held' \in [Holding -> HeldRows] /\ held'[a] = row
       /\ \A b \in Holding : GoesOn(held[b], held'[b], steward)
       /\ \A b \in Holding : b # a => held'[b] = held[b]
  BY <1>1, <1>2, <1>6, <1>8, OneAttempt
<1>13. ReceiptsAreMet(held', recorded)
  <2> SUFFICES ASSUME NEW o \in 1..2, NEW r \in recorded[o]
               PROVE  [op |-> o, commit |-> r.commit] \in held'[r.of].intent
    BY DEF ReceiptsAreMet
  <2>1. CASE o = submission[s].op
    <3>1. r.of = a /\ r.commit = submission[s].commit  BY <1>0, <1>10, <2>1 DEF Mine
    <3> QED BY <1>7, <1>12, <2>1, <3>1 DEF IntentOf
  <2>2. CASE o # submission[s].op
    <3>1. r \in written.receipts[o]  BY <1>10, <2>2
    <3>2. r.of \in Holding  BY <3>1, AccessRows DEF Receipts
    <3>3. [op |-> o, commit |-> r.commit] \in held[r.of].intent
      BY <3>1 DEF AccessIsWhole, ReceiptsAreMet
    <3> QED BY <1>12, <3>2, <3>3 DEF GoesOn
  <2> QED BY <2>1, <2>2
<1>14. AttemptIsWhole(a, row, recorded, steward)
  <2>1. IntentOf(submission[s]).op = submission[s].op
        /\ IntentOf(submission[s]).commit = submission[s].commit
    BY DEF IntentOf
  <2>2. Mine(s) = [of |-> a, commit |-> submission[s].commit]  BY <1>0 DEF Mine
  <2>3. ~steward => row.finish = {}  BY <1>1, <1>4, <1>7 DEF AttemptIsWhole
  <2> QED BY <1>2, <1>7, <1>10, <2>1, <2>2, <2>3 DEF AttemptIsWhole
<1>15. ASSUME NEW b \in Holding, b # a PROVE AttemptIsWhole(b, held'[b], recorded, steward)
  <2>1. AttemptIsWhole(b, held[b], written.receipts, steward) /\ held[b] \in HeldRows
    BY AccessRows
  <2>2. \A i \in held[b].intent : i.op \in 1..2 /\ i.op # submission[s].op
    BY <1>10, <2>1 DEF AttemptIsWhole, HeldRows, Intents
  <2> QED BY <1>10, <1>12, <1>15, <2>1, <2>2 DEF AttemptIsWhole
<1>16. \A b \in Holding : /\ GoesOn(held[b], held'[b], steward)
                          /\ AttemptIsWhole(b, held'[b], written'.receipts, steward)
  BY <1>11, <1>12, <1>14, <1>15
<1>17. CallIsTrue(submission[s], held', steward)
  BY <1>1, <1>12, CallStays, AccessRows
<1>18. IntentOf(submission[s]) \in held'[a].intent  BY <1>7, <1>12
<1>19. CASE submission[s].output
  <2>1. PICK call \in Calls : call = [submission[s] EXCEPT !.at = "start"]
    BY CallEdits DEF Steps
  <2>2. submission' = [submission EXCEPT ![s] = call]
    BY <1>19, <2>1, CallEdits DEF RecordIntent, Steps
  <2>3. MayGo(submission[s], "start", held', steward) /\ "start" \in Steps
    BY <1>0, <1>2, <1>7, <1>12, <1>18, <1>19 DEF MayGo, Steps
  <2>4. CallIsTrue(call, held', steward)  BY <1>1, <1>17, <2>1, <2>3, CallGone, SMTT(30)
  <2> QED BY <1>1, <1>11, <1>12, <1>13, <1>16, <2>2, <2>4, CallGoesOn
<1>20. CASE ~submission[s].output
  <2>1. PICK call \in Calls : call = [submission[s] EXCEPT !.at = "idle", !.told = "intent"]
    BY CallEdits, ZenonT(60) DEF Answers
  <2>2. submission' = [submission EXCEPT ![s] = call]
    BY <1>20, <2>1, CallEdits, ZenonT(60) DEF RecordIntent, Answers
  <2>3. MayTell(submission[s], "intent", held', steward) /\ "intent" \in Answers
    <3>1. submission[s].of \in Holding
          /\ IntentOf(submission[s]) \in held'[submission[s].of].intent
      BY <1>0, <1>2, <1>18
    <3> QED BY <3>1 DEF MayTell, Answers
  <2>4. \A rows : CallIsTrue(submission[s], rows, steward)
                   /\ MayTell(submission[s], "intent", rows, steward)
          => CallIsTrue(call, rows, steward)
    <3>1. /\ submission[s] \in Calls /\ "intent" \in Answers
          /\ call = [submission[s] EXCEPT !.at = "idle", !.told = "intent"]
      BY <1>1, <2>1, <2>3
    <3>2. /\ call.at = "idle" /\ call.told = "intent" /\ call.of = submission[s].of
          /\ call.op = submission[s].op /\ call.commit = submission[s].commit
          /\ call.output = submission[s].output
      BY <3>1 DEF Calls
    <3> QED BY <3>2 DEF CallIsTrue, MayTell, IntentOf
  <2>5. CallIsTrue(call, held', steward)  BY <1>17, <2>3, <2>4
  <2> QED BY <1>1, <1>11, <1>12, <1>13, <1>16, <2>2, <2>5, CallGoesOn
<1> QED BY <1>19, <1>20

\* A completion that is recorded, and told to whoever recorded it.
LEMMA CompletionKeeps ==
  ASSUME AccessIsWhole, NEW s \in Submitter, submission[s].at \in {"finish", "preserve"},
         NEW outcome \in {"success", "interrupted"}, NEW state \in {"succeeded", "recovery"},
         NEW what \in Answers,
         what = IF outcome = "success" THEN "finished" ELSE "preserved",
         held[submission[s].of].finish = {},
         held[submission[s].of].state \in {"active", "recovery"},
         state = "succeeded" => outcome = "success" /\ submission[s].commit \notin Unproven,
         Completes(submission[s].of, [outcome |-> outcome, commit |-> submission[s].commit], state),
         Revised, Tells(s, what), UNCHANGED <<steward, keptClaim>>
  PROVE  AccessIsWhole'
<1>0. PICK a : a = submission[s].of  OBVIOUS
<1>1. submission[s] \in Calls /\ CallIsTrue(submission[s], held, steward)  BY AccessRows
<1>2. /\ a \in Holding /\ IntentOf(submission[s]) \in Intents /\ ~steward
      /\ IntentOf(submission[s]) \in held[a].intent
  BY <1>0, <1>1 DEF CallIsTrue
<1>3. PICK done \in Completion : done = [outcome |-> outcome, commit |-> submission[s].commit]
  BY <1>2 DEF Completion, IntentOf, Intents
<1>4. held[a] \in HeldRows /\ AttemptIsWhole(a, held[a], written.receipts, steward)
  BY <1>2, AccessRows
<1>5. PICK row \in HeldRows : row = [held[a] EXCEPT !.finish = {done}, !.state = state]
  BY <1>4 DEF HeldRows, HeldStates
<1>6. held' = [held EXCEPT ![a] = row]  BY <1>0, <1>3, <1>5, AccessRows DEF Completes
<1>7. row.state = state /\ row.intent = held[a].intent /\ row.finish = {done}
      /\ row.ref = held[a].ref
  BY <1>4, <1>5 DEF HeldRows
<1>8. GoesOn(held[a], row, steward)  BY <1>0, <1>7 DEF GoesOn
<1>9. AttemptIsWhole(a, row, written.receipts, steward)
  <2>1. done.outcome = outcome /\ done.commit = submission[s].commit
        /\ IntentOf(submission[s]).commit = submission[s].commit
    BY <1>3 DEF IntentOf
  <2> QED BY <1>2, <1>4, <1>7, <2>1 DEF AttemptIsWhole
<1>10. held'[a] = row /\ \A b \in Holding : GoesOn(held[b], held'[b], steward)
  BY <1>2, <1>6, <1>8, OneAttempt
<1>11. CallIsTrue(submission[s], held', steward)  BY <1>1, <1>10, CallStays, AccessRows
<1>12. MayTell(submission[s], what, held', steward)
  <2>1. /\ submission[s].of \in Holding /\ ~steward
        /\ [outcome |-> outcome, commit |-> submission[s].commit]
             \in held'[submission[s].of].finish
    BY <1>0, <1>2, <1>3, <1>7, <1>10
  <2> QED BY <2>1 DEF MayTell
<1>13. PICK call \in Calls : call = [submission[s] EXCEPT !.at = "idle", !.told = what]
  BY CallEdits
<1>14. submission' = [submission EXCEPT ![s] = call]  BY <1>13, CallEdits
<1>15. CallIsTrue(call, held', steward)
  <2>1. \A rows : CallIsTrue(submission[s], rows, steward) /\ MayTell(submission[s], what, rows, steward)
          => CallIsTrue(call, rows, steward)
    <3>1. submission[s] \in Calls /\ call = [submission[s] EXCEPT !.at = "idle", !.told = what]
      BY <1>1, <1>13
    <3>2. /\ call.at = "idle" /\ call.told = what /\ call.of = submission[s].of
          /\ call.op = submission[s].op /\ call.commit = submission[s].commit
          /\ call.output = submission[s].output
      BY <3>1 DEF Calls
    <3> QED BY <3>2 DEF CallIsTrue, MayTell, IntentOf
  <2> QED BY <1>11, <1>12, <2>1
<1> QED BY <1>2, <1>5, <1>6, <1>7, <1>8, <1>9, <1>14, <1>15, RevisedKeeps, AttemptGoesOn, CallGoesOn

LEMMA FinishKeeps ==
  ASSUME AccessIsWhole, NEW s \in Submitter, FinishOutput(s) PROVE AccessIsWhole'
<1>0. PICK a : a = submission[s].of  OBVIOUS
<1>1. /\ submission[s] \in Calls /\ CallIsTrue(submission[s], held, steward)
      /\ submission[s].at = "finish" /\ UNCHANGED <<steward, keptClaim>>
  BY AccessRows DEF FinishOutput
<1>2. a \in Holding /\ ~steward  BY <1>0, <1>1 DEF CallIsTrue
<1>3. MayTell(submission[s], "refused", held, steward) /\ {"refused", "finished"} \subseteq Answers
  BY DEF MayTell, Answers
<1>4. CASE /\ held[a].finish # {} /\ UNCHANGED <<held, written>>
           /\ Tells(s, IF held[a].finish = {[outcome |-> "success", commit |-> submission[s].commit]}
                       THEN "finished" ELSE "refused")
  <2>1. held[a].finish = {[outcome |-> "success", commit |-> submission[s].commit]}
          => MayTell(submission[s], "finished", held, steward)
    BY <1>0, <1>2 DEF MayTell
  <2> QED BY <1>1, <1>3, <1>4, <2>1, OnlyTells
<1>5. CASE /\ held[a].finish = {} /\ held[a].state \in {"active", "recovery"}
           /\ submission[s].commit \notin Unproven \/ ~Live(a)
           /\ Completes(a, [outcome |-> "success", commit |-> submission[s].commit],
                        IF Live(a) THEN "succeeded" ELSE "recovery")
           /\ Revised /\ Tells(s, "finished")
  <2>1. PICK state \in {"succeeded", "recovery"} :
          /\ state = IF Live(a) THEN "succeeded" ELSE "recovery"
          /\ state = "succeeded" => submission[s].commit \notin Unproven
    BY <1>5
  <2> QED BY <1>0, <1>1, <1>3, <1>5, <2>1, CompletionKeeps
<1>6. CASE held[a].finish = {} /\ Goes(s, "preserve") /\ UNCHANGED <<held, written>>
  <2>1. MayGo(submission[s], "preserve", held, steward) /\ "preserve" \in Steps
    BY <1>1 DEF MayGo, CallIsTrue, Steps
  <2> QED BY <1>1, <1>6, <2>1, OnlyGoes
<1>7. CASE Tells(s, "refused") /\ UNCHANGED <<held, written>>
  BY <1>1, <1>3, <1>7, OnlyTells
<1> QED BY <1>0, <1>4, <1>5, <1>6, <1>7 DEF FinishOutput

LEMMA PreserveKeeps ==
  ASSUME AccessIsWhole, NEW s \in Submitter, PreserveOutput(s) PROVE AccessIsWhole'
<1>0. PICK a : a = submission[s].of  OBVIOUS
<1>1. /\ submission[s] \in Calls /\ CallIsTrue(submission[s], held, steward)
      /\ submission[s].at = "preserve" /\ UNCHANGED <<steward, keptClaim>>
  BY AccessRows DEF PreserveOutput
<1>2. a \in Holding /\ ~steward  BY <1>0, <1>1 DEF CallIsTrue
<1>3. MayTell(submission[s], "refused", held, steward) /\ {"refused", "preserved"} \subseteq Answers
  BY DEF MayTell, Answers
<1>4. CASE /\ held[a].finish # {} /\ UNCHANGED <<held, written>>
           /\ Tells(s, IF held[a].finish = {[outcome |-> "interrupted", commit |-> submission[s].commit]}
                       THEN "preserved" ELSE "refused")
  <2>1. held[a].finish = {[outcome |-> "interrupted", commit |-> submission[s].commit]}
          => MayTell(submission[s], "preserved", held, steward)
    BY <1>0, <1>2 DEF MayTell
  <2> QED BY <1>1, <1>3, <1>4, <2>1, OnlyTells
<1>5. CASE /\ held[a].finish = {} /\ held[a].state \in {"active", "recovery"}
           /\ Completes(a, [outcome |-> "interrupted", commit |-> submission[s].commit], "recovery")
           /\ Revised /\ Tells(s, "preserved")
  BY <1>0, <1>1, <1>3, <1>5, CompletionKeeps
<1>6. CASE Tells(s, "refused") /\ UNCHANGED <<held, written>>
  BY <1>1, <1>3, <1>6, OnlyTells
<1> QED BY <1>0, <1>4, <1>5, <1>6 DEF PreserveOutput

LEMMA SessionKeeps == ASSUME AccessIsWhole, SessionDies PROVE AccessIsWhole'
<1>1. Quiescent \in Calls /\ Quiescent.at = "idle" /\ Quiescent.told = "nothing"
      /\ ~Quiescent.output
  <2>1. 0 \in 0..MaxClaims /\ 0 \in 0..2 /\ 0 \in Int  BY AccessAssumption
  <2> QED BY <2>1 DEF Quiescent, Calls, Steps, Answers, SomeOutput
<1>2. CallIsTrue(Quiescent, held, steward)  BY <1>1 DEF CallIsTrue
<1>3. keptClaim' = 0 /\ submission' = [s \in Submitter |-> Quiescent]
      /\ UNCHANGED <<held, steward, written>>
  BY DEF SessionDies
<1>4. AccessTyped'  BY <1>1, <1>3, AccessRows, AccessAssumption DEF AccessTyped
<1> QED BY <1>2, <1>3, <1>4 DEF AccessIsWhole

LEMMA AccessStep == ASSUME AccessIsWhole, [AccessNext]_accessVars PROVE AccessIsWhole'
<1>1. ASSUME NEW a \in Holding, FenceClaim(a) PROVE AccessIsWhole'
  BY <1>1, StateMoves DEF FenceClaim, Live
<1>2. ASSUME NEW a \in Holding, ReconcileClaim(a) PROVE AccessIsWhole'
  BY <1>2, StateMoves DEF ReconcileClaim
<1>3. CASE UNCHANGED accessVars
  BY <1>3 DEF accessVars, AccessIsWhole, AccessTyped
<1> QED
  BY <1>1, <1>2, <1>3, ClaimKeeps, InstallKeeps, BeginKeeps, BindKeeps, AdoptKeeps,
     PreflightKeeps, ValidateKeeps, ReplayKeeps, RefuseKeeps, RecordKeeps, StartKeeps,
     FinishKeeps, PreserveKeeps, SuperviseKeeps, SessionKeeps DEF AccessNext

LEMMA AccessBegins == AccessInit => AccessIsWhole
<1> SUFFICES ASSUME AccessInit PROVE AccessIsWhole  OBVIOUS
<1>1. Quiescent \in Calls /\ Quiescent.at = "idle" /\ Quiescent.told = "nothing"
      /\ ~Quiescent.output
  <2>1. 0 \in 0..MaxClaims /\ 0 \in 0..2 /\ 0 \in Int  BY AccessAssumption
  <2> QED BY <2>1 DEF Quiescent, Calls, Steps, Answers, SomeOutput
<1>2. CallIsTrue(Quiescent, held, steward)  BY <1>1 DEF CallIsTrue
<1>3. Unclaimed \in HeldRows /\ Unclaimed.state = "none" /\ Unclaimed.intent = {}
      /\ Unclaimed.finish = {}
  BY DEF Unclaimed, HeldRows, HeldStates
<1>4. AttemptIsWhole(1, Unclaimed, written.receipts, steward)
      /\ \A a : AttemptIsWhole(a, Unclaimed, written.receipts, steward)
  BY <1>3 DEF AttemptIsWhole
<1>5. written \in WrittenRows /\ \A o \in 1..2 : written.receipts[o] = {}
  BY AccessAssumption DEF AccessInit, WrittenRows, Receipts
<1>6. AccessTyped
  BY <1>1, <1>3, <1>5, AccessAssumption DEF AccessInit, AccessTyped
<1>7. ReceiptsAreMet(held, written.receipts)  BY <1>5 DEF ReceiptsAreMet
<1> QED BY <1>2, <1>4, <1>6, <1>7 DEF AccessIsWhole, AccessInit

LEMMA AccessHolds == AccessIsWhole => SubmissionsAreWhole
<1> SUFFICES ASSUME AccessIsWhole PROVE SubmissionsAreWhole  OBVIOUS
<1>1. AccessTypeOK
  BY AccessRows DEF AccessTypeOK, HeldRows, HeldStates, WrittenRows, Receipts, Calls, Steps,
                    Answers, Intents
<1>2. ASSUME NEW a \in Holding
      PROVE  /\ \A i \in held[a].intent : [of |-> a, commit |-> i.commit] \in written.receipts[i.op]
             /\ ~steward => /\ \A i \in held[a].intent : held[a].ref = {i.commit}
                            /\ \A f \in held[a].finish :
                                 \E i \in held[a].intent : i.commit = f.commit
             /\ held[a].state = "succeeded" /\ ~steward =>
                  \E f \in held[a].finish : f.outcome = "success" /\ f.commit \notin Unproven
  BY AccessRows DEF AttemptIsWhole
<1>3. ASSUME NEW s \in Submitter
      PROVE  LET a == submission[s].of IN
             /\ submission[s].told = "finished" =>
                  [outcome |-> "success", commit |-> submission[s].commit] \in held[a].finish
             /\ submission[s].told = "preserved" =>
                  [outcome |-> "interrupted", commit |-> submission[s].commit] \in held[a].finish
             /\ submission[s].told = "intent" =>
                  [op |-> submission[s].op, commit |-> submission[s].commit] \in held[a].intent
  BY AccessRows DEF CallIsTrue, IntentOf
<1> QED BY <1>1, <1>2, <1>3 DEF SubmissionsAreWhole

\* However the calls of a session interleave, and whatever fence or death cuts them, what
\* is kept, intended and completed of a manual attempt is of one commit, a success was
\* proven, and a caller is told only of its own submission.
THEOREM SubmissionsWhole == AccessSpec => []SubmissionsAreWhole
BY AccessBegins, AccessStep, AccessHolds, PTL DEF AccessSpec

-----------------------------------------------------------------------------
(* ClaimRecovery.  An authorization is consumed within the operation that   *)
(* makes it; what a session holds afterwards it holds by a recovery or as   *)
(* a claimant.                                                              *)

\* The claim, an authorization, and the state of both.
Principals == {"claude", "omp"}
ClaimStates == {"none", "active", "recovery", "ended"}
Settlements == {"no", "unconfirmed", "confirmed"}
ClaimRows == [state : ClaimStates, by : Claimants, settled : Settlements, context : 0..MaxContexts]
SuccessorRows == [given : BOOLEAN, host : Host, principal : Principals,
                  context : 0..MaxContexts, consumed : 0..MaxOperations]
RecoveryTyped ==
  /\ claimed \in ClaimRows /\ successors \in [Handoff -> SuccessorRows]
  /\ recovered \subseteq Recovery /\ holders \subseteq Session
  /\ turn \in {"runs", "stray", "gone"} /\ submitters \subseteq Session

\* Who may hold the credential, and what each recovery rests on.
ClaimedBy(s, by) ==
  s = by \/ (s.host = by.host /\ s.principal = by.principal /\ by.task = 0)
Succeeds(s, rows) == \E r \in rows : r.via # 0 /\ r.host = s.host /\ r.principal = s.principal
Founded(r, claim, rows, given) ==
  /\ claim.by.task = 0 \/ claim.settled = "confirmed"
  /\ r.via = 0 => r.host = claim.by.host /\ r.principal = claim.by.principal /\ claim.by.task = 0
  /\ r.via # 0 =>
       /\ given[r.via].given /\ given[r.via].host = r.host /\ given[r.via].principal = r.principal
       /\ given[r.via].context = r.context /\ given[r.via].consumed = r.op
       /\ \A q \in rows : q.via = r.via => q = r
RecoveryHolds ==
  /\ RecoveryTyped
  /\ claimed.state = "none" =>
       holders = {} /\ recovered = {} /\ submitters = {} /\ claimed.settled = "no"
  /\ claimed.settled = "confirmed" => turn = "gone"
  /\ \A s \in holders : ClaimedBy(s, claimed.by) \/ Succeeds(s, recovered)
  /\ \A r \in recovered : Founded(r, claimed, recovered, successors)
  /\ \A s \in submitters : ClaimedBy(s, claimed.by)

LEMMA RecoveryTypes ==
  ASSUME RecoveryHolds
  PROVE  /\ claimed \in ClaimRows /\ successors \in [Handoff -> SuccessorRows]
         /\ recovered \subseteq Recovery /\ holders \subseteq Session
         /\ turn \in {"runs", "stray", "gone"} /\ submitters \subseteq Session
         /\ claimed.by \in Claimants /\ claimed.context \in 0..MaxContexts
         /\ claimed.settled \in Settlements /\ claimed.state \in ClaimStates
         /\ {MaxTurnsHome, MaxSuccessors, MaxOperations, MaxContexts} \subseteq Nat /\ Home \in Host
BY RecoveryBounds DEF RecoveryHolds, RecoveryTyped, ClaimRows

\* The claim goes on: nobody gets the credential, and no recovery is recorded.
LEMMA ClaimGoesOn ==
  ASSUME RecoveryHolds, claimed.state # "none", NEW new \in ClaimRows, claimed' = new,
         new.state # "none", new.by = claimed.by,
         new.settled = claimed.settled \/ (claimed.settled = "no" /\ new.settled # "no"),
         turn' \in {"runs", "stray", "gone"}, turn = "gone" => turn' = "gone",
         new.settled = "confirmed" => turn' = "gone" \/ claimed.settled = "confirmed",
         holders' \subseteq holders, UNCHANGED <<successors, recovered>>,
         submitters' \subseteq Session, \A s \in submitters' : ClaimedBy(s, claimed.by)
  PROVE  RecoveryHolds'
<1>1. RecoveryTyped'  BY RecoveryTypes DEF RecoveryTyped
<1>2. new.settled = "confirmed" => turn' = "gone"  BY DEF RecoveryHolds
<1>3. \A r \in recovered : Founded(r, new, recovered, successors)
  BY DEF RecoveryHolds, Founded
<1>4. \A s \in holders' : ClaimedBy(s, claimed.by) \/ Succeeds(s, recovered)
  BY DEF RecoveryHolds
<1> QED BY <1>1, <1>2, <1>3, <1>4 DEF RecoveryHolds

\* The credential comes to a session that may have it.
LEMMA HolderComes ==
  ASSUME RecoveryHolds, claimed.state # "none", UNCHANGED <<claimed, successors, recovered, turn, submitters>>,
         NEW s \in Session, holders' \subseteq holders \union {s},
         ClaimedBy(s, claimed.by) \/ Succeeds(s, recovered)
  PROVE  RecoveryHolds'
<1>1. RecoveryTyped'  BY RecoveryTypes DEF RecoveryTyped
<1> QED BY <1>1 DEF RecoveryHolds

LEMMA SessionBindKeeps ==
  ASSUME RecoveryHolds, NEW s \in Claimants, BindClaim(s) PROVE RecoveryHolds'
<1>1. /\ holders = {} /\ recovered = {} /\ submitters = {} /\ claimed.settled = "no"
      /\ UNCHANGED <<successors, recovered, turn, submitters>> /\ s \in Session
      /\ holders' \subseteq {s}
  BY DEF RecoveryHolds, BindClaim, Installs, Claimants
<1>2. PICK new \in ClaimRows : new = [claimed EXCEPT !.state = "active", !.by = s]
  BY RecoveryTypes DEF ClaimRows, ClaimStates
<1>3. claimed' = new /\ new.state = "active" /\ new.by = s /\ new.settled = "no"
  BY <1>1, <1>2, RecoveryTypes DEF BindClaim, ClaimRows
<1>4. RecoveryTyped'  BY <1>1, <1>3, RecoveryTypes DEF RecoveryTyped
<1> QED BY <1>1, <1>3, <1>4 DEF RecoveryHolds, ClaimedBy

LEMMA RetryKeeps ==
  ASSUME RecoveryHolds, NEW s \in Session, RetryClaim(s) PROVE RecoveryHolds'
<1>1. /\ claimed.state = "active" /\ s.principal = claimed.by.principal
      /\ s.host = claimed.by.host /\ claimed.by.task \in {0, s.task}
      /\ holders' = holders \union {s}
      /\ UNCHANGED <<claimed, successors, recovered, turn, submitters>>
  BY DEF RetryClaim
<1>2. claimed.by.task = s.task => s = claimed.by
  <2>1. claimed.by \in Session  BY RecoveryTypes DEF Claimants
  <2>2. \A x \in Session : x = [host |-> x.host, principal |-> x.principal, task |-> x.task]
    BY DEF Session
  <2> QED BY <1>1, <2>1, <2>2
<1>3. ClaimedBy(s, claimed.by)  BY <1>1, <1>2 DEF ClaimedBy
<1> QED BY <1>1, <1>3, HolderComes

LEMMA RecoveryReplayKeeps ==
  ASSUME RecoveryHolds, NEW s \in Session, NEW op \in OperationId, ReplayRecovery(s, op)
  PROVE  RecoveryHolds'
<1>1. PICK r \in recovered : r.host = s.host /\ r.principal = s.principal
  BY DEF ReplayRecovery, RecoveryOf
<1>2. Founded(r, claimed, recovered, successors)  BY DEF RecoveryHolds
<1>3. ClaimedBy(s, claimed.by) \/ Succeeds(s, recovered)
  BY <1>1, <1>2 DEF Founded, ClaimedBy, Succeeds
<1>4. /\ claimed.state # "none" /\ holders' \subseteq holders \union {s}
      /\ UNCHANGED <<claimed, successors, recovered, turn, submitters>>
  BY DEF ReplayRecovery
<1> QED BY <1>3, <1>4, HolderComes

\* Sessions end, and so does the turn.
LEMMA SessionsEnd ==
  ASSUME RecoveryHolds, UNCHANGED <<claimed, successors, recovered, submitters>>,
         holders' \subseteq holders, turn' \in {"runs", "stray", "gone"},
         turn = "gone" => turn' = "gone"
  PROVE  RecoveryHolds'
<1>1. RecoveryTyped'  BY RecoveryTypes DEF RecoveryTyped
<1> QED BY <1>1 DEF RecoveryHolds

LEMMA TurnsKeep ==
  ASSUME RecoveryHolds,
         TurnFails \/ TurnCompletes \/ StrayProcessEnds \/ \E h \in Host : HostRestarts(h)
  PROVE  RecoveryHolds'
<1>1. CASE TurnCompletes \/ StrayProcessEnds
  BY <1>1, SessionsEnd DEF TurnCompletes, StrayProcessEnds
<1>2. ASSUME NEW h \in Host, HostRestarts(h) PROVE RecoveryHolds'
  BY <1>2, SessionsEnd, RecoveryTypes DEF HostRestarts
<1>3. CASE TurnFails
  <2>1. /\ turn = "runs" /\ holders' \subseteq holders /\ UNCHANGED <<successors, recovered, submitters>>
        /\ turn' \in {"runs", "stray", "gone"}
    BY <1>3 DEF TurnFails
  <2>2. CASE UNCHANGED claimed
    BY <2>1, <2>2, SessionsEnd
  <2>3. CASE claimed' # claimed
    <3>1. PICK evidence \in {"confirmed", "unconfirmed"} :
            /\ Settle(evidence) /\ (evidence = "confirmed" => turn' = "gone")
      BY <1>3, <2>3 DEF TurnFails
    <3>2. /\ claimed.state # "none" /\ claimed.settled = "no"
          /\ claimed' = [claimed EXCEPT !.settled = evidence]
      BY <2>3, <3>1 DEF Settle
    <3>3. PICK new \in ClaimRows : new = [claimed EXCEPT !.settled = evidence]
      BY RecoveryTypes DEF ClaimRows, Settlements
    <3>4. new.state = claimed.state /\ new.by = claimed.by /\ new.settled = evidence
      BY <3>3, RecoveryTypes DEF ClaimRows
    <3>5. new.settled = "confirmed" => turn' = "gone" \/ claimed.settled = "confirmed"
      BY <3>1, <3>4
    <3>6. claimed' = new /\ new.state # "none" /\ new.settled # "no"  BY <3>2, <3>3, <3>4
    <3>7. submitters' \subseteq Session /\ \A s \in submitters' : ClaimedBy(s, claimed.by)
      BY <2>1, RecoveryTypes DEF RecoveryHolds
    <3> QED BY <2>1, <3>2, <3>4, <3>5, <3>6, <3>7, ClaimGoesOn
  <2> QED BY <2>2, <2>3
<1> QED BY <1>1, <1>2, <1>3

LEMMA AuthorizeKeeps == ASSUME RecoveryHolds, AuthorizeSuccessor PROVE RecoveryHolds'
<1>1. PICK e \in Handoff, h \in Host, p \in Principals :
        /\ ~successors[e].given
        /\ successors' = [successors EXCEPT ![e] =
             [given |-> TRUE, host |-> h, principal |-> p, context |-> claimed.context,
              consumed |-> 0]]
  BY DEF AuthorizeSuccessor, Principals
<1>2. PICK row \in SuccessorRows :
        row = [given |-> TRUE, host |-> h, principal |-> p, context |-> claimed.context,
               consumed |-> 0]
  <2>1. 0 \in 0..MaxOperations  BY RecoveryTypes
  <2> QED BY <2>1, RecoveryTypes DEF SuccessorRows
<1>3. /\ successors' \in [Handoff -> SuccessorRows]
      /\ \A d \in Handoff : d # e => successors'[d] = successors[d]
  BY <1>1, <1>2, RecoveryTypes
<1>4. UNCHANGED <<claimed, recovered, holders, turn, submitters>>  BY DEF AuthorizeSuccessor
<1>5. ASSUME NEW r \in recovered PROVE Founded(r, claimed, recovered, successors')
  <2>1. Founded(r, claimed, recovered, successors)  BY DEF RecoveryHolds
  <2>2. r.via # 0 => r.via \in Handoff
    <3>1. r.via \in 0..MaxSuccessors  BY RecoveryTypes DEF Recovery
    <3> QED BY <3>1, RecoveryTypes DEF Handoff
  <2>3. r.via # 0 => successors'[r.via] = successors[r.via]
    BY <1>1, <1>3, <2>1, <2>2 DEF Founded
  <2> QED BY <2>1, <2>3 DEF Founded
<1>6. RecoveryTyped'  BY <1>3, <1>4, RecoveryTypes DEF RecoveryTyped
<1> QED BY <1>4, <1>5, <1>6 DEF RecoveryHolds

LEMMA RecoverKeeps ==
  ASSUME RecoveryHolds, NEW s \in Session, NEW op \in OperationId, RecoverClaim(s, op)
  PROVE  RecoveryHolds'
<1>1. /\ claimed.state = "active" /\ (claimed.by.task = 0 \/ claimed.settled = "confirmed")
      /\ UNCHANGED <<claimed, turn, submitters>> /\ holders' \subseteq holders \union {s}
  BY DEF RecoverClaim, StopConfirmed, Installs
<1>2. s.host \in Host /\ s.principal \in Principals /\ op \in 1..MaxOperations
      /\ 0 \in 0..MaxSuccessors
  BY RecoveryTypes DEF Session, Principals, OperationId
<1>3. CASE OwnHost(s) /\ UNCHANGED successors
           /\ recovered' = recovered \union
                {[op |-> op, host |-> s.host, principal |-> s.principal,
                  context |-> claimed.context, via |-> 0]}
  <2>1. PICK r \in Recovery : r = [op |-> op, host |-> s.host, principal |-> s.principal,
                                   context |-> claimed.context, via |-> 0]
    BY <1>2, RecoveryTypes DEF Recovery, Principals, OperationId
  <2>2. r.via = 0 /\ r.host = s.host /\ r.principal = s.principal  BY <2>1
  <2>3. ClaimedBy(s, claimed.by)  BY <1>3 DEF OwnHost, ClaimedBy
  <2>4. Founded(r, claimed, recovered', successors)
    BY <1>1, <1>3, <2>2 DEF Founded, OwnHost
  <2>5. \A q \in recovered : Founded(q, claimed, recovered', successors)
    <3> TAKE q \in recovered
    <3>1. Founded(q, claimed, recovered, successors)  BY DEF RecoveryHolds
    <3> QED BY <1>3, <2>1, <2>2, <3>1 DEF Founded
  <2>6. RecoveryTyped'  BY <1>1, <1>3, <2>1, RecoveryTypes DEF RecoveryTyped
  <2>7. recovered' = recovered \union {r}  BY <1>3, <2>1
  <2>8. \A x \in holders' : ClaimedBy(x, claimed.by) \/ Succeeds(x, recovered')
    BY <1>1, <2>3, <2>7 DEF RecoveryHolds, Succeeds
  <2> QED BY <1>1, <1>3, <2>4, <2>5, <2>6, <2>7, <2>8 DEF RecoveryHolds
<1>4. ASSUME NEW e \in Entitling(s), successors[e].context = claimed.context,
             successors' = [successors EXCEPT ![e].consumed = op],
             recovered' = recovered \union
               {[op |-> op, host |-> s.host, principal |-> s.principal,
                 context |-> claimed.context, via |-> e]}
      PROVE  RecoveryHolds'
  <2>1. /\ e \in Handoff /\ successors[e].given /\ successors[e].consumed = 0
        /\ successors[e].host = s.host /\ successors[e].principal = s.principal
        /\ successors[e] \in SuccessorRows
    BY RecoveryTypes DEF Entitling
  <2>2. e \in 0..MaxSuccessors /\ e # 0 /\ op \in 0..MaxOperations /\ op # 0
    BY <1>2, <2>1, RecoveryTypes DEF Handoff
  <2>3. PICK r \in Recovery : r = [op |-> op, host |-> s.host, principal |-> s.principal,
                                   context |-> claimed.context, via |-> e]
    BY <1>2, <2>2, RecoveryTypes DEF Recovery, Principals, OperationId
  <2>4. /\ r.via = e /\ r.host = s.host /\ r.principal = s.principal /\ r.op = op
        /\ r.context = claimed.context /\ recovered' = recovered \union {r}
    BY <1>4, <2>3
  <2>5. PICK row \in SuccessorRows : row = [successors[e] EXCEPT !.consumed = op]
    BY <2>1, <2>2 DEF SuccessorRows
  <2>6. /\ row.given /\ row.host = s.host /\ row.principal = s.principal
        /\ row.context = claimed.context /\ row.consumed = op
    BY <1>4, <2>1, <2>5 DEF SuccessorRows
  <2>7. /\ successors' \in [Handoff -> SuccessorRows] /\ successors'[e] = row
        /\ \A d \in Handoff : d # e => successors'[d] = successors[d]
    BY <1>4, <2>1, <2>5, RecoveryTypes
  <2>8. ASSUME NEW q \in recovered
        PROVE  q.via # e /\ Founded(q, claimed, recovered', successors')
    <3>1. Founded(q, claimed, recovered, successors)  BY DEF RecoveryHolds
    <3>2. q.via \in 0..MaxSuccessors /\ q.op \in 1..MaxOperations
      BY RecoveryTypes DEF Recovery, OperationId
    <3>3. q.op # 0  BY <3>2, RecoveryTypes
    <3>4. q.via # e  BY <2>1, <2>2, <3>1, <3>3 DEF Founded
    <3>5. q.via # 0 => q.via \in Handoff  BY <3>2, RecoveryTypes DEF Handoff
    <3> QED BY <2>4, <2>7, <3>1, <3>4, <3>5 DEF Founded
  <2>9. Founded(r, claimed, recovered', successors')
    <3>1. \A q \in recovered' : q.via = r.via => q = r  BY <2>4, <2>8
    <3> QED BY <1>1, <2>2, <2>4, <2>6, <2>7, <3>1 DEF Founded
  <2>10. Succeeds(s, recovered')  BY <2>2, <2>4 DEF Succeeds
  <2>11. \A x \in holders' : ClaimedBy(x, claimed.by) \/ Succeeds(x, recovered')
    BY <1>1, <2>4, <2>10 DEF RecoveryHolds, Succeeds
  <2>12. RecoveryTyped'  BY <1>1, <2>4, <2>7, RecoveryTypes DEF RecoveryTyped
  <2> QED BY <1>1, <2>4, <2>8, <2>9, <2>11, <2>12 DEF RecoveryHolds
<1> QED BY <1>3, <1>4 DEF RecoverClaim

\* A delegated session never submits: of a session that does, the claim is its own.
LEMMA SubmitterClaimed ==
  ASSUME RecoveryHolds, NEW s \in holders, ~Delegated(s) PROVE ClaimedBy(s, claimed.by)
<1> SUFFICES ASSUME Succeeds(s, recovered) PROVE FALSE  BY DEF RecoveryHolds
<1>1. PICK r \in recovered : r.via # 0 /\ r.host = s.host /\ r.principal = s.principal
  BY DEF Succeeds
<1>2. Founded(r, claimed, recovered, successors)  BY DEF RecoveryHolds
<1>3. r.via \in 0..MaxSuccessors /\ r.op \in 1..MaxOperations
  BY RecoveryTypes DEF Recovery, OperationId
<1>4. r.via \in Handoff /\ r.op # 0  BY <1>1, <1>3, RecoveryTypes DEF Handoff
<1> QED BY <1>1, <1>2, <1>4 DEF Founded, Delegated

LEMMA ActsKeep ==
  ASSUME RecoveryHolds,
         \/ \E s \in Session : SubmitUnder(s) \/ CompareUnder(s) \/ CloseUnder(s)
         \/ FenceBound \/ ReconcileBound
  PROVE  RecoveryHolds'
<1>1. ASSUME NEW state \in {"ended", "recovery"}, claimed.state # "none",
             claimed' = [claimed EXCEPT !.state = state],
             UNCHANGED <<successors, recovered, holders, turn, submitters>>
      PROVE  RecoveryHolds'
  <2>1. PICK new \in ClaimRows : new = [claimed EXCEPT !.state = state]
    BY RecoveryTypes DEF ClaimRows, ClaimStates
  <2>2. new.state = state /\ new.by = claimed.by /\ new.settled = claimed.settled
    BY <2>1, RecoveryTypes DEF ClaimRows
  <2>3. /\ submitters' \subseteq Session /\ \A s \in submitters' : ClaimedBy(s, claimed.by)
        /\ new.settled = "confirmed" => turn' = "gone" \/ claimed.settled = "confirmed"
        /\ turn' \in {"runs", "stray", "gone"} /\ holders' \subseteq holders
    BY <1>1, <2>2, RecoveryTypes DEF RecoveryHolds
  <2> QED BY <1>1, <2>1, <2>2, <2>3, ClaimGoesOn
<1>2. ASSUME claimed.state = "active", claimed.context < MaxContexts,
             claimed' = [claimed EXCEPT !.context = @ + 1],
             UNCHANGED <<successors, recovered, holders, turn>>,
             submitters' \subseteq Session, \A s \in submitters' : ClaimedBy(s, claimed.by)
      PROVE  RecoveryHolds'
  <2>1. PICK context \in 0..MaxContexts : context = claimed.context + 1
    BY <1>2, RecoveryTypes
  <2>2. PICK new \in ClaimRows : new = [claimed EXCEPT !.context = context]
    BY RecoveryTypes DEF ClaimRows
  <2>3. new.state = "active" /\ new.by = claimed.by /\ new.settled = claimed.settled
    BY <1>2, <2>2, RecoveryTypes DEF ClaimRows
  <2>4. claimed' = new  BY <1>2, <2>1, <2>2
  <2>5. /\ new.settled = "confirmed" => turn' = "gone" \/ claimed.settled = "confirmed"
        /\ turn' \in {"runs", "stray", "gone"} /\ holders' \subseteq holders
    BY <1>2, <2>3, RecoveryTypes
  <2> QED BY <1>2, <2>3, <2>4, <2>5, ClaimGoesOn
<1>3. ASSUME NEW s \in Session, SubmitUnder(s) PROVE RecoveryHolds'
  <2>1. /\ claimed.state = "active" /\ claimed.context < MaxContexts /\ s \in holders
        /\ ~Delegated(s) /\ submitters' = submitters \union {s}
        /\ claimed' = [claimed EXCEPT !.context = @ + 1]
        /\ UNCHANGED <<successors, recovered, holders, turn>>
    BY <1>3 DEF SubmitUnder, Acts
  <2>2. ClaimedBy(s, claimed.by)  BY <2>1, SubmitterClaimed
  <2>3. submitters' \subseteq Session /\ \A x \in submitters' : ClaimedBy(x, claimed.by)
    BY <1>3, <2>1, <2>2, RecoveryTypes DEF RecoveryHolds
  <2> QED BY <1>2, <2>1, <2>3
<1>4. ASSUME NEW s \in Session, CompareUnder(s) PROVE RecoveryHolds'
  BY <1>2, <1>4, RecoveryTypes DEF CompareUnder, Acts, RecoveryHolds
<1>5. ASSUME NEW s \in Session, CloseUnder(s) PROVE RecoveryHolds'
  BY <1>1, <1>5 DEF CloseUnder, Acts
<1>6. CASE FenceBound \/ ReconcileBound
  BY <1>1, <1>6 DEF FenceBound, ReconcileBound, FenceOrEnd
<1> QED BY <1>3, <1>4, <1>5, <1>6

LEMMA RecoveryStarts == RecoveryInit => RecoveryHolds
<1> SUFFICES ASSUME RecoveryInit PROVE RecoveryHolds  OBVIOUS
<1>1. 0 \in 0..MaxContexts /\ 0 \in 0..MaxOperations /\ Home \in Host  BY RecoveryBounds
<1>2. (CHOOSE h \in Host : TRUE) \in Host  BY <1>1
<1>3. TurnAtHome \in Claimants  BY <1>1 DEF TurnAtHome, Claimants, Session
<1>4. claimed \in ClaimRows
  BY <1>1, <1>3 DEF RecoveryInit, ClaimRows, ClaimStates, Settlements
<1>5. successors \in [Handoff -> SuccessorRows]
  BY <1>1, <1>2 DEF RecoveryInit, SuccessorRows, Principals
<1> QED BY <1>4, <1>5 DEF RecoveryInit, RecoveryHolds, RecoveryTyped

LEMMA RecoveryGoesOn ==
  ASSUME RecoveryHolds, [RecoveryNext]_recoveryVars PROVE RecoveryHolds'
<1>1. CASE UNCHANGED recoveryVars
  BY <1>1 DEF recoveryVars, RecoveryHolds, RecoveryTyped
<1>2. CASE RecoveryNext
  BY <1>2, SessionBindKeeps, RetryKeeps, RecoveryReplayKeeps, RecoverKeeps, AuthorizeKeeps, TurnsKeep, ActsKeep
     DEF RecoveryNext
<1> QED BY <1>1, <1>2

LEMMA RecoveryMeans == ASSUME RecoveryHolds PROVE RecoveriesAreAuthorized
<1>1. RecoveryTypeOK
  BY RecoveryTypes DEF RecoveryTypeOK, SuccessorRows, ClaimRows, ClaimStates, Settlements, Principals
<1>2. \A s : ClaimedBy(s, claimed.by) => s = claimed.by \/ OwnHost(s)
  BY DEF ClaimedBy, OwnHost
<1>3. ASSUME NEW s \in holders
      PROVE  \/ s = claimed.by \/ OwnHost(s)
             \/ /\ \E r \in recovered : r.via # 0 /\ r.host = s.host /\ r.principal = s.principal
                /\ claimed.by.task # 0 => turn = "gone"
  BY <1>2 DEF RecoveryHolds, Succeeds, Founded
<1>4. ASSUME NEW r \in recovered, r.via # 0
      PROVE  /\ successors[r.via] = [given |-> TRUE, host |-> r.host, principal |-> r.principal,
                                     context |-> r.context, consumed |-> r.op]
             /\ \A q \in recovered : q.via = r.via => q = r
  <2>1. Founded(r, claimed, recovered, successors)  BY DEF RecoveryHolds
  <2>2. r.via \in 0..MaxSuccessors  BY RecoveryTypes DEF Recovery
  <2>3. r.via \in Handoff  BY <1>4, <2>2, RecoveryTypes DEF Handoff
  <2>4. successors[r.via] \in SuccessorRows  BY <2>3, RecoveryTypes
  <2>5. successors[r.via].given = TRUE  BY <1>4, <2>1, <2>4 DEF Founded, SuccessorRows
  <2> QED BY <1>4, <2>1, <2>4, <2>5 DEF Founded, SuccessorRows
<1>5. \A s \in submitters : s = claimed.by \/ OwnHost(s)  BY <1>2 DEF RecoveryHolds
<1> QED BY <1>1, <1>3, <1>4, <1>5 DEF RecoveriesAreAuthorized

\* However sessions die, retry and are succeeded, the credential is with the session that
\* claimed or with one whose own authorization was used up for the claim as the operator
\* saw it, after a turn's process is no more; and no successor submits.
THEOREM RecoveriesAuthorized == RecoverySpec => []RecoveriesAreAuthorized
<1>1. RecoveryInit => RecoveryHolds  BY RecoveryStarts
<1>2. RecoveryHolds /\ [RecoveryNext]_recoveryVars => RecoveryHolds'  BY RecoveryGoesOn
<1>3. RecoveryHolds => RecoveriesAreAuthorized  BY RecoveryMeans
<1> QED BY <1>1, <1>2, <1>3, PTL DEF RecoverySpec

-----------------------------------------------------------------------------
(* WorkAdapters.  Nothing runs before the start is recorded, and an         *)
(* execution that runs is not reaped; what is reported is written in the    *)
(* step that finds the execution stopped, so neither a late worker nor a    *)
(* late reader can change what it was earned by.                            *)

\* The rows of the attempt, of the thread, of the handle and of the execution.
AssignedRows == [actor : {"omp", "claude"}, kind : {"implement", "review", "independent"},
                 fits : BOOLEAN]
EntryRows == [state : {"reserved", "running", "ended"}, native : BOOLEAN, review : BOOLEAN,
              blocked : BOOLEAN, heartbeat : BOOLEAN]
LauncherSteps == {"idle", "captured", "blocking", "launch", "spawn", "bound", "acknowledge", "lost",
                  "poll", "observed", "raised", "cleanup", "ended", "closed", "dead"}
LauncherRows == [at : LauncherSteps, uncaptured : BOOLEAN, taken : BOOLEAN, stop : BOOLEAN]
Sections == {"identity", "workspace", "permissions", "plan", "dependencies", "submission",
             "verification", "required_read", "decisions", "blocker_history", "review"}
HandleRows == [made : BOOLEAN, native : BOOLEAN, process : BOOLEAN, failure : BOOLEAN,
               cancelled : BOOLEAN, acknowledged : BOOLEAN, killed : BOOLEAN, reaped : BOOLEAN,
               result : Reports, context : SUBSET Sections]
WorkerRows == [leader : {"none", "running", "exited"}, rest : BOOLEAN, spent : 0..Budget,
               says : Said, metered : BOOLEAN]
AdapterTyped ==
  /\ assigned \in AssignedRows /\ entry \in EntryRows /\ launcher \in LauncherRows
  /\ handle \in HandleRows /\ worker \in WorkerRows

\* Until it is launched nothing runs and nothing is reaped; what was not captured is
\* never launched, and is reported only with its blocker.
Unlaunched == {"idle", "captured", "blocking", "launch", "spawn", "bound"}
Unreaped == Unlaunched \union {"acknowledge", "lost"}
LaunchIsTrue(e, l, h, w) ==
  /\ l.at \in Unlaunched => w.leader = "none"
  /\ l.at \in Unreaped => ~h.reaped
  /\ l.at \in {"blocking", "launch", "spawn", "bound"} => h.made
  /\ l.at \in {"spawn", "bound"} => e.state # "reserved"
  /\ l.at = "idle" => ~e.native
  /\ l.at = "blocking" => l.uncaptured
  /\ l.uncaptured => /\ l.at \notin {"launch", "spawn", "bound", "acknowledge", "lost"}
                     /\ w.leader = "none" /\ ~e.native
                     /\ h.result # NoReport \/ l.at \in {"poll", "observed", "cleanup"} => e.blocked
WorkerIsTrue(e, h, w) ==
  /\ w.leader = "none" => ~w.rest /\ w.spent = 0
  /\ w.leader # "none" => e.state # "reserved" /\ h.made
  /\ h.result # NoReport => h.reaped
  /\ h.reaped => w.leader # "running" /\ ~w.rest
  /\ h.acknowledged => e.heartbeat
  /\ h.result.cost # Unknown => h.result.cost = {w.spent}
AnswerIsEarned(result, e, w) ==
  /\ e.heartbeat /\ w.metered /\ result.cost = {w.spent} /\ w.spent < Budget
  /\ result.outcome = IF w.says = "success" THEN "success" ELSE "blocked"
  /\ w.says \in {"success", "partial", "blocked"}
AnswerIsTrue(e, l, h, w) ==
  h.result.outcome \in {"success", "blocked"} /\ ~l.uncaptured => AnswerIsEarned(h.result, e, w)
Unasked(a, h) == a.kind = "independent" => "decisions" \notin h.context
AdapterHolds ==
  /\ AdapterTyped
  /\ LaunchIsTrue(entry, launcher, handle, worker) /\ WorkerIsTrue(entry, handle, worker)
  /\ AnswerIsTrue(entry, launcher, handle, worker) /\ Unasked(assigned, handle)

LEMMA AdapterRows ==
  ASSUME AdapterHolds
  PROVE  /\ assigned \in AssignedRows /\ entry \in EntryRows /\ launcher \in LauncherRows
         /\ handle \in HandleRows /\ worker \in WorkerRows
         /\ LaunchIsTrue(entry, launcher, handle, worker) /\ WorkerIsTrue(entry, handle, worker)
         /\ AnswerIsTrue(entry, launcher, handle, worker) /\ Unasked(assigned, handle)
         /\ Budget \in Nat /\ Budget # 0 /\ handle.result \in Reports
BY BudgetAssumption DEF AdapterHolds, AdapterTyped, HandleRows

LEMMA AdapterGoesOn ==
  ASSUME AdapterHolds, UNCHANGED assigned, NEW e \in EntryRows, NEW l \in LauncherRows,
         NEW h \in HandleRows, NEW w \in WorkerRows,
         entry' = e, launcher' = l, handle' = h, worker' = w,
         LaunchIsTrue(e, l, h, w), WorkerIsTrue(e, h, w), AnswerIsTrue(e, l, h, w),
         h.context = handle.context \/ Unasked(assigned, h)
  PROVE  AdapterHolds'
<1>1. Unasked(assigned, h)  BY AdapterRows DEF Unasked
<1> QED BY <1>1, AdapterRows DEF AdapterHolds, AdapterTyped

LEMMA NothingReported ==
  /\ NoReport.outcome = "none" /\ NoReport.cost = Unknown /\ NoReport \in Reports
BY DEF NoReport, Reports

LEMMA LauncherAt ==
  ASSUME launcher \in LauncherRows, NEW at \in LauncherSteps
  PROVE  /\ [launcher EXCEPT !.at = at] \in LauncherRows
         /\ [launcher EXCEPT !.at = at].at = at
         /\ [launcher EXCEPT !.at = at].uncaptured = launcher.uncaptured
BY DEF LauncherRows

\* Only the thread moves.
LEMMA LauncherMoves ==
  ASSUME AdapterHolds, UNCHANGED <<assigned, entry, handle, worker>>, NEW l \in LauncherRows,
         launcher' = l, LaunchIsTrue(entry, l, handle, worker),
         l.uncaptured = launcher.uncaptured \/ launcher.at = "idle"
  PROVE  AdapterHolds'
<1>1. launcher.at = "idle" => handle.result = NoReport
  BY AdapterRows DEF LaunchIsTrue, WorkerIsTrue, Unreaped, Unlaunched
<1>2. AnswerIsTrue(entry, l, handle, worker)
  BY <1>1, AdapterRows, NothingReported DEF AnswerIsTrue
<1> QED BY <1>2, AdapterRows, AdapterGoesOn

LEMMA ThreadMoves ==
  ASSUME AdapterHolds, UNCHANGED <<assigned, entry, handle, worker>>, NEW at \in LauncherSteps,
         launcher' = [launcher EXCEPT !.at = at],
         \/ at \in {"raised", "ended", "closed", "dead"}
         \/ launcher.at = "idle" /\ at = "captured"
         \/ launcher.at \in {"poll", "observed"} /\ at \in {"poll", "observed"}
         \/ launcher.at \in {"bound", "acknowledge"} /\ at = "lost"
  PROVE  AdapterHolds'
<1>1. PICK l \in LauncherRows : /\ l = [launcher EXCEPT !.at = at] /\ l.at = at
                                /\ l.uncaptured = launcher.uncaptured
  BY AdapterRows, LauncherAt
<1>2. LaunchIsTrue(entry, l, handle, worker)
  BY <1>1, AdapterRows DEF LaunchIsTrue, Unreaped, Unlaunched
<1> QED BY <1>1, <1>2, LauncherMoves

LEMMA ThreadKeeps ==
  ASSUME AdapterHolds,
         \/ RefusePreparation \/ NothingToPin \/ CaptureBlocked \/ PollSettled \/ PollRunning
         \/ EndUnstarted \/ StopSupervisor \/ LauncherDies
  PROVE  AdapterHolds'
<1>1. CASE CaptureBlocked
  <2>1. PICK l \in LauncherRows : l = [launcher EXCEPT !.at = "captured", !.uncaptured = TRUE]
    BY AdapterRows DEF LauncherRows, LauncherSteps
  <2>2. l.at = "captured" /\ l.uncaptured  BY <2>1, AdapterRows DEF LauncherRows
  <2>3. launcher.at = "idle" /\ launcher' = l /\ UNCHANGED <<assigned, entry, handle, worker>>
    BY <1>1, <2>1 DEF CaptureBlocked
  <2>4. LaunchIsTrue(entry, l, handle, worker)
    BY <2>2, <2>3, AdapterRows DEF LaunchIsTrue, WorkerIsTrue, Unreaped, Unlaunched
  <2> QED BY <2>3, <2>4, LauncherMoves
<1>2. CASE StopSupervisor
  <2>1. PICK l \in LauncherRows : l = [launcher EXCEPT !.stop = TRUE]
    BY AdapterRows DEF LauncherRows
  <2>2. l.at = launcher.at /\ l.uncaptured = launcher.uncaptured
    BY <2>1, AdapterRows DEF LauncherRows
  <2>3. LaunchIsTrue(entry, l, handle, worker)  BY <2>2, AdapterRows DEF LaunchIsTrue
  <2> QED BY <1>2, <2>1, <2>2, <2>3, LauncherMoves DEF StopSupervisor
<1>3. CASE LauncherDies
  BY <1>3, ThreadMoves DEF LauncherDies, LauncherSteps
<1>4. CASE RefusePreparation \/ NothingToPin \/ PollSettled \/ PollRunning \/ EndUnstarted
  BY <1>4, ThreadMoves
     DEF RefusePreparation, NothingToPin, PollSettled, PollRunning, EndUnstarted, Proceeds,
         LauncherSteps
<1> QED BY <1>1, <1>2, <1>3, <1>4

LEMMA PinKeeps == ASSUME AdapterHolds, PinSnapshot PROVE AdapterHolds'
<1>1. PICK l \in LauncherRows : /\ l = [launcher EXCEPT !.at = "captured"] /\ l.at = "captured"
                                /\ l.uncaptured = launcher.uncaptured
  BY AdapterRows, LauncherAt DEF LauncherSteps
<1>2. PICK e \in EntryRows : e = [entry EXCEPT !.review = TRUE]  BY AdapterRows DEF EntryRows
<1>3. /\ e.state = entry.state /\ e.native = entry.native /\ e.blocked = entry.blocked
      /\ e.heartbeat = entry.heartbeat
  BY <1>2, AdapterRows DEF EntryRows
<1>4. /\ launcher.at = "idle" /\ launcher' = l /\ entry' = e /\ UNCHANGED <<assigned, handle, worker>>
  BY <1>1, <1>2 DEF PinSnapshot, Proceeds
<1>5. LaunchIsTrue(e, l, handle, worker)
  BY <1>1, <1>3, <1>4, AdapterRows DEF LaunchIsTrue, Unreaped, Unlaunched
<1>6. WorkerIsTrue(e, handle, worker)  BY <1>3, AdapterRows DEF WorkerIsTrue
<1>7. AnswerIsTrue(e, l, handle, worker)
  BY <1>1, <1>3, AdapterRows DEF AnswerIsTrue, AnswerIsEarned
<1> QED BY <1>4, <1>5, <1>6, <1>7, AdapterRows, AdapterGoesOn

LEMMA MarkKeeps == ASSUME AdapterHolds, MarkAttempt PROVE AdapterHolds'
<1>1. PICK at \in {"blocking", "launch"} : /\ at = (IF launcher.uncaptured THEN "blocking" ELSE "launch")
                                           /\ launcher' = [launcher EXCEPT !.taken = TRUE, !.at = at]
  BY DEF MarkAttempt
<1>2. PICK l \in LauncherRows : l = [launcher EXCEPT !.taken = TRUE, !.at = at]
  BY AdapterRows DEF LauncherRows, LauncherSteps
<1>3. l.at = at /\ l.uncaptured = launcher.uncaptured  BY <1>2, AdapterRows DEF LauncherRows
<1>4. PICK answered \in BOOLEAN :
        handle' = [handle EXCEPT !.made = TRUE,
                                 !.context = Context(answered /\ assigned.kind = "implement")]
  BY DEF MarkAttempt
<1>5. PICK context \in SUBSET Sections :
        /\ context = Context(answered /\ assigned.kind = "implement")
        /\ assigned.kind = "independent" => "decisions" \notin context
  <2>1. Context(answered /\ assigned.kind = "implement") \in SUBSET Sections
    BY DEF Context, Sections
  <2>2. assigned.kind = "independent" =>
          "decisions" \notin Context(answered /\ assigned.kind = "implement")
    BY DEF Context
  <2> QED BY <2>1, <2>2
<1>6. PICK h \in HandleRows : h = [handle EXCEPT !.made = TRUE, !.context = context]
  BY AdapterRows DEF HandleRows
<1>7. /\ h.made /\ h.context = context /\ h.reaped = handle.reaped /\ h.result = handle.result
      /\ h.acknowledged = handle.acknowledged
  BY <1>6, AdapterRows DEF HandleRows
<1>8. launcher.at = "captured" /\ launcher' = l /\ handle' = h /\ UNCHANGED <<assigned, entry, worker>>
  BY <1>1, <1>2, <1>4, <1>5, <1>6 DEF MarkAttempt
<1>9. LaunchIsTrue(entry, l, h, worker)
  BY <1>1, <1>3, <1>7, <1>8, AdapterRows DEF LaunchIsTrue, Unreaped, Unlaunched
<1>10. WorkerIsTrue(entry, h, worker)  BY <1>7, AdapterRows DEF WorkerIsTrue
<1>11. AnswerIsTrue(entry, l, h, worker)  BY <1>3, <1>7, AdapterRows DEF AnswerIsTrue
<1>12. Unasked(assigned, h)  BY <1>5, <1>7 DEF Unasked
<1> QED BY <1>8, <1>9, <1>10, <1>11, <1>12, AdapterRows, AdapterGoesOn

LEMMA BlockKeeps == ASSUME AdapterHolds, BlockCapture PROVE AdapterHolds'
<1>1. CASE ~Admits
  BY <1>1, ThreadMoves DEF BlockCapture, LauncherSteps
<1>2. CASE Admits
  <2>1. /\ launcher.at = "blocking" /\ UNCHANGED <<assigned, worker>>
        /\ entry' = [entry EXCEPT !.blocked = TRUE]
        /\ handle' = [handle EXCEPT !.reaped = TRUE,
                                    !.result = [outcome |-> "blocked", cost |-> {0}]]
        /\ launcher' = [launcher EXCEPT !.at = "poll"]
    BY <1>2 DEF BlockCapture
  <2>2. PICK result \in Reports : result = [outcome |-> "blocked", cost |-> {0}]
    <3>1. 0 \in 0..Budget  BY AdapterRows
    <3> QED BY <3>1 DEF Reports
  <2>3. PICK h \in HandleRows : h = [handle EXCEPT !.reaped = TRUE, !.result = result]
    BY AdapterRows DEF HandleRows
  <2>4. /\ h.reaped /\ h.result = result /\ h.made = handle.made /\ h.context = handle.context
        /\ h.acknowledged = handle.acknowledged
    BY <2>3, AdapterRows DEF HandleRows
  <2>5. PICK e \in EntryRows : e = [entry EXCEPT !.blocked = TRUE]  BY AdapterRows DEF EntryRows
  <2>6. e.blocked /\ e.state = entry.state /\ e.native = entry.native /\ e.heartbeat = entry.heartbeat
    BY <2>5, AdapterRows DEF EntryRows
  <2>7. PICK l \in LauncherRows : /\ l = [launcher EXCEPT !.at = "poll"] /\ l.at = "poll"
                                  /\ l.uncaptured = launcher.uncaptured
    BY AdapterRows, LauncherAt DEF LauncherSteps
  <2>8. worker.leader = "none" /\ ~worker.rest /\ worker.spent = 0
    BY <2>1, AdapterRows DEF LaunchIsTrue, WorkerIsTrue, Unlaunched
  <2>9. LaunchIsTrue(e, l, h, worker)
    BY <2>1, <2>4, <2>6, <2>7, <2>8, AdapterRows DEF LaunchIsTrue, Unreaped, Unlaunched
  <2>10. result.cost = {worker.spent}  BY <2>2, <2>8
  <2>11. WorkerIsTrue(e, h, worker)
    BY <2>4, <2>6, <2>8, <2>10, AdapterRows DEF WorkerIsTrue
  <2>12. l.uncaptured  BY <2>1, <2>7, AdapterRows DEF LaunchIsTrue
  <2>13. AnswerIsTrue(e, l, h, worker)  BY <2>12 DEF AnswerIsTrue
  <2>14. entry' = e /\ launcher' = l /\ handle' = h /\ worker' = worker /\ assigned' = assigned
    BY <2>1, <2>2, <2>3, <2>5, <2>7
  <2> QED BY <2>4, <2>9, <2>11, <2>13, <2>14, AdapterRows, AdapterGoesOn
<1> QED BY <1>1, <1>2

\* What is left of an execution once it was stopped.
LEMMA TornDownWorker ==
  ASSUME worker \in WorkerRows
  PROVE  /\ TornDown(worker) \in WorkerRows
         /\ TornDown(worker).leader = (IF worker.leader = "none" THEN "none" ELSE "exited")
         /\ ~TornDown(worker).rest /\ TornDown(worker).spent = worker.spent
         /\ TornDown(worker).says = worker.says /\ TornDown(worker).metered = worker.metered
<1>1. PICK left \in {"none", "running", "exited"} :
        left = IF worker.leader = "none" THEN "none" ELSE "exited"
  OBVIOUS
<1>2. TornDown(worker) = [worker EXCEPT !.leader = left, !.rest = FALSE]  BY <1>1 DEF TornDown
<1>3. [worker EXCEPT !.leader = left, !.rest = FALSE] \in WorkerRows  BY <1>1 DEF WorkerRows
<1>4. /\ TornDown(worker).leader = left /\ TornDown(worker).rest = FALSE
      /\ TornDown(worker).spent = worker.spent /\ TornDown(worker).says = worker.says
      /\ TornDown(worker).metered = worker.metered
  BY <1>2 DEF WorkerRows
<1> QED BY <1>1, <1>2, <1>3, <1>4

\* A confirmed stop, which settles the handle with what may be told.
LEMMA ReapedHolds ==
  ASSUME AdapterHolds, UNCHANGED <<assigned, entry>>, NEW l \in LauncherRows, launcher' = l,
         NEW base \in HandleRows, Reaped(base),
         base.made = handle.made, base.acknowledged = handle.acknowledged,
         base.context = handle.context,
         l.uncaptured = launcher.uncaptured, l.at \notin Unreaped,
         l.uncaptured /\ (base.result # NoReport \/ l.at \in {"poll", "observed", "cleanup"})
           => entry.blocked,
         base.result.cost # Unknown => base.result.cost = {worker.spent},
         base.result.outcome \in {"success", "blocked"} /\ ~launcher.uncaptured
           => AnswerIsEarned(base.result, entry, worker)
  PROVE  AdapterHolds'
<1>1. PICK killed \in BOOLEAN : handle' = [base EXCEPT !.reaped = TRUE, !.killed = killed]
  BY DEF Reaped
<1>2. PICK h \in HandleRows : h = [base EXCEPT !.reaped = TRUE, !.killed = killed]
  BY DEF HandleRows
<1>3. /\ h.reaped /\ h.made = handle.made /\ h.acknowledged = handle.acknowledged
      /\ h.context = handle.context /\ h.result = base.result
  BY <1>2 DEF HandleRows
<1>4. PICK w \in WorkerRows :
        /\ worker' = w /\ w.leader # "running" /\ ~w.rest /\ w.spent = worker.spent
        /\ w.says = worker.says /\ w.metered = worker.metered
        /\ w.leader = "none" <=> worker.leader = "none"
  <2>1. CASE handle.reaped
    <3>1. worker' = worker  BY <2>1 DEF Reaped
    <3>2. worker.leader # "running" /\ ~worker.rest  BY <2>1, AdapterRows DEF WorkerIsTrue
    <3> QED BY <3>1, <3>2, AdapterRows
  <2>2. CASE ~handle.reaped
    <3>1. worker' = TornDown(worker)  BY <2>2 DEF Reaped
    <3> QED BY <3>1, AdapterRows, TornDownWorker
  <2> QED BY <2>1, <2>2
<1>5. LaunchIsTrue(entry, l, h, w)
  BY <1>3, <1>4, AdapterRows DEF LaunchIsTrue, Unreaped, Unlaunched
<1>6. WorkerIsTrue(entry, h, w)
  BY <1>3, <1>4, AdapterRows DEF WorkerIsTrue
<1>7. AnswerIsTrue(entry, l, h, w)
  BY <1>3, <1>4, AdapterRows DEF AnswerIsTrue, AnswerIsEarned
<1> QED BY <1>1, <1>2, <1>3, <1>4, <1>5, <1>6, <1>7, AdapterRows, AdapterGoesOn

\* A stop that is not confirmed reports nothing.
LEMMA ReapFailsHolds ==
  ASSUME AdapterHolds, UNCHANGED <<assigned, entry>>, NEW l \in LauncherRows, launcher' = l,
         ReapFails, l.uncaptured = launcher.uncaptured, l.at \notin Unreaped,
         l.uncaptured /\ l.at \in {"poll", "observed", "cleanup"} => entry.blocked
  PROVE  AdapterHolds'
<1>1. PICK killed \in BOOLEAN : handle' = [handle EXCEPT !.killed = killed]
  BY AdapterRows DEF ReapFails, HandleRows
<1>2. PICK h \in HandleRows : h = [handle EXCEPT !.killed = killed]
  BY AdapterRows DEF HandleRows
<1>3. /\ h.reaped = handle.reaped /\ h.made = handle.made
      /\ h.acknowledged = handle.acknowledged /\ h.context = handle.context
      /\ h.result = handle.result
  BY <1>2, AdapterRows DEF HandleRows
<1>4. ~handle.reaped /\ handle.result = NoReport  BY AdapterRows DEF ReapFails, WorkerIsTrue
<1>5. PICK w \in WorkerRows :
        /\ worker' = w /\ w.spent = worker.spent /\ (w.rest => worker.rest)
        /\ w.leader = "none" <=> worker.leader = "none"
  <2>1. CASE Omp
    <3>1. worker' = worker  BY <2>1 DEF ReapFails
    <3> QED BY <3>1, AdapterRows
  <2>2. CASE ~Omp
    <3>1. worker' = TornDown(worker)  BY <2>2 DEF ReapFails
    <3> QED BY <3>1, AdapterRows, TornDownWorker
  <2> QED BY <2>1, <2>2
<1>6. LaunchIsTrue(entry, l, h, w)
  BY <1>3, <1>4, <1>5, AdapterRows DEF LaunchIsTrue, Unreaped, Unlaunched
<1>7. WorkerIsTrue(entry, h, w)
  BY <1>3, <1>4, <1>5, AdapterRows, NothingReported DEF WorkerIsTrue
<1>8. AnswerIsTrue(entry, l, h, w)
  BY <1>3, <1>4, NothingReported DEF AnswerIsTrue
<1> QED BY <1>1, <1>2, <1>3, <1>5, <1>6, <1>7, <1>8, AdapterRows, AdapterGoesOn

LEMMA CancelKeeps ==
  ASSUME AdapterHolds, StopLost \/ CancelExecution \/ CloseAdapter PROVE AdapterHolds'
<1>1. CASE StopLost
  <2>1. PICK l \in LauncherRows : /\ l = [launcher EXCEPT !.at = "raised"] /\ l.at = "raised"
                                  /\ l.uncaptured = launcher.uncaptured
    BY AdapterRows, LauncherAt DEF LauncherSteps
  <2>2. /\ launcher.at = "lost" /\ launcher' = l /\ UNCHANGED <<assigned, entry>>
    BY <1>1, <2>1 DEF StopLost
  <2>3. ~handle.reaped /\ handle.result = NoReport /\ ~launcher.uncaptured
    BY <2>2, AdapterRows DEF LaunchIsTrue, WorkerIsTrue, Unreaped
  <2>4. PICK base \in HandleRows :
          base = [handle EXCEPT !.native = entry.native, !.cancelled = entry.native]
    BY AdapterRows DEF HandleRows, EntryRows
  <2>5. /\ base.made = handle.made /\ base.acknowledged = handle.acknowledged
        /\ base.context = handle.context /\ base.result = handle.result
    BY <2>4, AdapterRows DEF HandleRows
  <2>6. CASE Reaped(base)
    <3>1. base.result = NoReport /\ base.result.cost = Unknown /\ base.result.outcome = "none"
      BY <2>3, <2>5, NothingReported
    <3>2. l.at \notin Unreaped /\ ~l.uncaptured  BY <2>1, <2>3 DEF Unreaped, Unlaunched
    <3> QED BY <2>1, <2>2, <2>5, <2>6, <3>1, <3>2, ReapedHolds
  <2>7. CASE UNCHANGED worker /\ handle' = [handle EXCEPT !.native = entry.native]
    <3>1. PICK h \in HandleRows : h = [handle EXCEPT !.native = entry.native]
      BY AdapterRows DEF HandleRows, EntryRows
    <3>2. /\ h.made = handle.made /\ h.acknowledged = handle.acknowledged
          /\ h.context = handle.context /\ h.result = handle.result /\ h.reaped = handle.reaped
      BY <3>1, AdapterRows DEF HandleRows
    <3>3. LaunchIsTrue(entry, l, h, worker)
      BY <2>1, <2>2, <2>3, <3>2 DEF LaunchIsTrue, Unreaped, Unlaunched
    <3>4. WorkerIsTrue(entry, h, worker)  BY <3>2, AdapterRows DEF WorkerIsTrue
    <3>5. AnswerIsTrue(entry, l, h, worker)
      BY <2>3, <3>2, NothingReported DEF AnswerIsTrue
    <3>6. handle' = h /\ worker' = worker /\ entry' = entry /\ assigned' = assigned
      BY <2>2, <2>7, <3>1
    <3> QED BY <2>2, <3>2, <3>3, <3>4, <3>5, <3>6, AdapterRows, AdapterGoesOn
  <2> QED BY <1>1, <2>4, <2>6, <2>7 DEF StopLost
<1>2. ASSUME CancelExecution \/ (CloseAdapter /\ handle.made) PROVE AdapterHolds'
  <2>1. PICK at \in {"poll", "cleanup", "closed"} :
          /\ launcher' = [launcher EXCEPT !.at = at]
          /\ at = "closed" \/ (launcher.at = "poll" /\ at \in {"poll", "cleanup"})
          /\ Reaped([handle EXCEPT !.cancelled = TRUE]) \/ ReapFails
    <3>1. CASE CancelExecution
      <4>1. CASE launcher' = launcher
        <5>1. launcher = [launcher EXCEPT !.at = "poll"]
          BY <3>1, AdapterRows DEF CancelExecution, LauncherRows
        <5> QED BY <3>1, <4>1, <5>1 DEF CancelExecution
      <4>2. CASE launcher' # launcher
        BY <3>1, <4>2 DEF CancelExecution
      <4> QED BY <4>1, <4>2
    <3>2. CASE CloseAdapter /\ handle.made
      BY <3>2 DEF CloseAdapter, Proceeds
    <3> QED BY <1>2, <3>1, <3>2
  <2>2. PICK l \in LauncherRows : /\ l = [launcher EXCEPT !.at = at] /\ l.at = at
                                  /\ l.uncaptured = launcher.uncaptured
    BY <2>1, AdapterRows, LauncherAt DEF LauncherSteps
  <2>3. UNCHANGED <<assigned, entry>> /\ launcher' = l
    BY <1>2, <2>1, <2>2 DEF CancelExecution, CloseAdapter
  <2>4. PICK base \in HandleRows : base = [handle EXCEPT !.cancelled = TRUE]
    BY AdapterRows DEF HandleRows
  <2>5. /\ base.made = handle.made /\ base.acknowledged = handle.acknowledged
        /\ base.context = handle.context /\ base.result = handle.result
    BY <2>4, AdapterRows DEF HandleRows
  <2>6. l.at \notin Unreaped  BY <2>1, <2>2 DEF Unreaped, Unlaunched
  <2>7. l.uncaptured /\ (base.result # NoReport \/ l.at \in {"poll", "observed", "cleanup"})
          => entry.blocked
    BY <2>1, <2>2, <2>5, AdapterRows DEF LaunchIsTrue
  <2>8. base.result.cost # Unknown => base.result.cost = {worker.spent}
    BY <2>5, AdapterRows DEF WorkerIsTrue
  <2>9. base.result.outcome \in {"success", "blocked"} /\ ~launcher.uncaptured
          => AnswerIsEarned(base.result, entry, worker)
    BY <2>5, AdapterRows DEF AnswerIsTrue
  <2>10. CASE Reaped(base)
    BY <2>2, <2>3, <2>5, <2>6, <2>7, <2>8, <2>9, <2>10, ReapedHolds
  <2>11. CASE ReapFails
    BY <2>2, <2>3, <2>6, <2>7, <2>11, ReapFailsHolds
  <2> QED BY <2>1, <2>4, <2>10, <2>11
<1>3. CASE CloseAdapter /\ ~handle.made
  BY <1>3, ThreadMoves DEF CloseAdapter, Proceeds, LauncherSteps
<1> QED BY <1>1, <1>2, <1>3

\* The start is recorded before anything runs.
LEMMA RecordStartKeeps ==
  ASSUME AdapterHolds, RecordClaudeStart \/ BindNative PROVE AdapterHolds'
<1>1. PICK at \in {"spawn", "bound", "raised", "lost"} :
        /\ launcher' = [launcher EXCEPT !.at = at]
        /\ ~Admits => at \in {"raised", "lost"}
        /\ Admits => at \in {"spawn", "bound"}
  BY DEF RecordClaudeStart, BindNative
<1>2. PICK l \in LauncherRows : /\ l = [launcher EXCEPT !.at = at] /\ l.at = at
                                /\ l.uncaptured = launcher.uncaptured
  BY <1>1, AdapterRows, LauncherAt DEF LauncherSteps
<1>3. /\ launcher.at = "launch" /\ UNCHANGED <<assigned, handle, worker>> /\ launcher' = l
  BY <1>1, <1>2 DEF RecordClaudeStart, BindNative
<1>4. /\ ~l.uncaptured /\ worker.leader = "none" /\ ~handle.reaped /\ handle.made
      /\ handle.result = NoReport
  BY <1>2, <1>3, AdapterRows DEF LaunchIsTrue, WorkerIsTrue, Unreaped, Unlaunched
<1>5. PICK e \in EntryRows : /\ entry' = e /\ e.heartbeat = entry.heartbeat
                             /\ Admits => e.state = "running"
                             /\ ~Admits => e.state = entry.state
  <2>1. CASE ~Admits
    BY <2>1, AdapterRows DEF RecordClaudeStart, BindNative
  <2>2. CASE Admits
    <3>1. entry' = [entry EXCEPT !.state = "running"] \/
          entry' = [entry EXCEPT !.state = "running", !.native = TRUE]
      BY <2>2 DEF RecordClaudeStart, BindNative
    <3> QED BY <3>1, <2>2, AdapterRows DEF EntryRows
  <2> QED BY <2>1, <2>2
<1>6. LaunchIsTrue(e, l, handle, worker)
  BY <1>1, <1>2, <1>4, <1>5 DEF LaunchIsTrue, Unreaped, Unlaunched
<1>7. WorkerIsTrue(e, handle, worker)
  BY <1>4, <1>5, AdapterRows DEF WorkerIsTrue
<1>8. AnswerIsTrue(e, l, handle, worker)
  BY <1>4, NothingReported DEF AnswerIsTrue
<1> QED BY <1>3, <1>5, <1>6, <1>7, <1>8, AdapterRows, AdapterGoesOn

LEMMA LaunchKeeps ==
  ASSUME AdapterHolds, SpawnClaude \/ RunNative \/ AcknowledgeNative PROVE AdapterHolds'
<1>1. PICK at \in {"poll", "acknowledge", "raised", "lost"} :
        launcher' = [launcher EXCEPT !.at = at]
  BY DEF SpawnClaude, RunNative, AcknowledgeNative
<1>2. PICK l \in LauncherRows : /\ l = [launcher EXCEPT !.at = at] /\ l.at = at
                                /\ l.uncaptured = launcher.uncaptured
  BY <1>1, AdapterRows, LauncherAt DEF LauncherSteps
<1>3. /\ launcher.at \in {"spawn", "bound", "acknowledge"} /\ UNCHANGED <<assigned, entry>>
      /\ launcher' = l
  BY <1>1, <1>2 DEF SpawnClaude, RunNative, AcknowledgeNative
<1>4. /\ ~l.uncaptured /\ ~handle.reaped /\ handle.result = NoReport
      /\ launcher.at \in {"spawn", "bound"} => entry.state # "reserved" /\ handle.made
  BY <1>2, <1>3, AdapterRows DEF LaunchIsTrue, WorkerIsTrue, Unreaped, Unlaunched
<1>5. PICK h \in HandleRows :
        /\ handle' = h /\ h.made = handle.made /\ h.acknowledged = handle.acknowledged
        /\ h.context = handle.context /\ h.result = handle.result /\ h.reaped = handle.reaped
  <2>1. \/ handle' = [handle EXCEPT !.process = TRUE]
        \/ handle' = [handle EXCEPT !.native = TRUE] \/ handle' = handle
    BY DEF SpawnClaude, RunNative, AcknowledgeNative
  <2> QED BY <2>1, AdapterRows DEF HandleRows
<1>6. PICK w \in WorkerRows :
        /\ worker' = w /\ w.spent = worker.spent
        /\ \/ w.leader = worker.leader /\ w.rest = worker.rest
           \/ w.leader = "running" /\ launcher.at \in {"spawn", "bound"}
  <2>1. \/ worker' = worker
        \/ /\ worker' = [worker EXCEPT !.leader = "running", !.rest = TRUE]
           /\ launcher.at \in {"spawn", "bound"}
    BY DEF SpawnClaude, RunNative, AcknowledgeNative
  <2>2. CASE worker' = worker
    BY <2>2, AdapterRows
  <2>3. CASE /\ worker' = [worker EXCEPT !.leader = "running", !.rest = TRUE]
             /\ launcher.at \in {"spawn", "bound"}
    <3>1. PICK w \in WorkerRows : w = [worker EXCEPT !.leader = "running", !.rest = TRUE]
      BY AdapterRows DEF WorkerRows
    <3>2. w.leader = "running" /\ w.spent = worker.spent  BY <3>1, AdapterRows DEF WorkerRows
    <3> QED BY <2>3, <3>1, <3>2
  <2> QED BY <2>1, <2>2, <2>3
<1>7. LaunchIsTrue(entry, l, h, w)
  BY <1>2, <1>4, <1>5 DEF LaunchIsTrue, Unreaped, Unlaunched
<1>8. WorkerIsTrue(entry, h, w)
  BY <1>4, <1>5, <1>6, AdapterRows, NothingReported DEF WorkerIsTrue
<1>9. AnswerIsTrue(entry, l, h, w)
  BY <1>4, <1>5, NothingReported DEF AnswerIsTrue
<1> QED BY <1>3, <1>5, <1>6, <1>7, <1>8, <1>9, AdapterRows, AdapterGoesOn

LEMMA ObserveKeeps == ASSUME AdapterHolds, Observe PROVE AdapterHolds'
<1>1. PICK l \in LauncherRows : /\ l = [launcher EXCEPT !.at = "observed"] /\ l.at = "observed"
                                /\ l.uncaptured = launcher.uncaptured
  BY AdapterRows, LauncherAt DEF LauncherSteps
<1>2. PICK failed \in BOOLEAN, known \in BOOLEAN :
        /\ known = (handle.acknowledged \/ entry.heartbeat)
        /\ handle' = [handle EXCEPT !.acknowledged = known, !.failure = failed]
  BY AdapterRows DEF Observe, HandleRows, EntryRows
<1>3. PICK h \in HandleRows : h = [handle EXCEPT !.acknowledged = known, !.failure = failed]
  BY AdapterRows DEF HandleRows
<1>4. /\ h.made = handle.made /\ h.acknowledged = known /\ h.context = handle.context
      /\ h.result = handle.result /\ h.reaped = handle.reaped
  BY <1>3, AdapterRows DEF HandleRows
<1>5. /\ launcher.at = "poll" /\ launcher' = l /\ handle' = h
      /\ UNCHANGED <<assigned, entry, worker>>
  BY <1>1, <1>2, <1>3 DEF Observe, Proceeds
<1>6. LaunchIsTrue(entry, l, h, worker)
  BY <1>1, <1>4, <1>5, AdapterRows DEF LaunchIsTrue, Unreaped, Unlaunched
<1>7. WorkerIsTrue(entry, h, worker)
  BY <1>2, <1>4, AdapterRows DEF WorkerIsTrue
<1>8. AnswerIsTrue(entry, l, h, worker)
  BY <1>1, <1>4, AdapterRows DEF AnswerIsTrue
<1> QED BY <1>4, <1>5, <1>6, <1>7, <1>8, AdapterRows, AdapterGoesOn

\* What of a cost may be told: nothing, or what was spent.
LEMMA CostIsTold ==
  ASSUME worker \in WorkerRows, Budget \in Nat,
         NEW outcome \in {"success", "blocked", "failed", "interrupted"},
         NEW cost \in {Unknown, Cost}
  PROVE  /\ Reported(outcome, cost) \in Reports /\ Reported(outcome, cost) # NoReport
         /\ Reported(outcome, cost).outcome = outcome /\ Reported(outcome, cost).cost = cost
         /\ cost # Unknown => cost = {worker.spent}
<1>1. worker.spent \in 0..Budget  BY DEF WorkerRows
<1>2. cost \in {Unknown, {worker.spent}}  BY DEF Cost
<1> QED BY <1>1, <1>2 DEF Reported, Reports, NoReport

\* A poll or a cleanup settles the handle with a report, or does not confirm a stop.
LEMMA PollSettles ==
  ASSUME AdapterHolds, UNCHANGED <<assigned, entry>>,
         launcher.at \in {"observed", "cleanup"}, NEW at \in {"poll", "cleanup", "ended"},
         launcher' = [launcher EXCEPT !.at = at],
         NEW cancelled \in BOOLEAN, NEW outcome \in {"success", "blocked", "failed", "interrupted"},
         NEW cost \in {Unknown, Cost},
         outcome \in {"success", "blocked"} /\ ~launcher.uncaptured
           => AnswerIsEarned(Reported(outcome, cost), entry, worker),
         \/ ReapFails
         \/ Reaped([handle EXCEPT !.cancelled = cancelled, !.result = Reported(outcome, cost)])
         \/ Reaped([handle EXCEPT !.cancelled = cancelled])
  PROVE  AdapterHolds'
<1>1. PICK l \in LauncherRows : /\ l = [launcher EXCEPT !.at = at] /\ l.at = at
                                /\ l.uncaptured = launcher.uncaptured
  BY AdapterRows, LauncherAt DEF LauncherSteps
<1>2. l.at \notin Unreaped /\ launcher' = l  BY <1>1 DEF Unreaped, Unlaunched
<1>3. l.uncaptured => entry.blocked  BY <1>1, AdapterRows DEF LaunchIsTrue
<1>4. CASE ReapFails
  BY <1>1, <1>2, <1>3, <1>4, ReapFailsHolds
<1>5. CASE Reaped([handle EXCEPT !.cancelled = cancelled, !.result = Reported(outcome, cost)])
  <2>1. PICK told \in Reports : /\ told = Reported(outcome, cost) /\ told.outcome = outcome
                                /\ told.cost # Unknown => told.cost = {worker.spent}
    BY AdapterRows, CostIsTold
  <2>2. PICK base \in HandleRows :
          base = [handle EXCEPT !.cancelled = cancelled, !.result = told]
    BY AdapterRows DEF HandleRows
  <2>3. /\ base.made = handle.made /\ base.acknowledged = handle.acknowledged
        /\ base.context = handle.context /\ base.result = told
    BY <2>2, AdapterRows DEF HandleRows
  <2>4. Reaped(base)  BY <1>5, <2>1, <2>2
  <2>5. base.result.outcome \in {"success", "blocked"} /\ ~launcher.uncaptured
          => AnswerIsEarned(base.result, entry, worker)
    BY <2>1, <2>3
  <2>6. base.result.cost # Unknown => base.result.cost = {worker.spent}  BY <2>1, <2>3
  <2> QED BY <1>1, <1>2, <1>3, <2>3, <2>4, <2>5, <2>6, ReapedHolds
<1>6. CASE Reaped([handle EXCEPT !.cancelled = cancelled])
  <2>1. PICK base \in HandleRows : base = [handle EXCEPT !.cancelled = cancelled]
    BY AdapterRows DEF HandleRows
  <2>2. /\ base.made = handle.made /\ base.acknowledged = handle.acknowledged
        /\ base.context = handle.context /\ base.result = handle.result
    BY <2>1, AdapterRows DEF HandleRows
  <2>3. base.result.cost # Unknown => base.result.cost = {worker.spent}
    BY <2>2, AdapterRows DEF WorkerIsTrue
  <2>4. base.result.outcome \in {"success", "blocked"} /\ ~launcher.uncaptured
          => AnswerIsEarned(base.result, entry, worker)
    BY <2>2, AdapterRows DEF AnswerIsTrue
  <2>5. Reaped(base)  BY <1>6, <2>1
  <2> QED BY <1>1, <1>2, <1>3, <2>2, <2>3, <2>4, <2>5, ReapedHolds
<1> QED BY <1>4, <1>5, <1>6

LEMMA InterruptKeeps == ASSUME AdapterHolds, PollInterrupted \/ Cleanup PROVE AdapterHolds'
<1> DEFINE cost == IF Omp THEN Cost ELSE Unknown
<1>1. cost \in {Unknown, Cost}  OBVIOUS
<1>2. PICK at \in {"poll", "cleanup", "ended"} : launcher' = [launcher EXCEPT !.at = at]
  BY DEF PollInterrupted, Cleanup
<1>3. launcher.at \in {"observed", "cleanup"} /\ UNCHANGED <<assigned, entry>>
  BY DEF PollInterrupted, Cleanup
<1>4. \/ ReapFails
      \/ Reaped([handle EXCEPT !.cancelled = TRUE, !.result = Reported("interrupted", cost)])
      \/ Reaped([handle EXCEPT !.cancelled = TRUE])
  <2>1. CASE PollInterrupted
    BY <2>1 DEF PollInterrupted
  <2>2. CASE Cleanup /\ handle.result = NoReport
    <3>1. \/ ReapFails
          \/ Reaped([handle EXCEPT !.cancelled = TRUE,
               !.result = IF @ # NoReport THEN @ ELSE Reported("interrupted", cost)])
      BY <2>2 DEF Cleanup
    <3>2. [handle EXCEPT !.cancelled = TRUE,
             !.result = IF @ # NoReport THEN @ ELSE Reported("interrupted", cost)]
          = [handle EXCEPT !.cancelled = TRUE, !.result = Reported("interrupted", cost)]
      BY <2>2
    <3> QED BY <3>1, <3>2
  <2>3. CASE Cleanup /\ handle.result # NoReport
    <3>1. \/ ReapFails
          \/ Reaped([handle EXCEPT !.cancelled = TRUE,
               !.result = IF @ # NoReport THEN @ ELSE Reported("interrupted", cost)])
      BY <2>3 DEF Cleanup
    <3>2. [handle EXCEPT !.cancelled = TRUE,
             !.result = IF @ # NoReport THEN @ ELSE Reported("interrupted", cost)]
          = [handle EXCEPT !.cancelled = TRUE]
      BY <2>3, AdapterRows, ZenonT(60) DEF HandleRows
    <3> QED BY <3>1, <3>2
  <2> QED BY <2>1, <2>2, <2>3
<1> HIDE DEF cost
<1>5. "interrupted" \in {"success", "blocked", "failed", "interrupted"}
      /\ "interrupted" \notin {"success", "blocked"} /\ TRUE \in BOOLEAN
  OBVIOUS
<1> QED BY <1>1, <1>2, <1>3, <1>4, <1>5, PollSettles, ZenonT(60)

\* A verdict that is the worker's own is of what it said and spent.
LEMMA EndedKeeps == ASSUME AdapterHolds, PollEnded PROVE AdapterHolds'
<1>1. PICK outcome \in {"success", "blocked", "failed", "interrupted"} :
        /\ ReportOf = Reported(outcome, Cost)
        /\ outcome \in {"success", "blocked"} =>
             /\ handle.acknowledged /\ worker.says \notin {"failed", "garbage"}
             /\ worker.metered /\ (Omp \/ ~(worker.spent >= Budget))
             /\ outcome = IF worker.says = "success" THEN "success" ELSE "blocked"
  <2>1. CASE handle.failure \/ ~handle.acknowledged \/ worker.says \in {"failed", "garbage"}
    BY <2>1 DEF ReportOf
  <2>2. CASE /\ ~(handle.failure \/ ~handle.acknowledged \/ worker.says \in {"failed", "garbage"})
             /\ ~worker.metered \/ (~Omp /\ worker.spent >= Budget)
    BY <2>2 DEF ReportOf
  <2>3. CASE /\ ~(handle.failure \/ ~handle.acknowledged \/ worker.says \in {"failed", "garbage"})
             /\ ~(~worker.metered \/ (~Omp /\ worker.spent >= Budget))
    <3>1. PICK outcome \in {"success", "blocked"} :
            outcome = IF worker.says = "success" THEN "success" ELSE "blocked"
      OBVIOUS
    <3>2. ReportOf = Reported(outcome, Cost)  BY <2>3, <3>1 DEF ReportOf
    <3> QED BY <2>3, <3>1, <3>2
  <2> QED BY <2>1, <2>2, <2>3
<1>2. worker.spent \in 0..Budget /\ worker.metered \in BOOLEAN /\ worker.says \in Said
  BY AdapterRows DEF WorkerRows
<1>3. ASSUME outcome \in {"success", "blocked"}
      PROVE  AnswerIsEarned(Reported(outcome, Cost), entry, worker)
  <2>1. worker.metered /\ Cost = {worker.spent}  BY <1>1, <1>3 DEF Cost
  <2>2. Omp /\ worker.spent > 0 => ~(worker.spent >= Budget)
    BY <1>1, <1>3 DEF PollEnded, PollStops, Overspent
  <2>3. worker.spent < Budget
    <3>1. CASE Omp
      BY <2>2, <3>1, <1>2, AdapterRows
    <3>2. CASE ~Omp
      BY <1>1, <1>3, <3>2, <1>2, AdapterRows
    <3> QED BY <3>1, <3>2
  <2>4. entry.heartbeat  BY <1>1, <1>3, AdapterRows DEF WorkerIsTrue
  <2>5. Reported(outcome, Cost).outcome = outcome /\ Reported(outcome, Cost).cost = Cost
    BY DEF Reported
  <2>6. worker.says \in {"success", "partial", "blocked"}  BY <1>1, <1>2, <1>3 DEF Said
  <2> QED BY <1>1, <1>3, <2>1, <2>3, <2>4, <2>5, <2>6 DEF AnswerIsEarned
<1>4. PICK at \in {"poll", "cleanup", "ended"} : launcher' = [launcher EXCEPT !.at = at]
  BY DEF PollEnded
<1>5. launcher.at = "observed" /\ UNCHANGED <<assigned, entry>>  BY DEF PollEnded
<1>6. PICK cancelled \in BOOLEAN : cancelled = handle.cancelled  BY AdapterRows DEF HandleRows
<1>7. ReapFails \/ Reaped([handle EXCEPT !.cancelled = cancelled, !.result = Reported(outcome, Cost)])
  <2>1. [handle EXCEPT !.cancelled = cancelled, !.result = Reported(outcome, Cost)]
        = [handle EXCEPT !.result = ReportOf]
    BY <1>1, <1>6, AdapterRows DEF HandleRows
  <2> QED BY <2>1 DEF PollEnded
<1>8. Cost \in {Unknown, Cost} /\ launcher.at \in {"observed", "cleanup"}  BY <1>5
<1> QED BY <1>3, <1>4, <1>5, <1>7, <1>8, PollSettles, ZenonT(60)

\* While it lives nothing is reported, and a start was recorded.
LEMMA LivingUnreported ==
  ASSUME AdapterHolds, worker.leader = "running" \/ worker.rest
  PROVE  /\ ~handle.reaped /\ handle.result = NoReport /\ worker.leader # "none"
         /\ launcher.at \notin Unlaunched /\ ~launcher.uncaptured
BY AdapterRows DEF WorkerIsTrue, LaunchIsTrue

LEMMA ExecutionMoves ==
  ASSUME AdapterHolds, worker.leader = "running" \/ worker.rest,
         UNCHANGED <<assigned, entry, launcher>>,
         NEW h \in HandleRows, handle' = h, h.made = handle.made,
         h.acknowledged = handle.acknowledged, h.context = handle.context,
         h.result = handle.result, h.reaped = handle.reaped,
         NEW w \in WorkerRows, worker' = w, w.leader # "none"
  PROVE  AdapterHolds'
<1>1. LaunchIsTrue(entry, launcher, h, w)
  BY LivingUnreported, AdapterRows DEF LaunchIsTrue, Unreaped
<1>2. WorkerIsTrue(entry, h, w)
  BY LivingUnreported, AdapterRows, NothingReported DEF WorkerIsTrue
<1>3. AnswerIsTrue(entry, launcher, h, w)
  BY LivingUnreported, NothingReported DEF AnswerIsTrue
<1> QED BY <1>1, <1>2, <1>3, AdapterRows, AdapterGoesOn

LEMMA ExecutionKeeps ==
  ASSUME AdapterHolds, Spend \/ WorkerExits \/ RestExits \/ ReaderFails PROVE AdapterHolds'
<1>1. worker.leader = "running" \/ worker.rest
  BY DEF Spend, WorkerExits, RestExits, ReaderFails
<1>2. UNCHANGED <<assigned, entry, launcher>>
  BY DEF Spend, WorkerExits, RestExits, ReaderFails
<1>3. worker.leader # "none"  BY <1>1, LivingUnreported
<1>4. CASE Spend
  <2>1. PICK spent \in 0..Budget : spent = worker.spent + 1
    <3>1. worker.spent \in 0..Budget /\ worker.spent < Budget
      BY <1>4, AdapterRows DEF Spend, WorkerRows
    <3> QED BY <3>1, AdapterRows
  <2>2. PICK metered \in BOOLEAN : worker' = [worker EXCEPT !.spent = spent, !.metered = metered]
    <3>1. PICK known \in BOOLEAN :
            worker' = [worker EXCEPT !.spent = @ + 1, !.metered = @ /\ known]
      BY <1>4 DEF Spend
    <3>2. PICK metered \in BOOLEAN : metered = (worker.metered /\ known)  OBVIOUS
    <3>3. worker' = [worker EXCEPT !.spent = spent, !.metered = metered]
      BY <2>1, <3>1, <3>2, AdapterRows DEF WorkerRows
    <3> QED BY <3>3
  <2>3. PICK w \in WorkerRows : w = [worker EXCEPT !.spent = spent, !.metered = metered]
    BY AdapterRows DEF WorkerRows
  <2>4. w.leader = worker.leader  BY <2>3, AdapterRows DEF WorkerRows
  <2>5. handle' = handle  BY <1>4 DEF Spend
  <2> QED BY <1>1, <1>2, <1>3, <2>2, <2>3, <2>4, <2>5, AdapterRows, ExecutionMoves
<1>5. CASE WorkerExits
  <2>1. PICK says \in Said : worker' = [worker EXCEPT !.leader = "exited", !.says = says]
    BY <1>5 DEF WorkerExits
  <2>2. PICK w \in WorkerRows : w = [worker EXCEPT !.leader = "exited", !.says = says]
    BY AdapterRows DEF WorkerRows
  <2>3. w.leader = "exited"  BY <2>2, AdapterRows DEF WorkerRows
  <2>4. handle' = handle  BY <1>5 DEF WorkerExits
  <2> QED BY <1>1, <1>2, <2>1, <2>2, <2>3, <2>4, AdapterRows, ExecutionMoves
<1>6. CASE RestExits
  <2>1. PICK w \in WorkerRows : w = [worker EXCEPT !.rest = FALSE]
    BY AdapterRows DEF WorkerRows
  <2>2. w.leader = worker.leader  BY <2>1, AdapterRows DEF WorkerRows
  <2>3. handle' = handle /\ worker' = w  BY <1>6, <2>1 DEF RestExits
  <2> QED BY <1>1, <1>2, <1>3, <2>2, <2>3, AdapterRows, ExecutionMoves
<1>7. CASE ReaderFails
  <2>1. PICK h \in HandleRows : h = [handle EXCEPT !.failure = TRUE, !.killed = TRUE]
    BY AdapterRows DEF HandleRows
  <2>2. /\ h.made = handle.made /\ h.acknowledged = handle.acknowledged
        /\ h.context = handle.context /\ h.result = handle.result /\ h.reaped = handle.reaped
    BY <2>1, AdapterRows DEF HandleRows
  <2>3. PICK w \in WorkerRows : w = TornDown(worker) /\ w.leader # "none"
    BY <1>3, AdapterRows, TornDownWorker
  <2>4. handle' = h /\ worker' = w  BY <1>7, <2>1, <2>3 DEF ReaderFails
  <2> QED BY <1>1, <1>2, <2>2, <2>3, <2>4, ExecutionMoves
<1> QED BY <1>4, <1>5, <1>6, <1>7

LEMMA EntryKeeps == ASSUME AdapterHolds, SendHeartbeat \/ EndEntry PROVE AdapterHolds'
<1>1. UNCHANGED <<assigned, launcher, handle, worker>>  BY DEF SendHeartbeat, EndEntry
<1>2. PICK e \in EntryRows :
        /\ entry' = e /\ e.native = entry.native /\ e.blocked = entry.blocked
        /\ entry.heartbeat => e.heartbeat
        /\ entry.state # "reserved" => e.state # "reserved"
  <2>1. CASE SendHeartbeat
    <3>1. PICK e \in EntryRows : e = [entry EXCEPT !.heartbeat = TRUE]
      BY AdapterRows DEF EntryRows
    <3>2. e.native = entry.native /\ e.blocked = entry.blocked /\ e.heartbeat /\ e.state = entry.state
      BY <3>1, AdapterRows DEF EntryRows
    <3> QED BY <2>1, <3>1, <3>2 DEF SendHeartbeat
  <2>2. CASE EndEntry
    <3>1. PICK e \in EntryRows : e = [entry EXCEPT !.state = "ended"]
      BY AdapterRows DEF EntryRows
    <3>2. /\ e.native = entry.native /\ e.blocked = entry.blocked
          /\ e.heartbeat = entry.heartbeat /\ e.state = "ended"
      BY <3>1, AdapterRows DEF EntryRows
    <3> QED BY <2>2, <3>1, <3>2 DEF EndEntry
  <2> QED BY <2>1, <2>2
<1>3. LaunchIsTrue(e, launcher, handle, worker)  BY <1>2, AdapterRows DEF LaunchIsTrue
<1>4. WorkerIsTrue(e, handle, worker)  BY <1>2, AdapterRows DEF WorkerIsTrue
<1>5. AnswerIsTrue(e, launcher, handle, worker)
  BY <1>2, AdapterRows DEF AnswerIsTrue, AnswerIsEarned
<1> QED BY <1>1, <1>2, <1>3, <1>4, <1>5, AdapterRows, AdapterGoesOn

LEMMA AdapterStart == AdapterInit => AdapterHolds
<1> SUFFICES ASSUME AdapterInit PROVE AdapterHolds
  OBVIOUS
<1>1. Budget \in Nat /\ 0 \in 0..Budget  BY BudgetAssumption
<1>2. AdapterTyped
  <2>1. assigned \in AssignedRows /\ entry \in EntryRows /\ launcher \in LauncherRows
    BY DEF AdapterInit, AssignedRows, EntryRows, LauncherRows, LauncherSteps
  <2>2. handle \in HandleRows  BY NothingReported DEF AdapterInit, HandleRows
  <2>3. worker \in WorkerRows  BY <1>1 DEF AdapterInit, WorkerRows, Said
  <2> QED BY <2>1, <2>2, <2>3 DEF AdapterTyped
<1>3. LaunchIsTrue(entry, launcher, handle, worker) /\ WorkerIsTrue(entry, handle, worker)
  BY NothingReported DEF AdapterInit, LaunchIsTrue, WorkerIsTrue, Unlaunched, Unreaped
<1>4. AnswerIsTrue(entry, launcher, handle, worker) /\ Unasked(assigned, handle)
  BY NothingReported DEF AdapterInit, AnswerIsTrue, Unasked
<1> QED BY <1>2, <1>3, <1>4 DEF AdapterHolds

LEMMA AdapterSteps == ASSUME AdapterHolds, [AdapterNext]_adapterVars PROVE AdapterHolds'
<1>1. CASE UNCHANGED adapterVars
  BY <1>1 DEF adapterVars, AdapterHolds, AdapterTyped
<1>2. CASE PinSnapshot \/ MarkAttempt \/ BlockCapture \/ Observe \/ PollEnded
  BY <1>2, PinKeeps, MarkKeeps, BlockKeeps, ObserveKeeps, EndedKeeps
<1>3. CASE \/ RefusePreparation \/ NothingToPin \/ CaptureBlocked \/ PollSettled \/ PollRunning
           \/ EndUnstarted \/ StopSupervisor \/ LauncherDies
  BY <1>3, ThreadKeeps
<1>4. CASE RecordClaudeStart \/ BindNative
  BY <1>4, RecordStartKeeps
<1>5. CASE SpawnClaude \/ RunNative \/ AcknowledgeNative
  BY <1>5, LaunchKeeps
<1>6. CASE StopLost \/ CancelExecution \/ CloseAdapter
  BY <1>6, CancelKeeps
<1>7. CASE PollInterrupted \/ Cleanup
  BY <1>7, InterruptKeeps
<1>8. CASE SendHeartbeat \/ EndEntry
  BY <1>8, EntryKeeps
<1>9. CASE Spend \/ WorkerExits \/ RestExits \/ ReaderFails
  BY <1>9, ExecutionKeeps
<1> QED BY <1>1, <1>2, <1>3, <1>4, <1>5, <1>6, <1>7, <1>8, <1>9 DEF AdapterNext

LEMMA AdapterEarns == AdapterHolds => ReportsAreEarned
<1> SUFFICES ASSUME AdapterHolds PROVE ReportsAreEarned
  OBVIOUS
<1>1. AdapterTypeOK
  BY AdapterRows DEF AdapterTypeOK, AssignedRows, EntryRows, LauncherRows, LauncherSteps,
     HandleRows, WorkerRows
<1>2. handle.result # NoReport \/ handle.reaped => ~Lives
  BY AdapterRows DEF WorkerIsTrue, Lives
<1>3. WorkerAnswered =>
        /\ entry.heartbeat /\ worker.metered
        /\ handle.result.cost = {worker.spent} /\ worker.spent < Budget
        /\ handle.result.outcome = IF worker.says = "success" THEN "success" ELSE "blocked"
        /\ worker.says \in {"success", "partial", "blocked"}
  BY AdapterRows DEF WorkerAnswered, AnswerIsTrue, AnswerIsEarned
<1>4. handle.result.cost # Unknown => handle.result.cost = {worker.spent}
  BY AdapterRows DEF WorkerIsTrue
<1>5. launcher.uncaptured /\ handle.result # NoReport =>
        worker.leader = "none" /\ entry.blocked /\ ~entry.native
  BY AdapterRows DEF LaunchIsTrue
<1>6. Lives => entry.state # "reserved" /\ handle.made
  BY AdapterRows DEF WorkerIsTrue, Lives
<1>7. Independent => "decisions" \notin handle.context
  BY AdapterRows DEF Unasked, Independent
<1> QED BY <1>1, <1>2, <1>3, <1>4, <1>5, <1>6, <1>7 DEF ReportsAreEarned

\* Whatever is reported of an execution is earned: work_adapters, for every budget.
THEOREM ReportsEarned == AdapterSpec => []ReportsAreEarned
<1> QED BY AdapterStart, AdapterSteps, AdapterEarns, PTL DEF AdapterSpec
=============================================================================
