----------------------------- MODULE PartsProofs -----------------------------
(***************************************************************************)
(* Proofs about components that share no state: the claims on a result,    *)
(* the questions a brief answers, the journal of a model routing, the      *)
(* ceiling on admitted execution, the working copies of steps and their    *)
(* application, the guard over a waiting client and the outbox of its      *)
(* events.  Each has an inductive invariant of its own.                    *)
(***************************************************************************)
EXTENDS ResultReceipts, BriefDecisions, ModelRouting, AutomationBudget, WorkWorkspace,
        Watchdog, EventOutbox, WorkApplication, FiniteSetTheorems, TLAPS

-----------------------------------------------------------------------------
(* ResultReceipts.  A result is claimed once, by one client; only that     *)
(* client may apply it, and only until it forgets its token.               *)

\* Who may apply, or has applied, the result, and what the claim says of it.
ClaimIsOne ==
  /\ result = "active" => receipt.state = "none"
  /\ receipt.state = "none" => effects = 0 /\ \A a \in Applier : applier[a] = "idle"
  /\ \A a, b \in Applier : applier[a] # "idle" /\ applier[b] # "idle" => a = b
  /\ \A a \in Applier : applier[a] = "authorized" => effects = 0
  /\ \A a \in Applier : applier[a] = "applied" => effects = 1
  /\ receipt.state = "completed" => effects = 1
  /\ effects <= 1

\* Every step of a client, and the end of the task, keeps the claim one.
LEMMA ClaimStaysOne ==
  ASSUME ResultTypeOK, ClaimIsOne, [ResultNext]_receiptVars
  PROVE  ResultTypeOK' /\ ClaimIsOne'
<1> USE NamesAssumption DEF ResultTypeOK, ClaimIsOne
<1>1. CASE EndResult
  BY <1>1 DEF EndResult
<1>2. ASSUME NEW a \in Applier, ClaimResult(a)
      PROVE  ResultTypeOK' /\ ClaimIsOne'
  <2>1. receipt' = [state |-> "claimed", owner |-> NameOf(a)] /\ NameOf(a) \subseteq Applier
    BY <1>2 DEF ClaimResult, NameOf
  <2> QED
    BY <1>2, <2>1 DEF ClaimResult, Claimable
<1>3. ASSUME NEW a \in Applier, ApplyResult(a)
      PROVE  ResultTypeOK' /\ ClaimIsOne'
  BY <1>3 DEF ApplyResult
<1>4. ASSUME NEW a \in Applier, CompleteReceipt(a)
      PROVE  ResultTypeOK' /\ ClaimIsOne'
  BY <1>4 DEF CompleteReceipt
<1>5. ASSUME NEW a \in Applier, ForgetToken(a)
      PROVE  ResultTypeOK' /\ ClaimIsOne'
  BY <1>5 DEF ForgetToken
<1>6. CASE UNCHANGED receiptVars
  BY <1>6 DEF receiptVars
<1> QED
  BY <1>1, <1>2, <1>3, <1>4, <1>5, <1>6 DEF ResultNext

\* A result is applied at most once, whoever asks for it again, and the view of its
\* receipt never says otherwise.
THEOREM EffectsOnce == ResultSpec => []EffectsAreAuthorizedOnce
<1>1. ResultInit => ResultTypeOK /\ ClaimIsOne
  BY DEF ResultInit, ResultTypeOK, ClaimIsOne
<1>2. ResultTypeOK /\ ClaimIsOne => EffectsAreAuthorizedOnce
  BY DEF ResultTypeOK, ClaimIsOne, EffectsAreAuthorizedOnce, ReceiptView
<1> QED
  BY <1>1, <1>2, ClaimStaysOne, PTL DEF ResultSpec

-----------------------------------------------------------------------------
(* BriefDecisions.  What a decision records and what became of the         *)
(* question agree, and a decision rests on the consultation that was       *)
(* prepared under the policy, neither of which changes afterwards.         *)

NeedsNobody == {"derivable", "not_established"}

\* How often and by whom the question was closed, and what the decision says of that.
ClosedOnce ==
  /\ asking.answers = IF asking.question \in {"answered", "unresolved"} THEN 1 ELSE 0
  /\ asking.source = "nobody" <=> asking.answers = 0
  /\ decision.reply \in {"accepted", "unresolved"} <=> asking.source = "brief"
  /\ decision.reply = "accepted" => asking.question = "answered"
  /\ decision.reply = "unresolved" => asking.question = "unresolved"

\* What a consultation, a recorded verdict and a reply under way rest on.
RestsOnBrief ==
  /\ consultation.state # "none" => Brief /\ ~asking.independent
  /\ decision.verdict # "none" =>
       /\ consultation.state = "completed" /\ consultation.window /\ consultation.faithful
       /\ decision.verdict \in NeedsNobody => ~consultation.risky
  /\ decision.reply # "none" => decision.verdict \in NeedsNobody
  /\ \A c \in Client : replying[c] # "idle" => decision.verdict \in NeedsNobody

Founded == ClosedOnce /\ RestsOnBrief

\* The record types of the task's question and of the consultation, and their parts.
AskStates == {"running", "waiting", "ended"}
Questions == {"none", "pending", "answered", "unresolved", "expired", "context_required"}
Sources == {"nobody", "operator", "brief"}
Counts == 0..MaxAnswers
Askings == [status : AskStates, cancel : BOOLEAN, independent : BOOLEAN, question : Questions,
            kind : Kind, shared : BOOLEAN, late : BOOLEAN, source : Sources, answers : Counts]
ConsultationStates == {"none", "prepared", "running", "completed", "failed"}
Consultations == [state : ConsultationStates, window : BOOLEAN, faithful : BOOLEAN,
                  verdict : Verdict, cited : BOOLEAN, risky : BOOLEAN]

\* The type of the question and of the consultation, in these parts.
LEMMA DecisionTypes ==
  /\ DecisionTypeOK => asking \in Askings /\ consultation \in Consultations
  /\ DecisionTypeOK /\ asking' \in Askings /\ consultation' \in Consultations
       /\ policy' = policy /\ decision'.verdict = decision.verdict
       /\ decision' \in [verdict : Verdict \union {"none"},
                        reply : {"none", "accepted", "unresolved", "refused"}]
       /\ replying' \in [Client -> {"idle", "read", "refused"}] => DecisionTypeOK'
BY DEF DecisionTypeOK, Askings, Consultations, AskStates, Questions, Sources, Counts,
       ConsultationStates

\* A question that is closed, and a consultation that ends, keep their type.
LEMMA ClosedTypes ==
  /\ asking \in Askings => \A q \in Questions, s \in AskStates, by \in Sources, n \in Counts :
       [asking EXCEPT !.question = q, !.status = s, !.source = by, !.answers = n] \in Askings
  /\ consultation \in Consultations =>
       \A state \in ConsultationStates, verdict \in Verdict, cited, risky \in BOOLEAN :
         [consultation EXCEPT !.state = state, !.verdict = verdict, !.cited = cited,
                              !.risky = risky] \in Consultations
BY DEF Askings, Consultations

\* A step that only moves the task on, and leaves what closed the question alone.
LEMMA AskingMoves ==
  ASSUME DecisionTypeOK, Founded, UNCHANGED <<policy, consultation, decision, replying>>,
         asking' \in Askings, asking'.kind = asking.kind, asking'.shared = asking.shared,
         asking'.independent = asking.independent, asking'.source = asking.source,
         asking'.answers = asking.answers,
         asking'.question = asking.question
           \/ (asking.question \notin {"answered", "unresolved"}
               /\ asking'.question \notin {"answered", "unresolved"})
  PROVE  DecisionTypeOK' /\ Founded'
<1>1. DecisionTypeOK'
  BY DEF DecisionTypeOK, Askings, AskStates, Questions, Sources, Counts
<1>2. ClosedOnce'
  BY DEF Founded, ClosedOnce
<1>3. RestsOnBrief'
  BY DEF Founded, RestsOnBrief, Brief
<1> QED
  BY <1>1, <1>2, <1>3 DEF Founded

\* The steps that only move the task on.
LEMMA AskingSteps ==
  ASSUME DecisionTypeOK, Founded,
         AskQuestion \/ ExpireQuestion \/ PassQuestionDeadline \/ CancelAsker \/ EndAsker
  PROVE  DecisionTypeOK' /\ Founded'
<1> DEFINE Open(q) == q \notin {"answered", "unresolved"}
<1>1. PICK status \in AskStates, question \in Questions, late \in BOOLEAN, cancel \in BOOLEAN :
        /\ asking' = [asking EXCEPT !.status = status, !.question = question, !.late = late,
                                    !.cancel = cancel]
        /\ question = asking.question
             \/ (Open(asking.question) /\ Open(question))
  <2>0. /\ asking.status \in AskStates /\ asking.question \in Questions
        /\ asking.late \in BOOLEAN /\ asking.cancel \in BOOLEAN
        /\ asking = [asking EXCEPT !.status = asking.status, !.question = asking.question,
                                   !.late = asking.late, !.cancel = asking.cancel]
    BY DEF DecisionTypeOK, AskStates, Questions
  <2> DEFINE MovedOn(status, question, late, cancel) ==
               [asking EXCEPT !.status = status, !.question = question, !.late = late,
                              !.cancel = cancel]
  <2>1. CASE AskQuestion /\ asking.independent
    <3>1. asking' = MovedOn(asking.status, "context_required", asking.late, asking.cancel)
      BY <2>0, <2>1 DEF AskQuestion
    <3>2. Open("context_required") /\ "context_required" \in Questions /\ Open(asking.question)
      BY <2>1 DEF Questions, AskQuestion
    <3> HIDE DEF Open
    <3> QED
      BY <2>0, <3>1, <3>2
  <2>2. CASE AskQuestion /\ ~asking.independent
    <3>1. asking' = MovedOn("waiting", "pending", asking.late, asking.cancel)
      BY <2>0, <2>2 DEF AskQuestion
    <3>2. Open("pending") /\ "pending" \in Questions /\ "waiting" \in AskStates /\ Open(asking.question)
      BY <2>2 DEF Questions, AskStates, AskQuestion
    <3> HIDE DEF Open
    <3> QED
      BY <2>0, <3>1, <3>2
  <2>3. CASE ExpireQuestion
    <3>1. asking' = MovedOn("running", "expired", asking.late, asking.cancel)
      BY <2>0, <2>3 DEF ExpireQuestion
    <3>2. Open("expired") /\ "expired" \in Questions /\ "running" \in AskStates /\ Open(asking.question)
      BY <2>3 DEF Questions, AskStates, ExpireQuestion
    <3> HIDE DEF Open
    <3> QED
      BY <2>0, <3>1, <3>2
  <2>4. CASE PassQuestionDeadline
    <3>1. asking' = MovedOn(asking.status, asking.question, TRUE, asking.cancel)
      BY <2>0, <2>4 DEF PassQuestionDeadline
    <3> QED
      BY <2>0, <3>1
  <2>5. CASE CancelAsker
    <3>1. asking' = MovedOn(asking.status, asking.question, asking.late, TRUE)
      BY <2>0, <2>5 DEF CancelAsker
    <3> QED
      BY <2>0, <3>1
  <2>6. CASE EndAsker
    <3>1. asking' = MovedOn("ended", asking.question, asking.late, asking.cancel)
      BY <2>0, <2>6 DEF EndAsker
    <3>2. "ended" \in AskStates
      BY DEF AskStates
    <3> HIDE DEF Open
    <3> QED
      BY <2>0, <3>1, <3>2
  <2> QED
    BY <2>1, <2>2, <2>3, <2>4, <2>5, <2>6
<1>2. asking \in Askings /\ UNCHANGED <<policy, consultation, decision, replying>>
  BY DecisionTypes DEF AskQuestion, ExpireQuestion, PassQuestionDeadline, CancelAsker, EndAsker
<1>3. asking' \in Askings
  BY <1>1, <1>2 DEF Askings
<1>4. /\ asking'.kind = asking.kind /\ asking'.shared = asking.shared
      /\ asking'.independent = asking.independent /\ asking'.source = asking.source
      /\ asking'.answers = asking.answers /\ asking'.question = question
  BY <1>1, <1>2 DEF Askings
<1> QED
  BY <1>1, <1>2, <1>3, <1>4, AskingMoves

\* No step of the worker, the operator or a coordinator makes the two disagree.
LEMMA FoundedStays ==
  ASSUME DecisionTypeOK, Founded, [DecisionNext]_decisionVars
  PROVE  DecisionTypeOK' /\ Founded'
<1> USE DecisionBounds DEF DecisionTypeOK, Founded, ClosedOnce, RestsOnBrief, NeedsNobody, Brief,
                           Kind, Verdict
<1>1. CASE AskQuestion
  BY <1>1, AskingSteps
<1>2. CASE ExpireQuestion
  BY <1>2, AskingSteps
<1>3. CASE PassQuestionDeadline
  BY <1>3, AskingSteps
<1>4. CASE CancelAsker
  BY <1>4, AskingSteps
<1>5. CASE EndAsker
  BY <1>5, AskingSteps
<1>6. CASE SetPolicy
  BY <1>6 DEF SetPolicy
<1>7. CASE Prepare
  BY <1>7 DEF Prepare, Pending
<1>8. CASE LaunchConsultation
  <2>0. PICK window \in BOOLEAN, faithful \in BOOLEAN :
          consultation' = [consultation EXCEPT !.state = "running", !.window = window,
                                               !.faithful = faithful]
    BY <1>8 DEF LaunchConsultation
  <2>1. DecisionTypeOK'
    <3>1. consultation' \in Consultations /\ asking' \in Askings
      BY <1>8, <2>0, DecisionTypes DEF Consultations, ConsultationStates, LaunchConsultation
    <3> QED
      BY <1>8, <3>1, DecisionTypes DEF LaunchConsultation
  <2>2. ClosedOnce'
    BY <1>8 DEF LaunchConsultation
  <2>3. RestsOnBrief'
    BY <1>8 DEF LaunchConsultation
  <2> QED
    BY <2>1, <2>2, <2>3
<1>9. CASE EndConsultation
  <2>1. PICK state \in {"completed", "failed"}, verdict \in Verdict, cited \in BOOLEAN,
            risky \in BOOLEAN :
          consultation' = [consultation EXCEPT !.state = state, !.verdict = verdict,
                                               !.cited = cited, !.risky = risky]
    BY <1>9 DEF EndConsultation
  <2>2. DecisionTypeOK'
    <3>1. state \in ConsultationStates
      BY DEF ConsultationStates
    <3>2. consultation' \in Consultations /\ asking' \in Askings
      BY <1>9, <2>1, <3>1, DecisionTypes DEF EndConsultation, Consultations
    <3> QED
      BY <1>9, <3>2, DecisionTypes DEF EndConsultation
  <2>3. ClosedOnce'
    BY <1>9 DEF EndConsultation
  <2>4. RestsOnBrief'
    BY <1>9, <2>1 DEF EndConsultation
  <2> QED
    BY <2>2, <2>3, <2>4
<1>10. CASE RecordDecision
  BY <1>10 DEF RecordDecision, Recordable, Pending
<1>11. CASE OperatorReplies
  <2>1. DecisionTypeOK'
    <3>1. asking.answers + 1 = 1 /\ 1 \in 0..MaxAnswers
      BY <1>11 DEF OperatorReplies, Pending
    <3>2. asking' = [asking EXCEPT !.question = "answered", !.status = "running",
                                   !.source = "operator", !.answers = 1]
      BY <1>11, <3>1, Zenon DEF OperatorReplies
    <3>3. "answered" \in Questions /\ "running" \in AskStates /\ "operator" \in Sources
      BY DEF Questions, AskStates, Sources
    <3>4. asking' \in Askings
      BY <3>1, <3>2, <3>3, DecisionTypes, ClosedTypes, Zenon DEF Counts
    <3> QED
      BY <1>11, <3>4, DecisionTypes DEF OperatorReplies
  <2>2. ClosedOnce'
    BY <1>11 DEF OperatorReplies, Pending
  <2>3. RestsOnBrief'
    BY <1>11 DEF OperatorReplies, Pending
  <2> QED
    BY <2>1, <2>2, <2>3
<1>12. ASSUME NEW c \in Client, ReadDecision(c)
       PROVE  DecisionTypeOK' /\ Founded'
  BY <1>12 DEF ReadDecision
<1>13. ASSUME NEW c \in Client, ReplyDecision(c)
       PROVE  DecisionTypeOK' /\ Founded'
  <2>1. CASE decision.reply = "none" /\ Accepts
    <3>1. CASE decision.verdict = "not_established"
      <4>1. asking.answers + 1 = 1 /\ 1 \in 0..MaxAnswers /\ asking.status # "ended"
        BY <2>1 DEF Accepts, Pending
      <4>2. /\ asking' = [asking EXCEPT !.question = "unresolved", !.status = "running",
                                        !.source = "brief", !.answers = 1]
            /\ decision' = [decision EXCEPT !.reply = "unresolved"]
            /\ replying' = [replying EXCEPT ![c] = "idle"]
            /\ UNCHANGED <<policy, consultation>>
        BY <1>13, <2>1, <3>1, <4>1, Zenon DEF ReplyDecision
      <4>3. decision.verdict \in NeedsNobody /\ Pending
        BY <1>13, <2>1 DEF ReplyDecision, Accepts
      <4>4. DecisionTypeOK'
        <5>1. "unresolved" \in Questions /\ "running" \in AskStates /\ "brief" \in Sources
          BY DEF Questions, AskStates, Sources
        <5>2. asking' \in Askings
          BY <4>1, <4>2, <5>1, DecisionTypes, ClosedTypes, Zenon DEF Counts
        <5> QED
          BY <4>2, <5>2, DecisionTypes
      <4>5. ClosedOnce'
        BY <4>1, <4>2
      <4>6. RestsOnBrief'
        BY <4>2, <4>3 DEF Pending
      <4> QED
        BY <4>4, <4>5, <4>6
    <3>2. CASE decision.verdict # "not_established"
      <4>1. asking.answers + 1 = 1 /\ 1 \in 0..MaxAnswers /\ asking.status # "ended"
        BY <2>1 DEF Accepts, Pending
      <4>2. /\ asking' = [asking EXCEPT !.question = "answered", !.status = "running",
                                        !.source = "brief", !.answers = 1]
            /\ decision' = [decision EXCEPT !.reply = "accepted"]
            /\ replying' = [replying EXCEPT ![c] = "idle"]
            /\ UNCHANGED <<policy, consultation>>
        BY <1>13, <2>1, <3>2, <4>1, Zenon DEF ReplyDecision
      <4>3. decision.verdict \in NeedsNobody /\ Pending
        BY <1>13, <2>1 DEF ReplyDecision, Accepts
      <4>4. DecisionTypeOK'
        <5>1. "answered" \in Questions /\ "running" \in AskStates /\ "brief" \in Sources
          BY DEF Questions, AskStates, Sources
        <5>2. asking' \in Askings
          BY <4>1, <4>2, <5>1, DecisionTypes, ClosedTypes, Zenon DEF Counts
        <5> QED
          BY <4>2, <5>2, DecisionTypes
      <4>5. ClosedOnce'
        BY <4>1, <4>2
      <4>6. RestsOnBrief'
        BY <4>2, <4>3 DEF Pending
      <4> QED
        BY <4>4, <4>5, <4>6
    <3> QED
      BY <3>1, <3>2
  <2>2. CASE decision.reply = "none" /\ ~Accepts
    BY <1>13, <2>2 DEF ReplyDecision
  <2>3. CASE decision.reply # "none"
    BY <1>13, <2>3 DEF ReplyDecision
  <2> QED
    BY <2>1, <2>2, <2>3
<1>14. ASSUME NEW c \in Client, RecordRefusal(c)
       PROVE  DecisionTypeOK' /\ Founded'
  BY <1>14 DEF RecordRefusal
<1>15. CASE UNCHANGED decisionVars
  BY <1>15 DEF decisionVars
<1> QED
  BY <1>1, <1>2, <1>3, <1>4, <1>5, <1>6, <1>7, <1>8, <1>9, <1>10, <1>11, <1>12, <1>13, <1>14,
     <1>15 DEF DecisionNext

\* However many coordinators reply at once, and whatever the operator, the deadline and a
\* cancellation do meanwhile, a question is closed once, and by a brief only under its
\* policy and on the consultation that was prepared.
THEOREM BriefAnswersFounded == DecisionSpec => []BriefAnswersAreFounded
<1>1. DecisionInit => DecisionTypeOK /\ Founded
  BY DecisionBounds DEF DecisionInit, DecisionTypeOK, Founded, ClosedOnce, RestsOnBrief,
     NeedsNobody, Kind, Verdict
<1>2. DecisionTypeOK /\ Founded => BriefAnswersAreFounded
  BY DEF DecisionTypeOK, Founded, ClosedOnce, RestsOnBrief, NeedsNobody, BriefAnswersAreFounded
<1> QED
  BY <1>1, <1>2, FoundedStays, PTL DEF DecisionSpec

-----------------------------------------------------------------------------
(* ModelRouting.  Each step of the observation is taken over a row that    *)
(* says what happened before it: the reservation precedes the request.     *)

BeforeRequest == {"idle", "claimed", "probing", "stopping", "judging", "deciding"}
Answered == {"completed", "none", "unclear"}

\* What the row and the service are while the observer is at a step.
ObserverKnows ==
  /\ observer.at \in BeforeRequest => native.requests = 0 /\ ~record.reserved
  /\ observer.at \in BeforeRequest \ {"idle"} => record.state = "observing"
  /\ observer.at \in {"stopping", "judging"} =>
       observer.outcome \in {"pending", "bypassed", "unavailable"}
  /\ observer.at \in {"sending", "waiting", "closing"} =>
       record.state = "reserved" /\ record.reserved /\ record.eligible = observer.eligible
  /\ observer.at = "sending" => native.requests = 0
  /\ observer.at \in {"idle", "claimed", "probing", "stopping", "judging", "deciding", "sending",
                      "waiting"} => observer.proposed = {}
  /\ observer.at \in {"waiting", "closing"} => native.requests = 1
  /\ observer.at = "closing" =>
       /\ observer.outcome \in {"unresolved", "unavailable"} \union Answered
       /\ observer.outcome \in Answered => native.answered

\* What the row says of the request, whoever has died.
RowTells ==
  /\ native.requests <= 1 /\ (native.requests = 1 => record.reserved)
  /\ native.answered => native.requests = 1
  /\ record.state = "reserved" => record.reserved
  /\ record.state # "terminal" => record.status = "pending" /\ record.proposed = {}
  /\ record.state = "terminal" => record.status # "pending"
  /\ record.status \in Answered => record.reserved /\ native.answered
  /\ record.proposed # {} => record.status = "completed" /\ record.proposed \subseteq record.eligible

Told == ObserverKnows /\ RowTells

\* The record types of the row and of the observer, and their parts.
RowStates == {"absent", "prepared", "observing", "reserved", "terminal"}
ObserverSteps == {"idle", "claimed", "probing", "stopping", "judging", "deciding", "sending",
                  "waiting", "closing", "done", "dead"}
Outcomes == Statuses \union {"unresolved"}
Rows == [state : RowStates, status : Statuses, proposed : SUBSET Candidate,
         eligible : SUBSET Candidate, reserved : BOOLEAN]
Observers == [at : ObserverSteps, eligible : SUBSET Candidate, outcome : Outcomes,
              proposed : SUBSET Candidate, broken : BOOLEAN]
Natives == [status : {"starting", "running", "failed", "ended", "interrupted"}, cancel : BOOLEAN,
            budget : BOOLEAN, deadline : BOOLEAN, requests : 0..2, answered : BOOLEAN]

\* The type invariant in these parts, before and after a step.
LEMMA RoutingTypes ==
  /\ RoutingTypeOK <=> record \in Rows /\ observer \in Observers /\ native \in Natives
  /\ RoutingTypeOK' <=> record' \in Rows /\ observer' \in Observers /\ native' \in Natives
BY DEF RoutingTypeOK, Rows, Observers, Natives, RowStates, ObserverSteps, Outcomes

\* A step that moves the observer on keeps what it knows.
LEMMA ObserverRecord ==
  observer \in Observers => \A at \in ObserverSteps :
    LET new == [observer EXCEPT !.at = at] IN
    /\ new \in Observers
    /\ new.at = at /\ new.eligible = observer.eligible /\ new.outcome = observer.outcome
    /\ new.proposed = observer.proposed /\ new.broken = observer.broken
BY DEF Observers

\* Any outcome that may be written of what has happened keeps the row true.
LEMMA FinishTells ==
  ASSUME RoutingTypeOK, Told, native' = native,
         NEW status \in Statuses \ {"pending"}, NEW proposed \in SUBSET Candidate,
         status \in Answered => native.answered,
         Finish(status, proposed)
  PROVE  RoutingTypeOK' /\ Told'
<1>1. ASSUME NEW at \in {"dead", "done"}, observer' = [observer EXCEPT !.at = at]
      PROVE  /\ observer' \in Observers /\ observer'.at = at
             /\ observer'.eligible = observer.eligible
  BY <1>1, RoutingTypes, ObserverRecord, Zenon DEF ObserverSteps
<1>2. ASSUME UNCHANGED record, observer' = [observer EXCEPT !.at = "dead"]
      PROVE  RoutingTypeOK' /\ Told'
  <2>1. RoutingTypeOK'
    BY <1>1, <1>2, RoutingTypes
  <2> QED
    BY <1>1, <1>2, <2>1 DEF Told, ObserverKnows, RowTells, BeforeRequest, Answered
<1>3. ASSUME NEW at \in {"dead", "done"}, Finishable(status, proposed),
             record' = [record EXCEPT !.state = "terminal", !.status = status,
                                      !.proposed = proposed],
             observer' = [observer EXCEPT !.at = at]
      PROVE  RoutingTypeOK' /\ Told'
  <2>1. /\ record' \in Rows
        /\ record'.state = "terminal" /\ record'.status = status /\ record'.proposed = proposed
        /\ record'.eligible = record.eligible /\ record'.reserved = record.reserved
    <3>1. "terminal" \in RowStates /\ status \in Statuses /\ record \in Rows
      BY RoutingTypes DEF RowStates
    <3>2. LET new == [record EXCEPT !.state = "terminal", !.status = status,
                                    !.proposed = proposed] IN
          /\ new \in Rows
          /\ new.state = "terminal" /\ new.status = status /\ new.proposed = proposed
          /\ new.eligible = record.eligible /\ new.reserved = record.reserved
      BY <3>1 DEF Rows
    <3> QED
      BY <1>3, <3>2, Zenon
  <2>2. RoutingTypeOK'
    BY <1>1, <1>3, <2>1, RoutingTypes
  <2>3. ObserverKnows'
    BY <1>1, <1>3 DEF ObserverKnows, BeforeRequest, Told
  <2>4. RowTells'
    BY <2>1, <1>3 DEF Finishable, RowTells, Told, Answered, ObserverKnows
  <2> QED
    BY <2>2, <2>3, <2>4 DEF Told
<1> QED
  BY <1>2, <1>3, Zenon DEF Finish, Go

\* A step that only moves the observer on, before or after a request was made.
LEMMA ObserverMoves ==
  ASSUME RoutingTypeOK, NEW at \in ObserverSteps, Go(at)
  PROVE  /\ observer' \in Observers /\ observer'.at = at
         /\ observer'.eligible = observer.eligible /\ observer'.outcome = observer.outcome
         /\ observer'.proposed = observer.proposed
BY RoutingTypes, ObserverRecord, Zenon DEF Go

\* Each step of the observer, the service, the task and its server keeps the row true.
LEMMA ToldStays ==
  ASSUME RoutingTypeOK, Told, [RoutingNext]_routingVars
  PROVE  RoutingTypeOK' /\ Told'
<1> USE DEF Told
<1>1. CASE ClaimRouting
  <2>1. CASE record.state = "prepared"
    <3>1. record' = [record EXCEPT !.state = "observing"] /\ Go("claimed") /\ native' = native
      BY <1>1, <2>1 DEF ClaimRouting
    <3>2. "claimed" \in ObserverSteps
      BY DEF ObserverSteps
    <3> QED
      BY <1>1, <2>1, <3>1, <3>2, ObserverMoves, RoutingTypes
      DEF ClaimRouting, ObserverAt, Rows, RowStates, ObserverKnows, RowTells, BeforeRequest,
          Answered
  <2>2. CASE record.state # "prepared"
    <3>1. record' = record /\ Go("done") /\ native' = native /\ "done" \in ObserverSteps
      BY <1>1, <2>2 DEF ClaimRouting, ObserverSteps
    <3> QED
      BY <3>1, ObserverMoves, RoutingTypes
      DEF ObserverKnows, RowTells, BeforeRequest, Answered
  <2> QED
    BY <2>1, <2>2
<1>2. CASE StartProbe
  <2>1. CASE Finish("bypassed", {})
    BY <1>2, <2>1, FinishTells DEF StartProbe, Statuses, Answered
  <2>2. CASE Go("probing") /\ UNCHANGED record
    <3>1. "probing" \in ObserverSteps /\ native' = native /\ observer.at = "claimed"
      BY <1>2 DEF ObserverSteps, StartProbe, ObserverAt
    <3> QED
      BY <2>2, <3>1, ObserverMoves, RoutingTypes
      DEF ObserverKnows, RowTells, BeforeRequest, Answered
  <2> QED
    BY <1>2, <2>1, <2>2 DEF StartProbe
<1>3. CASE AskCatalog
  <2>1. PICK known \in SUBSET Candidate, outcome \in {"pending", "bypassed", "unavailable"} :
          observer' = [observer EXCEPT !.at = "stopping", !.eligible = known, !.outcome = outcome]
    <3>1. observer \in Observers
      BY RoutingTypes
    <3>2. observer.eligible \in SUBSET Candidate
          /\ observer = [observer EXCEPT !.eligible = observer.eligible]
      BY <3>1 DEF Observers
    <3>3. \A outcome \in {"bypassed", "unavailable"} :
            [observer EXCEPT !.at = "stopping", !.outcome = outcome]
              = [observer EXCEPT !.at = "stopping", !.eligible = observer.eligible,
                                 !.outcome = outcome]
      BY <3>1 DEF Observers
    <3> QED
      BY <1>3, <3>2, <3>3 DEF AskCatalog
  <2>2. observer' \in Observers /\ observer'.at = "stopping" /\ observer'.outcome = outcome
        /\ observer'.proposed = observer.proposed
    BY <2>1, RoutingTypes DEF Observers, ObserverSteps, Outcomes, Statuses
  <2> QED
    BY <1>3, <2>2, RoutingTypes, ZenonT(60)
    DEF AskCatalog, ObserverAt, ObserverKnows, RowTells, BeforeRequest, Answered
<1>4. CASE StopProbe
  <2>1. PICK failed \in BOOLEAN :
          observer' = [observer EXCEPT !.at = "judging", !.broken = failed]
    BY <1>4 DEF StopProbe
  <2>2. observer' \in Observers /\ observer'.at = "judging"
        /\ observer'.outcome = observer.outcome /\ observer'.proposed = observer.proposed
    BY <2>1, RoutingTypes DEF Observers, ObserverSteps
  <2> QED
    BY <1>4, <2>2, RoutingTypes
    DEF StopProbe, ObserverAt, ObserverKnows, RowTells, BeforeRequest, Answered
<1>5. CASE JudgeCatalog
  <2>1. ASSUME NEW status \in {"host_lifecycle_failure", "bypassed", "unavailable",
                                "no_comparison"},
               Finish(status, {})
        PROVE  RoutingTypeOK' /\ Told'
    BY <1>5, <2>1, FinishTells DEF JudgeCatalog, Statuses, Answered
  <2>2. CASE Go("deciding") /\ UNCHANGED record
    <3>1. "deciding" \in ObserverSteps /\ native' = native /\ observer.at = "judging"
      BY <1>5 DEF ObserverSteps, JudgeCatalog, ObserverAt
    <3> QED
      BY <2>2, <3>1, ObserverMoves, RoutingTypes
      DEF ObserverKnows, RowTells, BeforeRequest, Answered
  <2>3. observer.outcome \in {"pending", "bypassed", "unavailable"}
    BY <1>5 DEF JudgeCatalog, ObserverAt, ObserverKnows
  <2> QED
    BY <1>5, <2>1, <2>2, <2>3 DEF JudgeCatalog
<1>6. CASE ReserveRequest
  <2>1. ASSUME NEW status \in {"bypassed", "unavailable"}, Finish(status, {})
        PROVE  RoutingTypeOK' /\ Told'
    BY <1>6, <2>1, FinishTells DEF ReserveRequest, Statuses, Answered
  <2>2. CASE /\ record' = [record EXCEPT !.state = "reserved", !.reserved = TRUE,
                                         !.eligible = observer.eligible]
             /\ Go("sending")
    <3>1. "sending" \in ObserverSteps /\ native' = native /\ observer.at = "deciding"
          /\ record \in Rows /\ observer \in Observers
      BY <1>6, RoutingTypes DEF ObserverSteps, ReserveRequest, ObserverAt
    <3>2. record' \in Rows /\ record'.state = "reserved" /\ record'.reserved
          /\ record'.eligible = observer.eligible /\ record'.status = record.status
          /\ record'.proposed = record.proposed
      BY <2>2, <3>1 DEF Rows, RowStates, Observers
    <3> QED
      BY <2>2, <3>1, <3>2, ObserverMoves, RoutingTypes
      DEF ObserverKnows, RowTells, BeforeRequest, Answered
  <2> QED
    BY <1>6, <2>1, <2>2 DEF ReserveRequest
<1>7. CASE SendRequest
  <2>1. CASE Go("done") /\ UNCHANGED <<record, native>>
    BY <2>1, ObserverMoves, RoutingTypes
    DEF ObserverSteps, ObserverKnows, RowTells, BeforeRequest, Answered
  <2>2. CASE Finish("unavailable", {}) /\ UNCHANGED native
    BY <2>2, FinishTells DEF Statuses, Answered
  <2>3. CASE /\ native' = [native EXCEPT !.requests = @ + 1]
             /\ Go("waiting") /\ UNCHANGED record
    <3>1. "waiting" \in ObserverSteps /\ observer.at = "sending" /\ native \in Natives
          /\ native.requests = 0
      BY <1>7, RoutingTypes DEF ObserverSteps, SendRequest, ObserverAt, ObserverKnows
    <3>2. native' \in Natives /\ native'.requests = 1 /\ native'.answered = native.answered
      BY <2>3, <3>1 DEF Natives
    <3> QED
      BY <2>3, <3>1, <3>2, ObserverMoves, RoutingTypes
      DEF ObserverKnows, RowTells, BeforeRequest, Answered
  <2> QED
    BY <1>7, <2>1, <2>2, <2>3 DEF SendRequest
<1>8. CASE AnswerRequest
  <2>1. native' \in Natives /\ native'.requests = native.requests /\ native'.answered
    BY <1>8, RoutingTypes DEF AnswerRequest, Natives
  <2> QED
    BY <1>8, <2>1, RoutingTypes
    DEF AnswerRequest, ObserverKnows, RowTells, BeforeRequest, Answered
<1>9. CASE AwaitAnswer
  <2>1. observer \in Observers
    BY RoutingTypes
  <2>2. /\ observer' \in Observers /\ observer'.at = "closing"
        /\ observer'.eligible = observer.eligible
        /\ observer'.outcome \in {"unresolved", "unavailable"} \union Answered
        /\ observer'.outcome \in Answered => native.answered
    <3>1. ASSUME NEW outcome \in {"unresolved", "unavailable", "none", "unclear"},
                 observer' = [observer EXCEPT !.at = "closing", !.outcome = outcome]
          PROVE  /\ observer' \in Observers /\ observer'.at = "closing"
                 /\ observer'.eligible = observer.eligible /\ observer'.outcome = outcome
      BY <2>1, <3>1 DEF Observers, ObserverSteps, Outcomes, Statuses
    <3>2. ASSUME NEW c \in observer.eligible,
                 observer' = [observer EXCEPT !.at = "closing", !.outcome = "completed",
                                              !.proposed = {c}]
          PROVE  /\ observer' \in Observers /\ observer'.at = "closing"
                 /\ observer'.eligible = observer.eligible /\ observer'.outcome = "completed"
      <4>1. {c} \in SUBSET Candidate
        BY <2>1 DEF Observers
      <4> QED
        BY <2>1, <3>2, <4>1 DEF Observers, ObserverSteps, Outcomes, Statuses
    <3>3. CASE TaskInterrupted
      BY <1>9, <3>1, <3>3 DEF AwaitAnswer, Answered
    <3>4. CASE ~TaskInterrupted
      BY <1>9, <3>1, <3>2, <3>4 DEF AwaitAnswer, Answered
    <3> QED
      BY <3>3, <3>4
  <2> QED
    BY <1>9, <2>2, RoutingTypes
    DEF AwaitAnswer, ObserverAt, ObserverKnows, RowTells, BeforeRequest, Answered
<1>10. CASE CloseClient
  <2>1. CASE Go("done") /\ UNCHANGED record
    BY <1>10, <2>1, ObserverMoves, RoutingTypes
    DEF CloseClient, ObserverSteps, ObserverKnows, RowTells, BeforeRequest, Answered
  <2>2. CASE observer.outcome # "unresolved" /\ Finish(observer.outcome, observer.proposed)
    <3>1. observer.outcome \in Statuses \ {"pending"} /\ observer.proposed \in SUBSET Candidate
      BY <1>10, <2>2, RoutingTypes
      DEF CloseClient, ObserverAt, ObserverKnows, Observers, Answered, Statuses
    <3>2. observer.outcome \in Answered => native.answered
      BY <1>10 DEF CloseClient, ObserverAt, ObserverKnows
    <3> QED
      BY <1>10, <2>2, <3>1, <3>2, FinishTells DEF CloseClient
  <2>3. CASE Finish("unavailable", {})
    BY <1>10, <2>3, FinishTells DEF CloseClient, Statuses, Answered
  <2> QED
    BY <1>10, <2>1, <2>2, <2>3 DEF CloseClient
<1>11. ASSUME record' = record, observer' = observer, native' \in Natives,
              native'.requests = native.requests, native'.answered = native.answered
       PROVE  RoutingTypeOK' /\ Told'
  BY <1>11, RoutingTypes DEF ObserverKnows, RowTells, BeforeRequest, Answered
<1>12. CASE StartWorker \/ EndTask
  BY <1>11, <1>12, RoutingTypes DEF StartWorker, EndTask, Natives
<1>13. CASE RequestCancel
  BY <1>11, <1>13, RoutingTypes DEF RequestCancel, Natives
<1>14. CASE SpendBudget
  BY <1>11, <1>14, RoutingTypes DEF SpendBudget, Natives
<1>15. CASE PassDeadline
  BY <1>11, <1>15, RoutingTypes DEF PassDeadline, Natives
<1>16. CASE LoseServer
  <2>1. "dead" \in ObserverSteps /\ record' = record /\ Go("dead")
    BY <1>16 DEF LoseServer, ObserverSteps
  <2>2. native' \in Natives /\ native'.requests = native.requests
        /\ native'.answered = native.answered
    BY <1>16, RoutingTypes DEF LoseServer, Natives
  <2> QED
    BY <2>1, <2>2, ObserverMoves, RoutingTypes
    DEF ObserverKnows, RowTells, BeforeRequest, Answered
<1>17. CASE UNCHANGED routingVars
  BY <1>17, RoutingTypes DEF routingVars, ObserverKnows, RowTells, BeforeRequest, Answered
<1> QED
  BY <1>1, <1>2, <1>3, <1>4, <1>5, <1>6, <1>7, <1>8, <1>9, <1>10, <1>12, <1>13, <1>14, <1>15,
     <1>16, <1>17 DEF RoutingNext

\* How an observation ends: an outcome is written, or the task was interrupted after
\* the reservation, or the observer died, and the task has not gone on beside it.
OverAs ==
  /\ observer.at = "done" =>
       \/ record.state \in {"absent", "terminal"}
       \/ record.state = "reserved" /\ TaskInterrupted
  /\ observer.at = "closing" /\ observer.outcome = "unresolved" => TaskInterrupted
  /\ record.state = "prepared" => observer.at = "idle" \/ native.status = "interrupted"
  /\ native.status \in {"running", "ended"} => observer.at = "done"
  /\ observer.at = "idle" => record.state \in {"absent", "prepared", "terminal"}

\* An outcome that is written ends the observation, one that is not ends the start.
LEMMA FinishIsOver ==
  ASSUME RoutingTypeOK, OverAs, native' = native, NEW status, NEW proposed,
         native.status = "starting", observer.at # "idle", Finish(status, proposed)
  PROVE  OverAs'
<1>1. record \in Rows /\ observer \in Observers  BY RoutingTypes
<1>2. CASE UNCHANGED record /\ Go("dead")
  <2>1. observer'.at = "dead"  BY <1>1, <1>2 DEF Go, Observers
  <2> QED BY <1>2, <2>1 DEF OverAs
<1>3. CASE /\ record' = [record EXCEPT !.state = "terminal", !.status = status, !.proposed = proposed]
           /\ observer' = [observer EXCEPT !.at = IF status = "host_lifecycle_failure"
                                                  THEN "dead" ELSE "done"]
  <2>1. record'.state = "terminal" /\ observer'.at \in {"done", "dead"}
    BY <1>1, <1>3 DEF Rows, Observers
  <2> QED BY <2>1 DEF OverAs
<1> QED BY <1>2, <1>3 DEF Finish

LEMMA OverStays ==
  ASSUME RoutingTypeOK, Told, OverAs, [RoutingNext]_routingVars
  PROVE  OverAs'
<1>0. record \in Rows /\ observer \in Observers /\ native \in Natives  BY RoutingTypes
<1>1. ASSUME NEW at \in ObserverSteps, Go(at) PROVE observer'.at = at /\ observer'.outcome = observer.outcome
  BY <1>0, <1>1 DEF Go, Observers
<1>2. CASE ClaimRouting
  <2>1. native' = native /\ native.status = "starting"  BY <1>2 DEF ClaimRouting, ObserverAt
  <2>2. CASE record.state = "prepared"
    <3>1. record' = [record EXCEPT !.state = "observing"] /\ Go("claimed")
      BY <1>2, <2>2 DEF ClaimRouting
    <3>2. record'.state = "observing" /\ observer'.at = "claimed"
      BY <1>0, <1>1, <3>1 DEF Rows, ObserverSteps
    <3> QED BY <2>1, <3>2 DEF OverAs
  <2>3. CASE record.state # "prepared"
    <3>1. record' = record /\ Go("done") /\ observer.at = "idle"
      BY <1>2, <2>3 DEF ClaimRouting, ObserverAt
    <3>2. observer'.at = "done"  BY <1>1, <3>1 DEF ObserverSteps
    <3>3. record.state \in {"absent", "terminal"}  BY <1>0, <2>3, <3>1 DEF OverAs
    <3> QED BY <2>1, <3>1, <3>2, <3>3 DEF OverAs
  <2> QED BY <2>2, <2>3
<1>3. CASE StartProbe
  <2>1. native' = native /\ native.status = "starting" /\ observer.at = "claimed"
    BY <1>3 DEF StartProbe, ObserverAt
  <2>2. CASE Go("probing") /\ UNCHANGED record
    <3>1. observer'.at = "probing"  BY <1>1, <2>2 DEF ObserverSteps
    <3> QED BY <2>1, <2>2, <3>1 DEF OverAs
  <2> QED BY <1>3, <2>1, <2>2, FinishIsOver DEF StartProbe
<1>4. CASE AskCatalog
  <2>1. observer'.at = "stopping"  BY <1>0, <1>4 DEF AskCatalog, Observers
  <2> QED BY <1>4, <2>1 DEF AskCatalog, ObserverAt, OverAs
<1>5. CASE StopProbe
  <2>1. observer'.at = "judging"  BY <1>0, <1>5 DEF StopProbe, Observers
  <2> QED BY <1>5, <2>1 DEF StopProbe, ObserverAt, OverAs
<1>6. CASE JudgeCatalog
  <2>1. native' = native /\ native.status = "starting" /\ observer.at = "judging"
    BY <1>6 DEF JudgeCatalog, ObserverAt
  <2>2. CASE Go("deciding") /\ UNCHANGED record
    <3>1. observer'.at = "deciding"  BY <1>1, <2>2 DEF ObserverSteps
    <3> QED BY <2>1, <2>2, <3>1 DEF OverAs
  <2> QED BY <1>6, <2>1, <2>2, FinishIsOver DEF JudgeCatalog
<1>7. CASE ReserveRequest
  <2>1. native' = native /\ native.status = "starting" /\ observer.at = "deciding"
    BY <1>7 DEF ReserveRequest, ObserverAt
  <2>2. CASE /\ record' = [record EXCEPT !.state = "reserved", !.reserved = TRUE,
                                         !.eligible = observer.eligible]
             /\ Go("sending")
    <3>1. observer'.at = "sending" /\ record'.state = "reserved"
      BY <1>0, <1>1, <2>2 DEF ObserverSteps, Rows
    <3> QED BY <2>1, <3>1 DEF OverAs
  <2> QED BY <1>7, <2>1, <2>2, FinishIsOver DEF ReserveRequest
<1>8. CASE SendRequest
  <2>1. native.status = "starting" /\ observer.at = "sending" /\ record.state = "reserved"
    BY <1>8 DEF SendRequest, ObserverAt, Told, ObserverKnows
  <2>2. CASE TaskInterrupted /\ Go("done") /\ UNCHANGED <<record, native>>
    <3>1. observer'.at = "done"  BY <1>1, <2>2 DEF ObserverSteps
    <3> QED BY <2>1, <2>2, <3>1 DEF OverAs, TaskInterrupted
  <2>3. CASE Finish("unavailable", {}) /\ UNCHANGED native
    BY <2>1, <2>3, FinishIsOver
  <2>4. CASE /\ native' = [native EXCEPT !.requests = @ + 1]
             /\ Go("waiting") /\ UNCHANGED record
    <3>1. observer'.at = "waiting" /\ native'.status = "starting"
      BY <1>0, <1>1, <2>1, <2>4 DEF ObserverSteps, Natives
    <3> QED BY <2>1, <2>4, <3>1 DEF OverAs
  <2> QED BY <1>8, <2>2, <2>3, <2>4 DEF SendRequest
<1>9. CASE AwaitAnswer
  <2>1. native' = native /\ record' = record /\ native.status = "starting" /\ observer.at = "waiting"
    BY <1>9 DEF AwaitAnswer, ObserverAt
  <2>2. observer'.at = "closing" /\ (observer'.outcome = "unresolved" => TaskInterrupted)
    BY <1>0, <1>9 DEF AwaitAnswer, Observers
  <2> QED BY <2>1, <2>2 DEF OverAs, TaskInterrupted
<1>10. CASE CloseClient
  <2>1. /\ native' = native /\ native.status = "starting" /\ observer.at = "closing"
        /\ record.state = "reserved"
    BY <1>10 DEF CloseClient, ObserverAt, Told, ObserverKnows
  <2>2. CASE observer.outcome = "unresolved" /\ Go("done") /\ UNCHANGED record
    <3>1. observer'.at = "done"  BY <1>1, <2>2 DEF ObserverSteps
    <3> QED BY <2>1, <2>2, <3>1 DEF OverAs, TaskInterrupted
  <2> QED BY <1>10, <2>1, <2>2, FinishIsOver DEF CloseClient
<1>11. CASE AnswerRequest
  <2>1. native'.status = native.status /\ native'.cancel = native.cancel /\ native'.deadline = native.deadline
    BY <1>0, <1>11 DEF AnswerRequest, Natives
  <2> QED BY <1>11, <2>1 DEF AnswerRequest, OverAs, TaskInterrupted
<1>12. CASE StartWorker
  <2>1. /\ native'.status = IF observer.at = "done" THEN "running" ELSE "failed"
        /\ native'.cancel = native.cancel /\ native'.deadline = native.deadline
        /\ observer' = observer /\ record' = record /\ observer.at \in {"done", "dead"}
        /\ native.status = "starting"
    BY <1>0, <1>12 DEF StartWorker, Natives
  <2> QED BY <2>1 DEF OverAs, TaskInterrupted
<1>13. CASE EndTask
  <2>1. /\ native'.status = "ended" /\ native.status = "running"
        /\ native'.cancel = native.cancel /\ native'.deadline = native.deadline
        /\ observer' = observer /\ record' = record
    BY <1>0, <1>13 DEF EndTask, Natives
  <2> QED BY <2>1 DEF OverAs, TaskInterrupted
<1>14. CASE RequestCancel \/ SpendBudget \/ PassDeadline
  <2>1. /\ native'.status = native.status
        /\ native.cancel => native'.cancel
        /\ native'.deadline => native.deadline
        /\ observer' = observer /\ record' = record
    BY <1>0, <1>14 DEF RequestCancel, SpendBudget, PassDeadline, Natives
  <2> QED BY <2>1 DEF OverAs, TaskInterrupted
<1>15. CASE LoseServer
  <2>1. native'.status = "interrupted" /\ observer'.at = "dead" /\ record' = record
    BY <1>0, <1>1, <1>15 DEF LoseServer, Natives, ObserverSteps
  <2> QED BY <2>1 DEF OverAs
<1>16. CASE UNCHANGED routingVars
  BY <1>16 DEF routingVars, OverAs, TaskInterrupted
<1> QED BY <1>2, <1>3, <1>4, <1>5, <1>6, <1>7, <1>8, <1>9, <1>10, <1>11, <1>12, <1>13, <1>14,
           <1>15, <1>16 DEF RoutingNext

\* Wherever the observation stops, and whatever dies, the journal never says less than
\* what happened, and calls an observation that is over pending only of a task that was
\* interrupted and has not ended, or whose observation never began or just failed.
THEOREM RoutingTold == RoutingSpec => []RoutingIsTold
<1>1. RoutingInit => RoutingTypeOK /\ Told /\ OverAs
  <2> SUFFICES ASSUME RoutingInit PROVE RoutingTypeOK /\ Told /\ OverAs
    OBVIOUS
  <2>1. PICK st \in {"absent", "prepared", "terminal"} :
          record = [state |-> st, status |-> IF st = "terminal" THEN "bypassed" ELSE "pending",
                    proposed |-> {}, eligible |-> {}, reserved |-> FALSE]
    BY DEF RoutingInit
  <2>2. record \in Rows /\ observer \in Observers /\ native \in Natives
    BY <2>1 DEF RoutingInit, Rows, RowStates, Statuses, Observers, ObserverSteps, Outcomes, Natives
  <2>3. Told
    BY <2>1 DEF RoutingInit, Told, ObserverKnows, RowTells, BeforeRequest, Answered
  <2>4. OverAs
    BY <2>1 DEF RoutingInit, OverAs
  <2> QED
    BY <2>2, <2>3, <2>4, RoutingTypes
<1>2. RoutingTypeOK /\ Told /\ OverAs => RoutingIsTold
  <2> SUFFICES ASSUME RoutingTypeOK, Told, OverAs PROVE RoutingIsTold
    OBVIOUS
  <2>1. PendingIsOpen
    <3> SUFFICES ASSUME ViewStatus = "pending", observer.at \in {"done", "dead"},
                        record.state # "absent"
                 PROVE  \/ record.state = "prepared" /\ native.status = "interrupted"
                        \/ observer.at = "dead" /\ native.status = "starting"
                        \/ /\ record.state = "reserved" /\ native.status \in {"starting", "running"}
                           /\ TaskInterrupted
      BY DEF PendingIsOpen
    <3>1. record.state # "terminal"
      BY DEF Told, RowTells, ViewStatus
    <3>2. CASE record.state = "prepared"
      BY <3>2 DEF OverAs
    <3>3. CASE record.state # "prepared"
      <4>1. record.state \in {"observing", "reserved"}
        BY <3>1, <3>3, RoutingTypes DEF Rows, RowStates
      <4>2. native.status \in {"starting", "running"}
        BY <4>1 DEF ViewStatus
      <4> QED BY <4>1, <4>2 DEF OverAs
    <3> QED BY <3>2, <3>3
  <2> QED
    BY <2>1 DEF RoutingTypeOK, Told, ObserverKnows, RowTells, BeforeRequest, Answered,
                RoutingIsTold, SendState
<1> QED
  BY <1>1, <1>2, ToldStays, OverStays, PTL DEF RoutingSpec

-----------------------------------------------------------------------------
(* AutomationBudget.  A review start that has read the budget and one that *)
(* has not counted its admission are counted beside the ledger: the first  *)
(* is one of each server, the second has a row without a count.            *)

Uncounted(g) == {s \in Server : admitting[s].at = "inserted" /\ admitting[s].grant = g}
Promised(g) == {s \in Server : admitting[s].at \in {"read", "inserted"} /\ admitting[s].grant = g}
AdmittedFrom(g) == {a \in admissions : a.grant = g}

\* Grants are opened in order, and only the last may be active.
LastIsActive ==
  /\ Opened = 1..Cardinality(Opened)
  /\ \A g \in ActiveGrant : g = Cardinality(Opened)

\* An owner is admitted once, from a grant that was opened.
AdmittedOnce ==
  /\ admissions \subseteq [owner : Owner, grant : Grant]
  /\ \A a \in admissions : a.grant \in Opened
  /\ \A a, b \in admissions : a.owner = b.owner => a = b

\* What a review start has established at each of its statements.
StartsKnow ==
  \A s \in Server :
    LET m == admitting[s]
        mine == AdmissionOf(<<s, m.request>>) IN
    /\ m.grant # Off => m.grant \in Opened
    /\ m.at \in {"read", "inserted"} => m.grant # Off
    /\ m.at = "read" => mine = {}
    /\ m.at \in {"inserted", "admitted"} /\ m.grant # Off => \E a \in mine : a.grant <= m.grant

\* What was started was admitted.
StartedAdmitted ==
  \A u \in started : u.grant # Off => \E a \in AdmissionOf(u.owner) : a.grant <= u.grant

\* The two sums.
Counted ==
  \A g \in Grant :
    /\ grants[g].used + Cardinality(Uncounted(g)) <= Cardinality(AdmittedFrom(g))
    /\ grants[g].used + Cardinality(Promised(g)) <= grants[g].ceiling + Cardinality(Server)

\* The types of the ledger, but for the bound of a spend, which follows from Counted.
LedgerTypes ==
  /\ grants \in [Grant -> [ceiling : 0..MaxCeiling, used : Nat,
                           state : {"none", "active", "closed"}]]
  /\ \A u \in started : u.owner \in Owner /\ u.grant \in Grant \union {Off}
  /\ admitting \in [Server -> [at : {"idle", "read", "inserted", "admitted"},
                               request : Request, grant : Grant \union {Off}]]

LedgerStands ==
  LedgerTypes /\ LastIsActive /\ AdmittedOnce /\ StartsKnow /\ StartedAdmitted /\ Counted

\* The sets that are counted are finite.
LEMMA CountedSets ==
  ASSUME AdmittedOnce
  PROVE  /\ IsFiniteSet(Owner) /\ Cardinality(Owner) \in Nat /\ Cardinality(Server) \in Nat
         /\ IsFiniteSet(Opened) /\ Cardinality(Opened) \in Nat
         /\ \A g \in Grant :
              /\ IsFiniteSet(AdmittedFrom(g)) /\ Cardinality(AdmittedFrom(g)) \in Nat
              /\ Cardinality(AdmittedFrom(g)) <= Cardinality(Owner)
              /\ IsFiniteSet(Uncounted(g)) /\ Cardinality(Uncounted(g)) \in Nat
              /\ IsFiniteSet(Promised(g)) /\ Cardinality(Promised(g)) \in Nat
              /\ Cardinality(Promised(g)) <= Cardinality(Server)
<1> USE BudgetBounds, OwnersAssumption
<1>1. IsFiniteSet(Owner) /\ Cardinality(Owner) \in Nat
  <2>1. IsFiniteSet(Server \X Request)
    BY FS_Product
  <2>2. IsFiniteSet({<<"unit", n>> : n \in 1..MaxUnits})
    <3>1. {<<"unit", n>> : n \in 1..MaxUnits} = {"unit"} \X (1..MaxUnits)
      OBVIOUS
    <3>2. IsFiniteSet({"unit"}) /\ IsFiniteSet(1..MaxUnits)
      <4>1. 1 \in Int /\ MaxUnits \in Int
        OBVIOUS
      <4>2. IsFiniteSet(1..MaxUnits)
        BY <4>1, FS_Interval, Zenon
      <4> QED
        BY <4>2, FS_Singleton, Zenon
    <3> QED
      BY <3>1, <3>2, FS_Product
  <2> QED
    BY <2>1, <2>2, FS_Union, FS_CardinalityType DEF Owner
<1>2. Cardinality(Server) \in Nat
  BY FS_CardinalityType
<1>3. IsFiniteSet(Opened) /\ Cardinality(Opened) \in Nat
  <2>1. 1 \in Int /\ MaxGrants \in Int /\ Opened \in SUBSET (1..MaxGrants)
    BY DEF Opened, Grant
  <2>2. IsFiniteSet(1..MaxGrants)
    BY <2>1, FS_Interval, Zenon
  <2> QED
    BY <2>1, <2>2, FS_Subset, FS_CardinalityType, Zenon
<1>4. ASSUME NEW g \in Grant
      PROVE  /\ IsFiniteSet(Uncounted(g)) /\ Cardinality(Uncounted(g)) \in Nat
             /\ IsFiniteSet(Promised(g)) /\ Cardinality(Promised(g)) \in Nat
             /\ Cardinality(Promised(g)) <= Cardinality(Server)
  <2>1. Uncounted(g) \in SUBSET Server /\ Promised(g) \in SUBSET Server
    BY DEF Uncounted, Promised
  <2> QED
    BY <2>1, FS_Subset, FS_CardinalityType
<1>5. ASSUME NEW g \in Grant
      PROVE  /\ IsFiniteSet(AdmittedFrom(g)) /\ Cardinality(AdmittedFrom(g)) \in Nat
             /\ Cardinality(AdmittedFrom(g)) <= Cardinality(Owner)
  <2> DEFINE f == [a \in AdmittedFrom(g) |-> a.owner]
  <2>1. f \in Injection(AdmittedFrom(g), Owner)
    <3>1. f \in [AdmittedFrom(g) -> Owner]
      BY DEF AdmittedFrom, AdmittedOnce
    <3>2. \A a, b \in AdmittedFrom(g) : f[a] = f[b] => a = b
      BY DEF AdmittedFrom, AdmittedOnce
    <3> QED
      BY <3>1, <3>2 DEF Injection, IsInjective
  <2> QED
    BY <1>1, <2>1, FS_Injection, FS_CardinalityType
<1> QED
  BY <1>1, <1>2, <1>3, <1>4, <1>5

\* The grant that is spent from is the one active grant.
LEMMA CurrentIsActive ==
  /\ Current # Off => Current \in ActiveGrant /\ Current \in Grant
  /\ Current = Off => ActiveGrant = {}
<1>1. Off \notin Grant /\ ActiveGrant \subseteq Grant
  BY BudgetBounds DEF Off, Grant, ActiveGrant
<1>2. ActiveGrant # {} => (CHOOSE g \in ActiveGrant : TRUE) \in ActiveGrant
  OBVIOUS
<1> QED
  BY <1>1, <1>2 DEF Current

\* One more member of a counted set, and one less.
LEMMA CountOne ==
  ASSUME NEW S, IsFiniteSet(S), NEW x
  PROVE  /\ x \notin S => Cardinality(S \union {x}) = Cardinality(S) + 1
         /\ x \in S => Cardinality(S \ {x}) = Cardinality(S) - 1
         /\ Cardinality(S \ {x}) <= Cardinality(S)
BY FS_AddElement, FS_RemoveElement, FS_CardinalityType

\* Spending counts one more, and opens, closes and activates nothing.
LEMMA SpendCounts ==
  ASSUME LedgerTypes, NEW g \in Grant, grants' = Spent(g)
  PROVE  /\ grants' \in [Grant -> [ceiling : 0..MaxCeiling, used : Nat,
                                   state : {"none", "active", "closed"}]]
         /\ grants'[g].used = grants[g].used + 1 /\ grants'[g].ceiling = grants[g].ceiling
         /\ \A h \in Grant : h # g => grants'[h] = grants[h]
         /\ Opened' = Opened /\ ActiveGrant' = ActiveGrant
<1>1. grants' = [grants EXCEPT ![g].used = @ + 1]
  BY DEF Spent
<1>2. grants[g] \in [ceiling : 0..MaxCeiling, used : Nat, state : {"none", "active", "closed"}]
  BY DEF LedgerTypes
<1>3. /\ grants'[g] = [grants[g] EXCEPT !.used = @ + 1]
      /\ \A h \in Grant : h # g => grants'[h] = grants[h]
      /\ grants' \in [Grant -> [ceiling : 0..MaxCeiling, used : Nat,
                                state : {"none", "active", "closed"}]]
  BY <1>1, <1>2 DEF LedgerTypes
<1>4. /\ grants'[g].used = grants[g].used + 1 /\ grants'[g].ceiling = grants[g].ceiling
      /\ grants'[g].state = grants[g].state
  BY <1>2, <1>3
<1>5. \A h \in Grant : grants'[h].state = grants[h].state
  BY <1>3, <1>4
<1> QED
  BY <1>3, <1>4, <1>5 DEF Opened, ActiveGrant

\* What an admission that is not there yet is to the counts of each grant.
LEMMA AdmitCounts ==
  ASSUME AdmittedOnce, NEW o \in Owner, NEW g \in Grant, g \in Opened, AdmissionOf(o) = {},
         admissions' = admissions \union {[owner |-> o, grant |-> g]}, Opened' = Opened
  PROVE  /\ AdmittedOnce'
         /\ Cardinality(AdmittedFrom(g)') = Cardinality(AdmittedFrom(g)) + 1
         /\ \A h \in Grant : h # g => AdmittedFrom(h)' = AdmittedFrom(h)
<1> DEFINE new == [owner |-> o, grant |-> g]
<1>1. new \in [owner : Owner, grant : Grant] /\ new.owner = o /\ new.grant = g
  OBVIOUS
<1>2. \A a \in admissions : a.owner # o
  BY DEF AdmissionOf
<1>3. AdmittedOnce'
  BY <1>1, <1>2 DEF AdmittedOnce
<1>4. AdmittedFrom(g)' = AdmittedFrom(g) \union {new} /\ new \notin AdmittedFrom(g)
  BY <1>1, <1>2 DEF AdmittedFrom
<1>5. Cardinality(AdmittedFrom(g)') = Cardinality(AdmittedFrom(g)) + 1
  BY <1>4, CountedSets, CountOne
<1>6. \A h \in Grant : h # g => AdmittedFrom(h)' = AdmittedFrom(h)
  BY <1>1 DEF AdmittedFrom
<1> QED
  BY <1>3, <1>5, <1>6

\* A step that leaves the admissions, and adds at most executions that were admitted,
\* keeps what was started; so does one that only adds admissions.
LEMMA StartsStay ==
  ASSUME StartedAdmitted, admissions \subseteq admissions',
         \A u \in started' : u \in started \/ u.grant = Off
                             \/ \E a \in AdmissionOf(u.owner)' : a.grant <= u.grant
  PROVE  StartedAdmitted'
BY DEF StartedAdmitted, AdmissionOf

\* The operator's decisions.
LEMMA OperatorKeepsLedger ==
  ASSUME LedgerStands, Extend \/ Disable \/ \E ceiling \in 1..MaxCeiling : Authorize(ceiling)
  PROVE  LedgerStands'
<1> USE BudgetBounds
<1>1. UNCHANGED <<admissions, started, admitting>>
  BY DEF Extend, Disable, Authorize
<1>2. \A g \in Grant :
        /\ AdmittedFrom(g)' = AdmittedFrom(g) /\ Uncounted(g)' = Uncounted(g)
        /\ Promised(g)' = Promised(g)
  BY <1>1 DEF AdmittedFrom, Uncounted, Promised
<1>3. StartedAdmitted'
  BY <1>1 DEF LedgerStands, StartedAdmitted, AdmissionOf
<1>4. ASSUME Opened \subseteq Opened'
      PROVE  AdmittedOnce' /\ StartsKnow'
  BY <1>1, <1>4 DEF LedgerStands, AdmittedOnce, StartsKnow, AdmissionOf
<1>5. ASSUME NEW g \in Grant, g \in ActiveGrant, NEW new \in [ceiling : 0..MaxCeiling, used : Nat,
                                            state : {"active", "closed"}],
             grants' = [grants EXCEPT ![g] = new],
             new.used = grants[g].used, new.ceiling >= grants[g].ceiling
      PROVE  LedgerStands'
  <2>1. grants'[g] = new /\ (\A h \in Grant : h # g => grants'[h] = grants[h])
        /\ LedgerTypes'
    BY <1>1, <1>5 DEF LedgerStands, LedgerTypes
  <2>2. Opened' = Opened /\ ActiveGrant' \subseteq ActiveGrant
    BY <1>5, <2>1 DEF Opened, ActiveGrant
  <2>3. LastIsActive'
    BY <2>2 DEF LedgerStands, LastIsActive
  <2>4. ASSUME NEW h \in Grant
        PROVE  /\ grants'[h].used = grants[h].used
               /\ grants[h].ceiling \in Nat /\ grants'[h].ceiling \in Nat
               /\ grants'[h].ceiling >= grants[h].ceiling /\ grants[h].used \in Nat
    BY <1>5, <2>1 DEF LedgerStands, LedgerTypes
  <2>5. Counted'
    <3> SUFFICES ASSUME NEW h \in Grant'
                 PROVE  /\ (grants[h].used + Cardinality(Uncounted(h))
                              <= Cardinality(AdmittedFrom(h)))'
                        /\ (grants[h].used + Cardinality(Promised(h))
                              <= grants[h].ceiling + Cardinality(Server))'
      BY DEF Counted
    <3>1. h \in Grant /\ Cardinality(Promised(h)) \in Nat /\ Cardinality(Server) \in Nat
      BY CountedSets DEF LedgerStands, Grant
    <3>2. /\ grants[h].used + Cardinality(Uncounted(h)) <= Cardinality(AdmittedFrom(h))
          /\ grants[h].used + Cardinality(Promised(h)) <= grants[h].ceiling + Cardinality(Server)
      BY <3>1 DEF LedgerStands, Counted
    <3> QED
      BY <1>2, <2>4, <3>1, <3>2
  <2> QED
    BY <1>3, <1>4, <2>1, <2>2, <2>3, <2>5 DEF LedgerStands
<1>6. CASE Extend
  <2> DEFINE new == [grants[Current] EXCEPT !.ceiling = @ + 1]
  <2>1. Current \in Grant /\ Current \in ActiveGrant /\ grants[Current].state = "active"
    BY <1>6, CurrentIsActive DEF Extend, ActiveGrant
  <2>2. grants[Current] \in [ceiling : 0..MaxCeiling, used : Nat,
                             state : {"none", "active", "closed"}]
        /\ grants[Current].ceiling < MaxCeiling
    BY <1>6, <2>1 DEF Extend, LedgerStands, LedgerTypes
  <2>3. /\ new \in [ceiling : 0..MaxCeiling, used : Nat, state : {"active", "closed"}]
        /\ new.used = grants[Current].used /\ new.ceiling >= grants[Current].ceiling
    BY <2>1, <2>2
  <2>4. grants' = [grants EXCEPT ![Current] = new]
    BY <1>6 DEF Extend
  <2> HIDE DEF new
  <2> QED
    BY <1>5, <2>1, <2>3, <2>4
<1>7. CASE Disable
  <2> DEFINE new == [grants[Current] EXCEPT !.state = "closed"]
  <2>1. Current \in Grant /\ Current \in ActiveGrant
    BY <1>7, CurrentIsActive DEF Disable
  <2>2. grants[Current] \in [ceiling : 0..MaxCeiling, used : Nat,
                             state : {"none", "active", "closed"}]
    BY <2>1 DEF LedgerStands, LedgerTypes
  <2>3. /\ new \in [ceiling : 0..MaxCeiling, used : Nat, state : {"active", "closed"}]
        /\ new.used = grants[Current].used /\ new.ceiling >= grants[Current].ceiling
    BY <2>2
  <2>4. grants' = [grants EXCEPT ![Current] = new]
    BY <1>7 DEF Disable
  <2> HIDE DEF new
  <2> QED
    BY <1>5, <2>1, <2>3, <2>4
<1>8. ASSUME NEW ceiling \in 1..MaxCeiling, Authorize(ceiling)
      PROVE  LedgerStands'
  <2> DEFINE next == Cardinality(Opened) + 1
  <2>1. Cardinality(Opened) \in Nat /\ next \in Grant /\ Opened = 1..Cardinality(Opened)
        /\ next \notin Opened
    BY <1>8, CountedSets DEF Authorize, LedgerStands, LastIsActive, Grant
  <2>2. grants' = [g \in Grant |->
          IF g = next THEN [ceiling |-> ceiling, used |-> 0, state |-> "active"]
          ELSE IF g = Current THEN [grants[g] EXCEPT !.state = "closed"] ELSE grants[g]]
    BY <1>8 DEF Authorize
  <2> HIDE DEF next
  <2>3. ASSUME NEW h \in Grant
        PROVE  /\ grants[h] \in [ceiling : 0..MaxCeiling, used : Nat,
                                 state : {"none", "active", "closed"}]
               /\ h = next => grants'[h] = [ceiling |-> ceiling, used |-> 0, state |-> "active"]
               /\ h # next =>
                    /\ grants'[h].used = grants[h].used /\ grants'[h].ceiling = grants[h].ceiling
                    /\ grants'[h].state = IF h = Current THEN "closed" ELSE grants[h].state
                    /\ grants'[h] \in [ceiling : 0..MaxCeiling, used : Nat,
                                       state : {"none", "active", "closed"}]
    <3>1. grants[h] \in [ceiling : 0..MaxCeiling, used : Nat,
                         state : {"none", "active", "closed"}]
      BY DEF LedgerStands, LedgerTypes
    <3>2. [grants[h] EXCEPT !.state = "closed"]
            \in [ceiling : 0..MaxCeiling, used : Nat, state : {"none", "active", "closed"}]
      BY <3>1
    <3> QED
      BY <2>2, <3>1, <3>2
  <2>4. LedgerTypes'
    <3>1. [ceiling |-> ceiling, used |-> 0, state |-> "active"]
            \in [ceiling : 0..MaxCeiling, used : Nat, state : {"none", "active", "closed"}]
      OBVIOUS
    <3>2. \A h \in Grant : grants'[h] \in [ceiling : 0..MaxCeiling, used : Nat,
                                           state : {"none", "active", "closed"}]
      BY <2>3, <3>1
    <3>3. DOMAIN grants' = Grant /\ grants' = [h \in Grant |-> grants'[h]]
      BY <2>2
    <3> QED
      BY <1>1, <3>2, <3>3 DEF LedgerStands, LedgerTypes
  <2>5. Opened' = Opened \union {next}
    <3>1. Current # Off => Current \in Opened
      BY CurrentIsActive DEF ActiveGrant, Opened
    <3>2. ASSUME NEW h \in Grant
          PROVE  grants'[h].state # "none" <=> h = next \/ grants[h].state # "none"
      <4>1. h = Current => grants[h].state = "active"
        BY CurrentIsActive, BudgetBounds DEF ActiveGrant, Off, Grant
      <4> QED
        BY <2>3, <4>1
    <3> QED
      BY <2>1, <3>2 DEF Opened
  <2>6. ActiveGrant' \subseteq {next}
    <3>1. \A h \in Grant : grants[h].state = "active" => h = Current
      BY CurrentIsActive DEF LedgerStands, LastIsActive, ActiveGrant
    <3> QED
      BY <2>3, <3>1 DEF ActiveGrant
  <2>7. LastIsActive'
    <3>1. Cardinality(Opened') = next
      BY <2>1, <2>5, CountOne, CountedSets DEF next, LedgerStands
    <3>2. Opened' = 1..next
      BY <2>1, <2>5 DEF next
    <3> QED
      BY <2>6, <3>1, <3>2 DEF LastIsActive
  <2>8. Counted'
    <3> SUFFICES ASSUME NEW h \in Grant'
                 PROVE  /\ (grants[h].used + Cardinality(Uncounted(h))
                              <= Cardinality(AdmittedFrom(h)))'
                        /\ (grants[h].used + Cardinality(Promised(h))
                              <= grants[h].ceiling + Cardinality(Server))'
      BY DEF Counted
    <3>1. /\ h \in Grant /\ Cardinality(Promised(h)) \in Nat /\ Cardinality(Server) \in Nat
          /\ Cardinality(Promised(h)) <= Cardinality(Server) /\ Cardinality(Uncounted(h)) \in Nat
          /\ Cardinality(AdmittedFrom(h)) \in Nat
      BY CountedSets DEF LedgerStands, Grant
    <3>2. /\ grants[h].used + Cardinality(Uncounted(h)) <= Cardinality(AdmittedFrom(h))
          /\ grants[h].used + Cardinality(Promised(h)) <= grants[h].ceiling + Cardinality(Server)
          /\ grants[h].used \in Nat
      BY <3>1, <2>3 DEF LedgerStands, Counted
    <3>3. h = next => grants'[h].used = 0 /\ grants'[h].ceiling = ceiling
      BY <2>3, <3>1
    <3>4. h # next => grants'[h].used = grants[h].used /\ grants'[h].ceiling = grants[h].ceiling
      BY <2>3, <3>1
    <3> QED
      BY <1>2, <3>1, <3>2, <3>3, <3>4
  <2> QED
    BY <1>3, <1>4, <2>4, <2>5, <2>7, <2>8 DEF LedgerStands
<1> QED
  BY <1>6, <1>7, <1>8

\* An admission in one transaction, and what is started of it.
LEMMA UnitKeepsLedger ==
  ASSUME LedgerStands, NEW n \in 1..MaxUnits, NEW begins \in BOOLEAN, StartUnit(n, begins)
  PROVE  LedgerStands'
<1> DEFINE owner == <<"unit", n>>
<1> USE BudgetBounds
<1>1. owner \in Owner /\ admitting' = admitting /\ AdmissionOf(owner) = {}
  BY DEF StartUnit, Owner
<1>2. \A g \in Grant : Uncounted(g)' = Uncounted(g) /\ Promised(g)' = Promised(g)
  BY <1>1 DEF Uncounted, Promised
<1>3. \A s \in Server : AdmissionOf(<<s, admitting[s].request>>) \subseteq
                          AdmissionOf(<<s, admitting[s].request>>)'
  BY DEF StartUnit, AdmissionOf
<1>4. started' = IF begins THEN started \union {[owner |-> owner, grant |-> Current]} ELSE started
  BY DEF StartUnit
<1>5. CASE Current = Off /\ UNCHANGED <<grants, admissions>>
  <2>1. Opened' = Opened /\ ActiveGrant' = ActiveGrant
        /\ \A g \in Grant : AdmittedFrom(g)' = AdmittedFrom(g)
    BY <1>5 DEF Opened, ActiveGrant, AdmittedFrom
  <2>2. \A u \in started' : u \in started \/ (u.owner = owner /\ u.grant = Off)
    BY <1>4, <1>5
  <2>3. LedgerTypes'
    BY <1>1, <1>5, <2>2 DEF LedgerStands, LedgerTypes
  <2>4. LastIsActive'
    BY <2>1 DEF LedgerStands, LastIsActive
  <2>5. AdmittedOnce' /\ StartsKnow'
    BY <1>1, <1>5, <2>1 DEF LedgerStands, AdmittedOnce, StartsKnow, AdmissionOf
  <2>6. StartedAdmitted'
    BY <1>5, <2>2, StartsStay DEF LedgerStands
  <2>7. Counted'
    BY <1>2, <1>5, <2>1 DEF LedgerStands, Counted, Grant
  <2> QED
    BY <2>3, <2>4, <2>5, <2>6, <2>7 DEF LedgerStands
<1>6. CASE /\ Current # Off /\ Affordable(Current)
           /\ grants' = Spent(Current)
           /\ admissions' = admissions \union {[owner |-> owner, grant |-> Current]}
  <2>1. PICK g \in Grant : g = Current /\ g \in ActiveGrant /\ g \in Opened
    BY <1>6, CurrentIsActive DEF ActiveGrant, Opened
  <2>2. /\ grants' \in [Grant -> [ceiling : 0..MaxCeiling, used : Nat,
                                  state : {"none", "active", "closed"}]]
        /\ grants'[g].used = grants[g].used + 1 /\ grants'[g].ceiling = grants[g].ceiling
        /\ \A h \in Grant : h # g => grants'[h] = grants[h]
        /\ Opened' = Opened /\ ActiveGrant' = ActiveGrant
    BY <1>6, <2>1, SpendCounts DEF LedgerStands
  <2>3. grants[g].used < grants[g].ceiling /\ grants[g].used \in Nat /\ grants[g].ceiling \in Nat
    <3>1. grants[g] \in [ceiling : 0..MaxCeiling, used : Nat,
                         state : {"none", "active", "closed"}]
      BY <2>1 DEF LedgerStands, LedgerTypes
    <3> QED
      BY <1>6, <2>1, <3>1 DEF Affordable, Remains
  <2>4. /\ AdmittedOnce'
        /\ Cardinality(AdmittedFrom(g)') = Cardinality(AdmittedFrom(g)) + 1
        /\ \A h \in Grant : h # g => AdmittedFrom(h)' = AdmittedFrom(h)
    <3>1. AdmittedOnce /\ owner \in Owner /\ AdmissionOf(owner) = {} /\ Opened' = Opened
      BY <1>1, <2>2 DEF LedgerStands
    <3>2. admissions' = admissions \union {[owner |-> owner, grant |-> g]}
      BY <1>6, <2>1
    <3> HIDE DEF owner
    <3> QED
      BY <2>1, <3>1, <3>2, AdmitCounts
  <2>5. \A u \in started' : u \in started \/ (u.owner = owner /\ u.grant = g)
    BY <1>4, <2>1
  <2>6. LedgerTypes'
    BY <1>1, <2>1, <2>2, <2>5 DEF LedgerStands, LedgerTypes
  <2>7. LastIsActive'
    BY <2>2 DEF LedgerStands, LastIsActive
  <2>8. StartsKnow'
    <3>1. ASSUME NEW s \in Server
          PROVE  AdmissionOf(<<s, admitting[s].request>>)'
                   = AdmissionOf(<<s, admitting[s].request>>)
      <4>1. owner # <<s, admitting[s].request>>
        BY OwnersAssumption
      <4> QED
        BY <1>1, <1>6, <4>1 DEF AdmissionOf
    <3> QED
      BY <1>1, <2>2, <3>1 DEF LedgerStands, StartsKnow
  <2>9. StartedAdmitted'
    <3>1. [owner |-> owner, grant |-> g] \in AdmissionOf(owner)'
      BY <1>6, <2>1 DEF AdmissionOf
    <3>2. g <= g
      BY <2>1 DEF Grant
    <3>3. \A u \in started' : u \in started \/ \E a \in AdmissionOf(u.owner)' : a.grant <= u.grant
      BY <2>5, <3>1, <3>2
    <3> QED
      BY <1>6, <3>3, StartsStay DEF LedgerStands
  <2>10. Counted'
    <3> SUFFICES ASSUME NEW h \in Grant'
                 PROVE  /\ (grants[h].used + Cardinality(Uncounted(h))
                              <= Cardinality(AdmittedFrom(h)))'
                        /\ (grants[h].used + Cardinality(Promised(h))
                              <= grants[h].ceiling + Cardinality(Server))'
      BY DEF Counted
    <3>1. /\ h \in Grant /\ Cardinality(Promised(h)) \in Nat /\ Cardinality(Server) \in Nat
          /\ Cardinality(Promised(h)) <= Cardinality(Server) /\ Cardinality(Uncounted(h)) \in Nat
          /\ Cardinality(AdmittedFrom(h)) \in Nat
      BY CountedSets DEF LedgerStands, Grant
    <3>2. /\ grants[h].used + Cardinality(Uncounted(h)) <= Cardinality(AdmittedFrom(h))
          /\ grants[h].used + Cardinality(Promised(h)) <= grants[h].ceiling + Cardinality(Server)
      BY <3>1 DEF LedgerStands, Counted
    <3>3. CASE h = g
      <4>1. /\ grants'[h].used = grants[h].used + 1 /\ grants'[h].ceiling = grants[h].ceiling
            /\ grants[h].used < grants[h].ceiling
            /\ grants[h].used \in Nat /\ grants[h].ceiling \in Nat
            /\ Cardinality(AdmittedFrom(h)') = Cardinality(AdmittedFrom(h)) + 1
        BY <2>2, <2>3, <2>4, <3>3
      <4> QED
        BY <1>2, <3>1, <3>2, <4>1
    <3>4. CASE h # g
      BY <1>2, <2>2, <2>4, <3>1, <3>2, <3>4
    <3> QED
      BY <3>3, <3>4
  <2> QED
    BY <2>4, <2>6, <2>7, <2>8, <2>9, <2>10 DEF LedgerStands
<1> QED
  BY <1>5, <1>6 DEF StartUnit

\* A step of one server: what it holds is counted again, of the others nothing changes.
LEMMA ServerCounts ==
  ASSUME LedgerTypes, NEW s \in Server,
         NEW m \in [at : {"idle", "read", "inserted", "admitted"}, request : Request,
                    grant : Grant \union {Off}],
         admitting' = [admitting EXCEPT ![s] = m]
  PROVE  /\ admitting' \in [Server -> [at : {"idle", "read", "inserted", "admitted"},
                                       request : Request, grant : Grant \union {Off}]]
         /\ admitting'[s] = m /\ \A r \in Server : r # s => admitting'[r] = admitting[r]
         /\ \A g \in Grant :
              /\ Uncounted(g)' = IF m.at = "inserted" /\ m.grant = g THEN Uncounted(g) \union {s}
                                 ELSE Uncounted(g) \ {s}
              /\ Promised(g)' = IF m.at \in {"read", "inserted"} /\ m.grant = g
                                THEN Promised(g) \union {s} ELSE Promised(g) \ {s}
<1>1. /\ admitting' \in [Server -> [at : {"idle", "read", "inserted", "admitted"},
                                    request : Request, grant : Grant \union {Off}]]
      /\ admitting'[s] = m /\ \A r \in Server : r # s => admitting'[r] = admitting[r]
  BY DEF LedgerTypes
<1>2. ASSUME NEW g \in Grant
      PROVE  /\ Uncounted(g)' = IF m.at = "inserted" /\ m.grant = g THEN Uncounted(g) \union {s}
                                ELSE Uncounted(g) \ {s}
             /\ Promised(g)' = IF m.at \in {"read", "inserted"} /\ m.grant = g
                               THEN Promised(g) \union {s} ELSE Promised(g) \ {s}
  BY <1>1 DEF Uncounted, Promised
<1> QED
  BY <1>1, <1>2

\* A review start reads the budget.
LEMMA ReadKeepsLedger ==
  ASSUME LedgerStands, NEW s \in Server, NEW r \in Request, ReadBudget(s, r)
  PROVE  LedgerStands'
<1> DEFINE m == [request |-> r, grant |-> Current,
                 at |-> IF Current # Off /\ AdmissionOf(<<s, r>>) = {} THEN "read" ELSE "admitted"]
<1>1. /\ admitting' = [admitting EXCEPT ![s] = m] /\ UNCHANGED <<grants, admissions, started>>
      /\ admitting[s].at = "idle"
  BY DEF ReadBudget
<1>2. Current \in Grant \union {Off}
  BY CurrentIsActive
<1>3. /\ m.request = r /\ m.grant = Current /\ m.at \in {"read", "admitted"}
      /\ m.at = "read" <=> Current # Off /\ AdmissionOf(<<s, r>>) = {}
      /\ m \in [at : {"idle", "read", "inserted", "admitted"}, request : Request,
                grant : Grant \union {Off}]
  BY <1>2
<1> HIDE DEF m
<1>4. /\ admitting' \in [Server -> [at : {"idle", "read", "inserted", "admitted"},
                                    request : Request, grant : Grant \union {Off}]]
      /\ admitting'[s] = m /\ \A q \in Server : q # s => admitting'[q] = admitting[q]
      /\ \A g \in Grant :
           /\ Uncounted(g)' = Uncounted(g) \ {s}
           /\ Promised(g)' = IF m.at \in {"read", "inserted"} /\ m.grant = g
                             THEN Promised(g) \union {s} ELSE Promised(g) \ {s}
  BY <1>1, <1>3, ServerCounts DEF LedgerStands
<1>5. Opened' = Opened /\ ActiveGrant' = ActiveGrant
      /\ \A g \in Grant : AdmittedFrom(g)' = AdmittedFrom(g)
  BY <1>1 DEF Opened, ActiveGrant, AdmittedFrom
<1>6. LedgerTypes' /\ LastIsActive' /\ AdmittedOnce' /\ StartedAdmitted'
  BY <1>1, <1>4, <1>5
  DEF LedgerStands, LedgerTypes, LastIsActive, AdmittedOnce, StartedAdmitted, AdmissionOf
<1>7. StartsKnow'
  <2>1. \A o : AdmissionOf(o)' = AdmissionOf(o)
    BY <1>1 DEF AdmissionOf
  <2>2. Current # Off => Current \in Opened /\ Current = Cardinality(Opened)
    BY CurrentIsActive DEF LedgerStands, LastIsActive, ActiveGrant, Opened
  <2>3. \A a \in admissions : Current # Off => a.grant <= Current
    BY <2>2, CountedSets DEF LedgerStands, AdmittedOnce, LastIsActive
  <2>4. AdmissionOf(<<s, r>>) # {} /\ Current # Off
          => \E a \in AdmissionOf(<<s, r>>) : a.grant <= Current
    BY <2>3 DEF AdmissionOf
  <2>5. ASSUME NEW q \in Server
        PROVE  LET n == admitting'[q]
                   mine == AdmissionOf(<<q, n.request>>) IN
               /\ n.grant # Off => n.grant \in Opened
               /\ n.at \in {"read", "inserted"} => n.grant # Off
               /\ n.at = "read" => mine = {}
               /\ n.at \in {"inserted", "admitted"} /\ n.grant # Off
                    => \E a \in mine : a.grant <= n.grant
    <3>1. CASE q = s
      BY <1>3, <1>4, <2>2, <2>4, <3>1
    <3>2. CASE q # s
      BY <1>4, <3>2 DEF LedgerStands, StartsKnow
    <3> QED
      BY <3>1, <3>2
  <2> QED
    BY <1>5, <2>1, <2>5 DEF StartsKnow
<1>8. Counted'
  <2> SUFFICES ASSUME NEW h \in Grant'
               PROVE  /\ (grants[h].used + Cardinality(Uncounted(h))
                            <= Cardinality(AdmittedFrom(h)))'
                      /\ (grants[h].used + Cardinality(Promised(h))
                            <= grants[h].ceiling + Cardinality(Server))'
    BY DEF Counted
  <2>1. /\ h \in Grant /\ IsFiniteSet(Promised(h)) /\ IsFiniteSet(Uncounted(h))
        /\ Cardinality(Promised(h)) \in Nat /\ Cardinality(Server) \in Nat
        /\ Cardinality(Uncounted(h)) \in Nat /\ Cardinality(AdmittedFrom(h)) \in Nat
        /\ grants[h].used \in Nat /\ grants[h].ceiling \in Nat
    BY CountedSets DEF LedgerStands, Grant, LedgerTypes
  <2>2. /\ grants[h].used + Cardinality(Uncounted(h)) <= Cardinality(AdmittedFrom(h))
        /\ grants[h].used + Cardinality(Promised(h)) <= grants[h].ceiling + Cardinality(Server)
    BY <2>1 DEF LedgerStands, Counted
  <2>3. Cardinality(Promised(h)') \in Nat /\ Cardinality(Promised(h)') <= Cardinality(Server)
    <3>1. Promised(h)' \in SUBSET Server
      BY DEF Promised
    <3> QED
      BY <3>1, FS_Subset, FS_CardinalityType, OwnersAssumption
  <2>4. /\ Cardinality(Uncounted(h) \ {s}) <= Cardinality(Uncounted(h))
        /\ Cardinality(Promised(h) \ {s}) <= Cardinality(Promised(h))
        /\ Cardinality(Uncounted(h) \ {s}) \in Nat /\ Cardinality(Promised(h) \ {s}) \in Nat
    BY <2>1, CountOne, FS_RemoveElement, FS_CardinalityType
  <2>5. CASE m.at = "read" /\ m.grant = h
    <3>1. grants[h].used < grants[h].ceiling
      <4>1. Affordable(h)
        BY <1>3, <2>5 DEF ReadBudget
      <4> QED
        BY <2>1, <4>1 DEF Affordable, Remains
    <3>2. /\ grants' = grants /\ Uncounted(h)' = Uncounted(h) \ {s}
          /\ AdmittedFrom(h)' = AdmittedFrom(h)
      BY <1>1, <1>4, <1>5, <2>1
    <3> QED
      BY <2>1, <2>2, <2>3, <2>4, <3>1, <3>2
  <2>6. CASE ~(m.at = "read" /\ m.grant = h)
    <3>1. Promised(h)' = Promised(h) \ {s} /\ Uncounted(h)' = Uncounted(h) \ {s}
      BY <1>3, <1>4, <2>1, <2>6
    <3> QED
      BY <1>1, <1>5, <2>1, <2>2, <2>4, <3>1
  <2> QED
    BY <2>5, <2>6
<1> QED
  BY <1>6, <1>7, <1>8 DEF LedgerStands

\* The admission row of a review start.
LEMMA InsertKeepsLedger ==
  ASSUME LedgerStands, NEW s \in Server, InsertAdmission(s)
  PROVE  LedgerStands'
<1>1. PICK g \in Grant : g = admitting[s].grant /\ g \in Opened
  BY DEF InsertAdmission, LedgerStands, LedgerTypes, StartsKnow
<1>2. PICK r \in Request : r = admitting[s].request
  BY DEF LedgerStands, LedgerTypes
<1>3. PICK m : m = [admitting[s] EXCEPT !.at = "inserted"]
  OBVIOUS
<1>4. /\ admitting[s].at = "read" /\ AdmissionOf(<<s, r>>) = {}
      /\ admissions' = admissions \union {[owner |-> <<s, r>>, grant |-> g]}
      /\ admitting' = [admitting EXCEPT ![s] = m]
      /\ UNCHANGED <<grants, started>>
  BY <1>1, <1>2, <1>3 DEF InsertAdmission, LedgerStands, StartsKnow
<1>5. /\ m \in [at : {"idle", "read", "inserted", "admitted"}, request : Request,
                grant : Grant \union {Off}]
      /\ m.at = "inserted" /\ m.request = r /\ m.grant = g
  <2>1. admitting[s] \in [at : {"idle", "read", "inserted", "admitted"}, request : Request,
                          grant : Grant \union {Off}]
    BY DEF LedgerStands, LedgerTypes
  <2> QED
    BY <1>1, <1>2, <1>3, <2>1
<1>6. /\ admitting' \in [Server -> [at : {"idle", "read", "inserted", "admitted"},
                                    request : Request, grant : Grant \union {Off}]]
      /\ admitting'[s] = m /\ \A q \in Server : q # s => admitting'[q] = admitting[q]
      /\ \A h \in Grant :
           /\ Uncounted(h)' = IF g = h THEN Uncounted(h) \union {s} ELSE Uncounted(h) \ {s}
           /\ Promised(h)' = IF g = h THEN Promised(h) \union {s} ELSE Promised(h) \ {s}
  BY <1>4, <1>5, ServerCounts DEF LedgerStands
<1>7. Opened' = Opened /\ ActiveGrant' = ActiveGrant
  BY <1>4 DEF Opened, ActiveGrant
<1>8. <<s, r>> \in Owner
  BY DEF Owner
<1>9. /\ AdmittedOnce'
      /\ Cardinality(AdmittedFrom(g)') = Cardinality(AdmittedFrom(g)) + 1
      /\ \A h \in Grant : h # g => AdmittedFrom(h)' = AdmittedFrom(h)
  BY <1>1, <1>4, <1>7, <1>8, AdmitCounts DEF LedgerStands
<1>10. LedgerTypes' /\ LastIsActive'
  BY <1>4, <1>6, <1>7 DEF LedgerStands, LedgerTypes, LastIsActive
<1>11. StartedAdmitted'
  BY <1>4, StartsStay DEF LedgerStands
<1>12. StartsKnow'
  <2>1. [owner |-> <<s, r>>, grant |-> g] \in AdmissionOf(<<s, r>>)' /\ g <= g
    BY <1>1, <1>4, BudgetBounds DEF AdmissionOf, Grant
  <2>2. ASSUME NEW q \in Server
        PROVE  (LET n == admitting[q]
                    mine == AdmissionOf(<<q, n.request>>) IN
                /\ n.grant # Off => n.grant \in Opened
                /\ n.at \in {"read", "inserted"} => n.grant # Off
                /\ n.at = "read" => mine = {}
                /\ n.at \in {"inserted", "admitted"} /\ n.grant # Off
                     => \E a \in mine : a.grant <= n.grant)'
    <3>1. CASE q = s
      <4>1. admitting'[q] = m /\ <<q, m.request>> = <<s, r>> /\ g # Off
        BY <1>1, <1>5, <1>6, <3>1, BudgetBounds DEF Grant, Off
      <4>2. AdmissionOf(<<q, admitting[q].request>>)' = AdmissionOf(<<s, r>>)'
        BY <4>1 DEF AdmissionOf
      <4>3. \E a \in AdmissionOf(<<s, r>>)' : a.grant <= g
        BY <2>1
      <4> QED
        BY <1>1, <1>5, <1>7, <4>1, <4>2, <4>3
    <3>2. CASE q # s
      <4>1. admitting'[q] = admitting[q]
        BY <1>6, <3>2
      <4>2. AdmissionOf(<<q, admitting[q].request>>)' = AdmissionOf(<<q, admitting[q].request>>)
        BY <1>4, <3>2, <4>1 DEF AdmissionOf
      <4> QED
        BY <1>7, <4>1, <4>2 DEF LedgerStands, StartsKnow
    <3> QED
      BY <3>1, <3>2
  <2> QED
    BY <2>2 DEF StartsKnow
<1>13. Counted'
  <2> SUFFICES ASSUME NEW h \in Grant'
               PROVE  /\ (grants[h].used + Cardinality(Uncounted(h))
                            <= Cardinality(AdmittedFrom(h)))'
                      /\ (grants[h].used + Cardinality(Promised(h))
                            <= grants[h].ceiling + Cardinality(Server))'
    BY DEF Counted
  <2>1. /\ h \in Grant /\ IsFiniteSet(Promised(h)) /\ IsFiniteSet(Uncounted(h))
        /\ Cardinality(Promised(h)) \in Nat /\ Cardinality(Server) \in Nat
        /\ Cardinality(Uncounted(h)) \in Nat /\ Cardinality(AdmittedFrom(h)) \in Nat
        /\ grants[h].used \in Nat /\ grants[h].ceiling \in Nat
    BY CountedSets DEF LedgerStands, Grant, LedgerTypes
  <2>2. /\ grants[h].used + Cardinality(Uncounted(h)) <= Cardinality(AdmittedFrom(h))
        /\ grants[h].used + Cardinality(Promised(h)) <= grants[h].ceiling + Cardinality(Server)
    BY <2>1 DEF LedgerStands, Counted
  <2>3. CASE h = g
    <3>1. s \in Promised(h) /\ s \notin Uncounted(h)
      BY <1>1, <1>4, <2>3 DEF Promised, Uncounted
    <3>2. Promised(h)' = Promised(h) /\ Uncounted(h)' = Uncounted(h) \union {s}
      BY <1>6, <2>1, <2>3, <3>1
    <3>3. Cardinality(Uncounted(h)') = Cardinality(Uncounted(h)) + 1
      BY <2>1, <3>1, <3>2, CountOne
    <3>4. Cardinality(AdmittedFrom(h)') = Cardinality(AdmittedFrom(h)) + 1
      BY <1>9, <2>3
    <3> QED
      BY <1>4, <2>1, <2>2, <3>2, <3>3, <3>4
  <2>4. CASE h # g
    <3>1. s \notin Promised(h) /\ s \notin Uncounted(h)
      BY <1>1, <2>4 DEF Promised, Uncounted
    <3>2. Promised(h)' = Promised(h) /\ Uncounted(h)' = Uncounted(h)
          /\ AdmittedFrom(h)' = AdmittedFrom(h)
      BY <1>6, <1>9, <2>1, <2>4, <3>1
    <3> QED
      BY <1>4, <2>2, <3>2
  <2> QED
    BY <2>3, <2>4
<1> QED
  BY <1>9, <1>10, <1>11, <1>12, <1>13 DEF LedgerStands

\* The count of an admission.
LEMMA CountKeepsLedger ==
  ASSUME LedgerStands, NEW s \in Server, CountAdmission(s)
  PROVE  LedgerStands'
<1>1. PICK g \in Grant : g = admitting[s].grant /\ g \in Opened
  BY DEF CountAdmission, LedgerStands, LedgerTypes, StartsKnow
<1>2. PICK m : m = [admitting[s] EXCEPT !.at = "admitted"]
  OBVIOUS
<1>3. /\ admitting[s].at = "inserted" /\ grants' = Spent(g)
      /\ admitting' = [admitting EXCEPT ![s] = m]
      /\ UNCHANGED <<admissions, started>>
  BY <1>1, <1>2 DEF CountAdmission
<1>4. /\ m \in [at : {"idle", "read", "inserted", "admitted"}, request : Request,
                grant : Grant \union {Off}]
      /\ m.at = "admitted" /\ m.request = admitting[s].request /\ m.grant = g
  <2>1. admitting[s] \in [at : {"idle", "read", "inserted", "admitted"}, request : Request,
                          grant : Grant \union {Off}]
    BY DEF LedgerStands, LedgerTypes
  <2> QED
    BY <1>1, <1>2, <2>1
<1>5. /\ admitting' \in [Server -> [at : {"idle", "read", "inserted", "admitted"},
                                    request : Request, grant : Grant \union {Off}]]
      /\ admitting'[s] = m /\ \A q \in Server : q # s => admitting'[q] = admitting[q]
      /\ \A h \in Grant :
           Uncounted(h)' = Uncounted(h) \ {s} /\ Promised(h)' = Promised(h) \ {s}
  BY <1>3, <1>4, ServerCounts DEF LedgerStands
<1>6. /\ grants' \in [Grant -> [ceiling : 0..MaxCeiling, used : Nat,
                                state : {"none", "active", "closed"}]]
      /\ grants'[g].used = grants[g].used + 1 /\ grants'[g].ceiling = grants[g].ceiling
      /\ \A h \in Grant : h # g => grants'[h] = grants[h]
      /\ Opened' = Opened /\ ActiveGrant' = ActiveGrant
  BY <1>3, SpendCounts DEF LedgerStands
<1>7. \A h \in Grant : AdmittedFrom(h)' = AdmittedFrom(h)
  BY <1>3 DEF AdmittedFrom
<1>8. LedgerTypes' /\ LastIsActive' /\ AdmittedOnce' /\ StartedAdmitted'
  BY <1>3, <1>5, <1>6
  DEF LedgerStands, LedgerTypes, LastIsActive, AdmittedOnce, StartedAdmitted, AdmissionOf
<1>9. StartsKnow'
  <2>1. \A o : AdmissionOf(o)' = AdmissionOf(o)
    BY <1>3 DEF AdmissionOf
  <2>2. ASSUME NEW q \in Server
        PROVE  LET n == admitting'[q]
                   mine == AdmissionOf(<<q, n.request>>) IN
               /\ n.grant # Off => n.grant \in Opened
               /\ n.at \in {"read", "inserted"} => n.grant # Off
               /\ n.at = "read" => mine = {}
               /\ n.at \in {"inserted", "admitted"} /\ n.grant # Off
                    => \E a \in mine : a.grant <= n.grant
    <3>1. CASE q = s
      BY <1>1, <1>3, <1>4, <1>5, <3>1 DEF LedgerStands, StartsKnow
    <3>2. CASE q # s
      BY <1>5, <3>2 DEF LedgerStands, StartsKnow
    <3> QED
      BY <3>1, <3>2
  <2> QED
    BY <1>6, <2>1, <2>2 DEF StartsKnow
<1>10. Counted'
  <2> SUFFICES ASSUME NEW h \in Grant'
               PROVE  /\ (grants[h].used + Cardinality(Uncounted(h))
                            <= Cardinality(AdmittedFrom(h)))'
                      /\ (grants[h].used + Cardinality(Promised(h))
                            <= grants[h].ceiling + Cardinality(Server))'
    BY DEF Counted
  <2>1. /\ h \in Grant /\ IsFiniteSet(Promised(h)) /\ IsFiniteSet(Uncounted(h))
        /\ Cardinality(Promised(h)) \in Nat /\ Cardinality(Server) \in Nat
        /\ Cardinality(Uncounted(h)) \in Nat /\ Cardinality(AdmittedFrom(h)) \in Nat
        /\ grants[h].used \in Nat /\ grants[h].ceiling \in Nat
    BY CountedSets DEF LedgerStands, Grant, LedgerTypes
  <2>2. /\ grants[h].used + Cardinality(Uncounted(h)) <= Cardinality(AdmittedFrom(h))
        /\ grants[h].used + Cardinality(Promised(h)) <= grants[h].ceiling + Cardinality(Server)
    BY <2>1 DEF LedgerStands, Counted
  <2>3. Uncounted(h)' = Uncounted(h) \ {s} /\ Promised(h)' = Promised(h) \ {s}
        /\ AdmittedFrom(h)' = AdmittedFrom(h)
    BY <1>5, <1>7, <2>1
  <2>4. CASE h = g
    <3>1. s \in Promised(h) /\ s \in Uncounted(h)
      BY <1>1, <1>3, <2>4 DEF Promised, Uncounted
    <3>2. Cardinality(Uncounted(h)') = Cardinality(Uncounted(h)) - 1
          /\ Cardinality(Promised(h)') = Cardinality(Promised(h)) - 1
      BY <2>1, <2>3, <3>1, CountOne
    <3>3. grants'[h].used = grants[h].used + 1 /\ grants'[h].ceiling = grants[h].ceiling
      BY <1>6, <2>4
    <3> QED
      BY <2>1, <2>2, <2>3, <3>2, <3>3
  <2>5. CASE h # g
    <3>1. s \notin Promised(h) /\ s \notin Uncounted(h)
      BY <1>1, <2>5 DEF Promised, Uncounted
    <3>2. Promised(h)' = Promised(h) /\ Uncounted(h)' = Uncounted(h)
      BY <2>3, <3>1
    <3> QED
      BY <1>6, <2>1, <2>2, <2>3, <2>5, <3>2
  <2> QED
    BY <2>4, <2>5
<1> QED
  BY <1>8, <1>9, <1>10 DEF LedgerStands

\* The end of a review start, in order or by the death of its server.
LEMMA EndKeepsLedger ==
  ASSUME LedgerStands, NEW s \in Server, StartReview(s) \/ LoseReview(s)
  PROVE  LedgerStands'
<1>1. PICK m : m = [admitting[s] EXCEPT !.at = "idle", !.grant = Off]
  OBVIOUS
<1>2. PICK u : u = [owner |-> <<s, admitting[s].request>>, grant |-> admitting[s].grant]
  OBVIOUS
<1>3. /\ UNCHANGED <<grants, admissions>>
      /\ \/ started' = started
         \/ started' = started \union {u} /\ admitting[s].at = "admitted"
  BY <1>2 DEF StartReview, LoseReview
<1>4. admitting' = [admitting EXCEPT ![s] = m]
  <2>1. admitting' = [admitting EXCEPT ![s].at = "idle", ![s].grant = Off]
    BY DEF StartReview, LoseReview
  <2>2. admitting[s] \in [at : {"idle", "read", "inserted", "admitted"}, request : Request,
                          grant : Grant \union {Off}]
        /\ DOMAIN admitting = Server
    BY DEF LedgerStands, LedgerTypes
  <2> QED
    BY <1>1, <2>1, <2>2, Zenon
<1>5. /\ m \in [at : {"idle", "read", "inserted", "admitted"}, request : Request,
                grant : Grant \union {Off}]
      /\ m.at = "idle" /\ m.grant = Off
  <2>1. admitting[s] \in [at : {"idle", "read", "inserted", "admitted"}, request : Request,
                          grant : Grant \union {Off}]
    BY DEF LedgerStands, LedgerTypes
  <2> QED
    BY <1>1, <2>1
<1>6. /\ admitting' \in [Server -> [at : {"idle", "read", "inserted", "admitted"},
                                    request : Request, grant : Grant \union {Off}]]
      /\ admitting'[s] = m /\ \A q \in Server : q # s => admitting'[q] = admitting[q]
      /\ \A h \in Grant :
           Uncounted(h)' = Uncounted(h) \ {s} /\ Promised(h)' = Promised(h) \ {s}
  BY <1>4, <1>5, ServerCounts DEF LedgerStands
<1>7. Opened' = Opened /\ ActiveGrant' = ActiveGrant
      /\ \A g \in Grant : AdmittedFrom(g)' = AdmittedFrom(g)
  BY <1>3 DEF Opened, ActiveGrant, AdmittedFrom
<1>8. u.owner \in Owner /\ u.grant \in Grant \union {Off}
  BY <1>2 DEF LedgerStands, LedgerTypes, Owner
<1>9. LedgerTypes'
  BY <1>3, <1>6, <1>8 DEF LedgerStands, LedgerTypes
<1>10. LastIsActive' /\ AdmittedOnce'
  BY <1>3, <1>7 DEF LedgerStands, LastIsActive, AdmittedOnce
<1>11. StartedAdmitted'
  <2>1. admitting[s].at = "admitted" /\ u.grant # Off
          => \E a \in AdmissionOf(u.owner) : a.grant <= u.grant
    BY <1>2 DEF LedgerStands, StartsKnow
  <2>2. \A o : AdmissionOf(o)' = AdmissionOf(o)
    BY <1>3 DEF AdmissionOf
  <2> QED
    BY <1>3, <2>1, <2>2 DEF LedgerStands, StartedAdmitted
<1>12. StartsKnow'
  <2>1. \A o : AdmissionOf(o)' = AdmissionOf(o)
    BY <1>3 DEF AdmissionOf
  <2> QED
    BY <1>5, <1>6, <1>7, <2>1 DEF LedgerStands, StartsKnow
<1>13. Counted'
  <2> SUFFICES ASSUME NEW h \in Grant'
               PROVE  /\ (grants[h].used + Cardinality(Uncounted(h))
                            <= Cardinality(AdmittedFrom(h)))'
                      /\ (grants[h].used + Cardinality(Promised(h))
                            <= grants[h].ceiling + Cardinality(Server))'
    BY DEF Counted
  <2>1. /\ h \in Grant /\ IsFiniteSet(Promised(h)) /\ IsFiniteSet(Uncounted(h))
        /\ Cardinality(Promised(h)) \in Nat /\ Cardinality(Server) \in Nat
        /\ Cardinality(Uncounted(h)) \in Nat /\ Cardinality(AdmittedFrom(h)) \in Nat
        /\ grants[h].used \in Nat /\ grants[h].ceiling \in Nat
    BY CountedSets DEF LedgerStands, Grant, LedgerTypes
  <2>2. /\ grants[h].used + Cardinality(Uncounted(h)) <= Cardinality(AdmittedFrom(h))
        /\ grants[h].used + Cardinality(Promised(h)) <= grants[h].ceiling + Cardinality(Server)
    BY <2>1 DEF LedgerStands, Counted
  <2>3. /\ Cardinality(Uncounted(h) \ {s}) <= Cardinality(Uncounted(h))
        /\ Cardinality(Promised(h) \ {s}) <= Cardinality(Promised(h))
        /\ Cardinality(Uncounted(h) \ {s}) \in Nat /\ Cardinality(Promised(h) \ {s}) \in Nat
    BY <2>1, CountOne, FS_RemoveElement, FS_CardinalityType
  <2>4. grants' = grants /\ Uncounted(h)' = Uncounted(h) \ {s} /\ Promised(h)' = Promised(h) \ {s}
        /\ AdmittedFrom(h)' = AdmittedFrom(h)
    BY <1>3, <1>6, <1>7, <2>1
  <2> QED
    BY <2>1, <2>2, <2>3, <2>4
<1> QED
  BY <1>9, <1>10, <1>11, <1>12, <1>13 DEF LedgerStands

\* However servers, operator and deaths interleave, nothing starts without an admission,
\* an admission is spent from one grant, and a ceiling is passed by at most one review of
\* each server.
THEOREM GrantCeiling == BudgetSpec => []GrantIsACeiling
<1>1. BudgetInit => LedgerStands
  <2> SUFFICES ASSUME BudgetInit PROVE LedgerStands
    OBVIOUS
  <2>1. Opened = {} /\ ActiveGrant = {} /\ Cardinality({}) = 0 /\ 1..0 = {}
    BY FS_EmptySet DEF BudgetInit, Opened, ActiveGrant
  <2>2. \A g \in Grant : Uncounted(g) = {} /\ Promised(g) = {} /\ AdmittedFrom(g) = {}
    BY DEF BudgetInit, Uncounted, Promised, AdmittedFrom
  <2>3. LedgerTypes
    BY BudgetBounds DEF BudgetInit, LedgerTypes
  <2>4. LastIsActive /\ AdmittedOnce /\ StartedAdmitted /\ StartsKnow
    BY <2>1 DEF BudgetInit, LastIsActive, AdmittedOnce, StartedAdmitted, StartsKnow
  <2>5. Counted
    <3>1. Cardinality(Server) \in Nat
      BY OwnersAssumption, FS_CardinalityType
    <3> QED
      BY <2>1, <2>2, <3>1 DEF BudgetInit, Counted
  <2> QED
    BY <2>3, <2>4, <2>5 DEF LedgerStands
<1>2. LedgerStands /\ [BudgetNext]_budgetVars => LedgerStands'
  <2> SUFFICES ASSUME LedgerStands, [BudgetNext]_budgetVars PROVE LedgerStands'
    OBVIOUS
  <2>1. CASE UNCHANGED budgetVars
    BY <2>1, ZenonT(60) DEF budgetVars, LedgerStands, LedgerTypes, LastIsActive, AdmittedOnce, StartsKnow,
       StartedAdmitted, Counted, Opened, ActiveGrant, AdmissionOf, Uncounted, Promised,
       AdmittedFrom, Grant, Owner
  <2>2. CASE BudgetNext
    BY <2>2, OperatorKeepsLedger, UnitKeepsLedger, ReadKeepsLedger, InsertKeepsLedger,
       CountKeepsLedger, EndKeepsLedger DEF BudgetNext
  <2> QED
    BY <2>1, <2>2
<1>3. LedgerStands => GrantIsACeiling
  <2> SUFFICES ASSUME LedgerStands PROVE GrantIsACeiling
    OBVIOUS
  <2>1. \A g \in Grant : Admitted(g) = Cardinality(AdmittedFrom(g))
    BY DEF Admitted, AdmittedFrom
  <2>2. \A g \in Grant :
          /\ grants[g].used <= Admitted(g)
          /\ grants[g].used <= grants[g].ceiling + Cardinality(Server)
          /\ grants[g].used <= Cardinality(Owner)
    <3> SUFFICES ASSUME NEW g \in Grant
                 PROVE  /\ grants[g].used <= Cardinality(AdmittedFrom(g))
                        /\ grants[g].used <= grants[g].ceiling + Cardinality(Server)
                        /\ grants[g].used <= Cardinality(Owner)
      BY <2>1
    <3>1. /\ Cardinality(Promised(g)) \in Nat /\ Cardinality(Server) \in Nat
          /\ Cardinality(Uncounted(g)) \in Nat /\ Cardinality(AdmittedFrom(g)) \in Nat
          /\ grants[g].used \in Nat /\ grants[g].ceiling \in Nat
          /\ Cardinality(Owner) \in Nat /\ Cardinality(AdmittedFrom(g)) <= Cardinality(Owner)
      BY CountedSets DEF LedgerStands, LedgerTypes
    <3>2. /\ grants[g].used + Cardinality(Uncounted(g)) <= Cardinality(AdmittedFrom(g))
          /\ grants[g].used + Cardinality(Promised(g)) <= grants[g].ceiling + Cardinality(Server)
      BY DEF LedgerStands, Counted
    <3> QED
      BY <3>1, <3>2
  <2>3. BudgetTypeOK
    <3>1. \A g \in Grant : grants[g] \in [ceiling : 0..MaxCeiling,
            used : 0..(MaxCeiling + MaxUnits + Cardinality(Owner)),
            state : {"none", "active", "closed"}]
      <4> SUFFICES ASSUME NEW g \in Grant
                   PROVE  grants[g] \in [ceiling : 0..MaxCeiling,
                            used : 0..(MaxCeiling + MaxUnits + Cardinality(Owner)),
                            state : {"none", "active", "closed"}]
        OBVIOUS
      <4>1. grants[g] \in [ceiling : 0..MaxCeiling, used : Nat,
                           state : {"none", "active", "closed"}]
        BY DEF LedgerStands, LedgerTypes
      <4>2. grants[g].used \in 0..(MaxCeiling + MaxUnits + Cardinality(Owner))
        BY <2>2, <4>1, CountedSets, BudgetBounds DEF LedgerStands
      <4> QED
        BY <4>1, <4>2
    <3>2. \A a \in admissions : a.owner \in Owner /\ a.grant \in Grant
      BY DEF LedgerStands, AdmittedOnce
    <3> QED
      BY <3>1, <3>2 DEF LedgerStands, LedgerTypes, BudgetTypeOK
  <2>4. Cardinality(ActiveGrant) <= 1
    <3>1. ActiveGrant \in SUBSET {Cardinality(Opened)}
      BY DEF LedgerStands, LastIsActive
    <3>2. IsFiniteSet({Cardinality(Opened)}) /\ Cardinality({Cardinality(Opened)}) = 1
      BY FS_Singleton, Zenon
    <3> QED
      BY <3>1, <3>2, FS_Subset
  <2>5. ASSUME NEW o \in Owner
        PROVE  Cardinality(AdmissionOf(o)) <= 1
    <3>1. CASE AdmissionOf(o) = {}
      BY <3>1, FS_EmptySet
    <3>2. ASSUME NEW a \in AdmissionOf(o)
          PROVE  Cardinality(AdmissionOf(o)) <= 1
      <4>1. AdmissionOf(o) = {a}
        BY DEF AdmissionOf, LedgerStands, AdmittedOnce
      <4> QED
        BY <4>1, FS_Singleton
    <3> QED
      BY <3>1, <3>2
  <2> QED
    BY <2>2, <2>3, <2>4, <2>5 DEF GrantIsACeiling, LedgerStands, StartedAdmitted
<1> QED
  BY <1>1, <1>2, <1>3, PTL DEF BudgetSpec

-----------------------------------------------------------------------------
(* WorkWorkspace.  Two scans that agree bracket a moment: a file that was  *)
(* not what was saved at that moment was edited before it, and again       *)
(* before its second reading.                                              *)

AttemptStates == {"assigned", "running", "recovery"} \union Ended
Attempts == [kind : {"implement", "review", "manual"}, state : AttemptStates,
             output : SUBSET Commits, live : BOOLEAN, lost : BOOLEAN, there : [File -> BOOLEAN]]
CopyStates == {"none", "partial", "ready", "gone"}
Edits == 0..MaxEdits
Copies == [at : CopyStates, files : Contents, head : Contents, moved : BOOLEAN, edits : Edits]
Scanners == {"nobody", "finish", "preserve", "verify"}
ScanStates == {"first", "second", "captured", "refused"}
Scans == [by : Scanners, at : ScanStates, todo : SUBSET File, seen : Contents,
          middle : Contents, touched : [File -> Nat]]
Cleaners == [at : {"idle", "read", "remove"}, state : AttemptStates, looked : Contents]

\* The records of the working copy.
SpaceTypes ==
  /\ attempt \in Attempts /\ copy \in Copies /\ copyScan \in Scans
  /\ retained \in SUBSET Commits /\ cleaner \in Cleaners

\* What the two scans have established of each file so far.
ScansBracket ==
  /\ copyScan.by # "nobody" /\ copyScan.at = "first" =>
       \A f \in File \ copyScan.todo :
         copyScan.touched[f] = 0 => copy.files[f] = copyScan.seen[f]
  /\ copyScan.by # "nobody" /\ copyScan.at = "second" =>
       /\ \A f \in File \ Owned : copyScan.seen[f] = 0
       /\ \A f \in File :
            /\ copyScan.middle[f] # copyScan.seen[f] => copyScan.touched[f] >= 1
            /\ copyScan.middle[f] # copyScan.seen[f] /\ copy.files[f] # copyScan.middle[f]
                 => copyScan.touched[f] >= 2
            /\ f \in copyScan.todo \/ copyScan.middle[f] = copyScan.seen[f]
                 \/ copyScan.touched[f] >= 2

\* What was kept and what was recorded of it.
KeptIsTrue ==
  /\ \A commit \in retained : \A f \in Foreign : commit.files[f] = 0
  /\ \A c, d \in retained : c = d
  /\ \A f \in File : attempt.there[f]
  /\ attempt.output # {} => attempt.output = retained

\* Whoever scans holds the attempt open, whoever removes a copy has seen it ended.
CleanerKnows ==
  /\ copyScan.by # "nobody" => attempt.state \in {"running", "recovery"} /\ cleaner.at # "remove"
  /\ copyScan.by = "nobody" => copyScan.at = "first"
  /\ cleaner.at \in {"read", "remove"} /\ cleaner.state \in Ended => attempt.state \in Ended
  /\ ~copy.moved => copy.head = Base
  /\ cleaner.at = "remove" => cleaner.state \in Ended /\ copy.at = "ready"
  /\ cleaner.at = "remove" \/ copy.at = "gone" =>
       /\ attempt.state \in Ended /\ copyScan.by = "nobody"
       /\ retained = {} /\ ~copy.moved => \A f \in File \ Ignored : cleaner.looked[f] = 0

WorkIsSaved ==
  SpaceTypes /\ ScansBracket /\ KeptIsTrue /\ CleanerKnows

\* A step of the attempt alone that does not leave an end, nor end under a scan.
LEMMA AttemptSteps ==
  ASSUME WorkIsSaved, UNCHANGED <<copy, copyScan, retained, cleaner>>,
         attempt' \in Attempts, attempt'.there = attempt.there, attempt'.output = attempt.output,
         attempt.state \in Ended => attempt'.state \in Ended,
         copyScan.by # "nobody" => attempt'.state \in {"running", "recovery"}
  PROVE  WorkIsSaved'
BY DEF WorkIsSaved, SpaceTypes, ScansBracket, KeptIsTrue, CleanerKnows, Base, File, Contents,
       Ended, Commits

\* The steps of the attempt, its copy and who edits it.
LEMMA EditorsKeepWork ==
  ASSUME WorkIsSaved,
         AddCopy \/ WriteManifest \/ PreparationFails \/ CommitInCopy \/ ModelStops
           \/ ClaimManually \/ Dispose \/ Fence \/ \E f \in File : EditCopy(f)
  PROVE  WorkIsSaved'
<1> USE EditsBound DEF WorkIsSaved
<1>1. ASSUME NEW state \in AttemptStates, NEW live \in BOOLEAN
      PROVE  LET new == [attempt EXCEPT !.state = state, !.live = live] IN
             /\ new \in Attempts /\ new.there = attempt.there /\ new.output = attempt.output
             /\ new.state = state
  BY DEF SpaceTypes, Attempts
<1>2. /\ [attempt EXCEPT !.live = FALSE] = [attempt EXCEPT !.state = attempt.state, !.live = FALSE]
      /\ [attempt EXCEPT !.live = TRUE] = [attempt EXCEPT !.state = attempt.state, !.live = TRUE]
      /\ attempt.state \in AttemptStates /\ attempt.live \in BOOLEAN
      /\ \A state \in AttemptStates : [attempt EXCEPT !.state = state]
           = [attempt EXCEPT !.state = state, !.live = attempt.live]
  BY DEF SpaceTypes, Attempts
<1>3. {"assigned", "running", "recovery", "succeeded", "reconciled"} \subseteq AttemptStates
  BY DEF AttemptStates, Ended
<1>4. ASSUME NEW state \in AttemptStates, attempt' = [attempt EXCEPT !.state = state],
             UNCHANGED <<copy, copyScan, retained, cleaner>>,
             attempt.state \in Ended => state \in Ended,
             copyScan.by # "nobody" => state \in {"running", "recovery"}
      PROVE  WorkIsSaved'
  <2>1. attempt' = [attempt EXCEPT !.state = state, !.live = attempt.live]
    BY <1>2, <1>4
  <2>2. attempt' \in Attempts /\ attempt'.there = attempt.there
        /\ attempt'.output = attempt.output /\ attempt'.state = state
    BY <1>1, <1>2, <2>1
  <2> QED
    BY <1>4, <2>2, AttemptSteps
<1>5. ASSUME NEW at \in CopyStates, copy' = [copy EXCEPT !.at = at],
             at # "gone", cleaner.at # "remove", copy.at # "gone",
             UNCHANGED <<copyScan, retained, cleaner>>,
             attempt' \in Attempts, attempt'.there = attempt.there, attempt'.output = attempt.output,
             attempt.state \in Ended => attempt'.state \in Ended,
             copyScan.by # "nobody" => attempt'.state \in {"running", "recovery"}
      PROVE  WorkIsSaved'
  <2>1. copy' \in Copies /\ copy'.at = at /\ copy'.files = copy.files /\ copy'.head = copy.head
        /\ copy'.moved = copy.moved
    BY <1>5 DEF SpaceTypes, Copies
  <2>2. SpaceTypes'
    BY <1>5, <2>1 DEF SpaceTypes, Commits, Scans, Cleaners, Contents, Attempts, File
  <2>3. ScansBracket'
    BY <1>5, <2>1 DEF ScansBracket, File
  <2>4. KeptIsTrue'
    BY <1>5 DEF KeptIsTrue, File
  <2>5. CleanerKnows'
    BY <1>5, <2>1 DEF CleanerKnows, Base, File, Ended
  <2> QED
    BY <2>2, <2>3, <2>4, <2>5
<1>6. CASE AddCopy
  <2>1. "partial" \in CopyStates /\ attempt.state = "assigned" /\ copyScan.by = "nobody"
        /\ cleaner.at # "remove" /\ copy.at = "none" /\ "assigned" \notin Ended
    BY <1>6 DEF CopyStates, AddCopy, Unlocked, Ended
  <2>2. attempt' = [attempt EXCEPT !.state = "running"]
        /\ copy' = [copy EXCEPT !.at = "partial"] /\ UNCHANGED <<copyScan, retained, cleaner>>
    BY <1>6 DEF AddCopy
  <2>3. attempt' \in Attempts /\ attempt'.there = attempt.there
        /\ attempt'.output = attempt.output /\ attempt'.state = "running"
    <3>1. attempt' = [attempt EXCEPT !.state = "running", !.live = attempt.live]
      BY <1>2, <1>3, <2>2
    <3>2. "running" \in AttemptStates /\ attempt.live \in BOOLEAN
      BY <1>2, <1>3
    <3>3. LET new == [attempt EXCEPT !.state = "running", !.live = attempt.live] IN
          /\ new \in Attempts /\ new.there = attempt.there /\ new.output = attempt.output
          /\ new.state = "running"
      BY <1>1, <3>2
    <3> QED
      BY <3>1, <3>3
  <2> QED
    BY <1>5, <2>1, <2>2, <2>3
<1>7. CASE WriteManifest
  <2>1. "ready" \in CopyStates /\ attempt.state = "running" /\ copyScan.by = "nobody"
        /\ cleaner.at # "remove" /\ copy.at = "partial"
    BY <1>7 DEF CopyStates, WriteManifest, Unlocked
  <2>2. attempt' = [attempt EXCEPT !.live = TRUE]
        /\ copy' = [copy EXCEPT !.at = "ready"] /\ UNCHANGED <<copyScan, retained, cleaner>>
    BY <1>7 DEF WriteManifest
  <2>3. attempt' \in Attempts /\ attempt'.there = attempt.there
        /\ attempt'.output = attempt.output /\ attempt'.state = attempt.state
    BY <2>2, <1>1, <1>2, ZenonT(60)
  <2> QED
    BY <1>5, <2>1, <2>2, <2>3
<1>8. CASE PreparationFails
  <2>1. attempt.state = "running" /\ attempt.state \notin Ended /\ copyScan.by = "nobody"
    BY <1>8 DEF PreparationFails, Unlocked, Ended
  <2> QED
    BY <1>3, <1>4, <1>8, <2>1 DEF PreparationFails
<1>9. CASE ModelStops
  <2>1. attempt' = [attempt EXCEPT !.live = FALSE] /\ UNCHANGED <<copy, copyScan, retained, cleaner>>
    BY <1>9 DEF ModelStops
  <2>2. attempt' \in Attempts /\ attempt'.there = attempt.there
        /\ attempt'.output = attempt.output /\ attempt'.state = attempt.state
    BY <2>1, <1>1, <1>2, ZenonT(60)
  <2>3. copyScan.by # "nobody" => attempt.state \in {"running", "recovery"}
    BY DEF CleanerKnows
  <2> QED
    BY <2>1, <2>2, <2>3, AttemptSteps
<1>10. CASE ClaimManually
  <2>1. attempt.state \notin Ended
    BY <1>10 DEF ClaimManually, Ended
  <2> QED
    BY <1>3, <1>4, <1>10, <2>1 DEF ClaimManually
<1>11. CASE Dispose
  <2>1. attempt.state \notin Ended
    BY <1>11 DEF Dispose, Ended
  <2> QED
    BY <1>3, <1>4, <1>11, <2>1 DEF Dispose
<1>12. CASE Fence
  <2>1. attempt.state \notin Ended
    BY <1>12 DEF Fence, Ended
  <2> QED
    BY <1>3, <1>4, <1>12, <2>1 DEF Fence
<1>13. CASE CommitInCopy
  <2>1. PICK head \in Contents : copy' = [copy EXCEPT !.moved = TRUE, !.head = head]
    <3>1. [f \in File |-> IF f \in Ignored THEN 0 ELSE copy.files[f]] \in Contents
      BY DEF SpaceTypes, Copies, Contents
    <3> QED
      BY <1>13, <3>1 DEF CommitInCopy
  <2>2. copy' \in Copies /\ copy'.at = copy.at /\ copy'.files = copy.files /\ copy'.moved
    BY <2>1 DEF SpaceTypes, Copies
  <2>3. UNCHANGED <<attempt, copyScan, retained, cleaner>> /\ copy.at = "ready"
    BY <1>13 DEF CommitInCopy
  <2>4. SpaceTypes'
    BY <2>2, <2>3 DEF SpaceTypes, Commits, Scans, Cleaners, Contents, Attempts, File
  <2>5. ScansBracket'
    BY <2>2, <2>3 DEF ScansBracket, File
  <2>6. KeptIsTrue'
    BY <2>3 DEF KeptIsTrue, File
  <2>7. CleanerKnows'
    BY <2>2, <2>3 DEF CleanerKnows, Ended, File
  <2> QED
    BY <2>4, <2>5, <2>6, <2>7
<1>14. ASSUME NEW f \in File, EditCopy(f)
       PROVE  WorkIsSaved'
  <2>1. PICK datum \in (0..2) \ {copy.files[f]} :
          copy' = [copy EXCEPT !.files[f] = datum, !.edits = @ + 1]
    BY <1>14 DEF EditCopy
  <2>2. copy.files \in Contents /\ copy.edits + 1 \in Edits
    <3>1. copy.files \in Contents /\ copy.edits \in 0..MaxEdits /\ copy.edits < MaxEdits
      BY <1>14 DEF EditCopy, SpaceTypes, Copies, Edits
    <3> QED
      BY <3>1 DEF Edits
  <2>3. [copy.files EXCEPT ![f] = datum] \in Contents
    BY <2>2 DEF Contents
  <2>4. /\ copy' \in Copies /\ copy'.files = [copy.files EXCEPT ![f] = datum]
        /\ copy'.at = copy.at /\ copy'.head = copy.head /\ copy'.moved = copy.moved
    BY <2>1, <2>2, <2>3 DEF SpaceTypes, Copies
  <2>5. UNCHANGED <<attempt, retained, cleaner>> /\ copy.at = "ready"
        /\ copyScan' = IF copyScan.by = "nobody" THEN copyScan
                       ELSE [copyScan EXCEPT !.touched[f] = @ + 1]
    BY <1>14 DEF EditCopy
  <2>6. /\ copyScan' \in Scans /\ copyScan'.by = copyScan.by /\ copyScan'.at = copyScan.at
        /\ copyScan'.todo = copyScan.todo /\ copyScan'.seen = copyScan.seen
        /\ copyScan'.middle = copyScan.middle
        /\ copyScan.by # "nobody" =>
             copyScan'.touched = [copyScan.touched EXCEPT ![f] = @ + 1]
    <3>1. copyScan \in Scans /\ copyScan.touched \in [File -> Nat]
      BY DEF SpaceTypes, Scans
    <3>2. [copyScan.touched EXCEPT ![f] = @ + 1] \in [File -> Nat]
      BY <3>1
    <3> QED
      BY <2>5, <3>1, <3>2 DEF Scans
  <2>7. SpaceTypes'
    BY <2>4, <2>5, <2>6 DEF SpaceTypes, Commits, Cleaners, Contents, Attempts, File
  <2>8. ScansBracket'
    <3>1. copyScan.touched \in [File -> Nat] /\ copy.files \in Contents
      BY <2>2 DEF SpaceTypes, Scans
    <3>2. \A g \in File : /\ copy'.files[g] = IF g = f THEN datum ELSE copy.files[g]
                          /\ copyScan.by # "nobody" => copyScan'.touched[g] =
                               IF g = f THEN copyScan.touched[g] + 1 ELSE copyScan.touched[g]
                          /\ copyScan.touched[g] \in Nat
      BY <2>4, <2>6, <3>1 DEF Contents
    <3> QED
      BY <2>6, <3>2 DEF ScansBracket, File
  <2>9. KeptIsTrue'
    BY <2>5 DEF KeptIsTrue, File
  <2>10. CleanerKnows'
    BY <2>4, <2>5, <2>6 DEF CleanerKnows, Base, File, Ended
  <2> QED
    BY <2>7, <2>8, <2>9, <2>10
<1> QED
  BY <1>6, <1>7, <1>8, <1>9, <1>10, <1>11, <1>12, <1>13, <1>14

\* A step of the scan alone.
LEMMA ScanSteps ==
  ASSUME WorkIsSaved, UNCHANGED <<attempt, copy, retained, cleaner>>, copyScan' \in Scans,
         ScansBracket', copyScan.by # "nobody", copyScan'.by = copyScan.by
  PROVE  WorkIsSaved'
BY DEF WorkIsSaved, SpaceTypes, KeptIsTrue, CleanerKnows, Base, File, Contents, Ended, Commits

\* The scans of a capture.
LEMMA ScansKeepWork ==
  ASSUME WorkIsSaved,
         BeginFinish \/ BeginPreserve \/ EndCopyScan \/ EndReviewScan
           \/ \E f \in File : ScanFile(f) \/ RescanFile(f)
  PROVE  WorkIsSaved'
<1> USE DEF WorkIsSaved
<1>1. copyScan \in Scans /\ copy.files \in Contents /\ copyScan.seen \in Contents
      /\ copyScan.touched \in [File -> Nat] /\ copyScan.todo \in SUBSET File
  BY DEF SpaceTypes, Scans, Copies
<1>2. ASSUME NEW by \in {"finish", "preserve", "verify"}, Capture(by),
             attempt.state \in {"running", "recovery"}
      PROVE  WorkIsSaved'
  <2>1. /\ NoCapture.seen \in Contents /\ NoCapture.middle \in Contents
        /\ NoCapture.touched \in [File -> Nat]
    BY DEF NoCapture, Base, Contents
  <2>2. PICK at \in {"first", "refused"} :
          copyScan' = [by |-> by, at |-> at, todo |-> File, seen |-> Base, middle |-> Base,
                       touched |-> [f \in File |-> 0]]
    BY <1>2 DEF Capture, NoCapture
  <2>3. copyScan' \in Scans /\ copyScan'.by # "nobody" /\ copyScan'.at = at
        /\ copyScan'.todo = File
    BY <2>1, <2>2 DEF Scans, ScanStates, Scanners, NoCapture
  <2>4. UNCHANGED <<attempt, copy, retained, cleaner>> /\ copyScan.by = "nobody"
        /\ cleaner.at # "remove" /\ attempt.state \notin Ended
    BY <1>2 DEF Capture, Unlocked, Ended
  <2>5. SpaceTypes'
    BY <2>3, <2>4 DEF SpaceTypes
  <2>6. ScansBracket'
    BY <2>3 DEF ScansBracket, File
  <2>7. KeptIsTrue'
    BY <2>4 DEF KeptIsTrue, File
  <2>8. CleanerKnows'
    BY <1>2, <2>3, <2>4 DEF CleanerKnows, Base, File, Ended
  <2> QED
    BY <2>5, <2>6, <2>7, <2>8
<1>3. CASE BeginFinish
  BY <1>2, <1>3 DEF BeginFinish
<1>4. CASE BeginPreserve
  BY <1>2, <1>4 DEF BeginPreserve
<1>5. CASE EndCopyScan
  <2>1. PICK at \in {"second", "refused"} :
          /\ copyScan' = [copyScan EXCEPT !.todo = File, !.middle = copy.files, !.at = at]
          /\ at = "second" => Violations = {}
    BY <1>5 DEF EndCopyScan
  <2>2. /\ copyScan' \in Scans /\ copyScan'.by = copyScan.by /\ copyScan'.at = at
        /\ copyScan'.todo = File /\ copyScan'.middle = copy.files
        /\ copyScan'.seen = copyScan.seen /\ copyScan'.touched = copyScan.touched
    BY <1>1, <2>1 DEF Scans, ScanStates
  <2>3. UNCHANGED <<attempt, copy, retained, cleaner>> /\ copyScan.by # "nobody"
        /\ copyScan.at = "first" /\ copyScan.todo = {}
    BY <1>5 DEF EndCopyScan
  <2>4. ScansBracket'
    <3>1. \A f \in File : copyScan.touched[f] = 0 => copy.files[f] = copyScan.seen[f]
      BY <2>3 DEF ScansBracket
    <3>2. \A f \in File : copyScan.touched[f] \in Nat
      BY <1>1
    <3>3. at = "second" => \A f \in File \ Owned : copyScan.seen[f] = 0
      BY <2>1 DEF Violations
    <3> QED
      BY <2>2, <2>3, <3>1, <3>2, <3>3 DEF ScansBracket, File
  <2> QED
    BY <2>2, <2>3, <2>4, ScanSteps
<1>6. CASE EndReviewScan
  <2>1. PICK at \in {"captured", "refused"} : copyScan' = [copyScan EXCEPT !.at = at]
    BY <1>6 DEF EndReviewScan
  <2>2. copyScan' \in Scans /\ copyScan'.by = copyScan.by /\ copyScan'.at = at
    BY <1>1, <2>1 DEF Scans, ScanStates
  <2>3. UNCHANGED <<attempt, copy, retained, cleaner>> /\ copyScan.by # "nobody"
    BY <1>6 DEF EndReviewScan
  <2>4. ScansBracket'
    BY <2>2 DEF ScansBracket
  <2> QED
    BY <2>2, <2>3, <2>4, ScanSteps
<1>7. ASSUME NEW f \in File, ScanFile(f)
      PROVE  WorkIsSaved'
  <2>1. copyScan' = [copyScan EXCEPT !.todo = @ \ {f}, !.seen[f] = copy.files[f],
                                     !.touched[f] = 0]
        /\ UNCHANGED <<attempt, copy, retained, cleaner>>
        /\ copyScan.by # "nobody" /\ copyScan.at = "first"
    BY <1>7 DEF ScanFile
  <2>2. [copyScan.seen EXCEPT ![f] = copy.files[f]] \in Contents
        /\ [copyScan.touched EXCEPT ![f] = 0] \in [File -> Nat]
    BY <1>1 DEF Contents
  <2>3. /\ copyScan' \in Scans /\ copyScan'.by = copyScan.by /\ copyScan'.at = "first"
        /\ copyScan'.todo = copyScan.todo \ {f}
        /\ copyScan'.seen = [copyScan.seen EXCEPT ![f] = copy.files[f]]
        /\ copyScan'.touched = [copyScan.touched EXCEPT ![f] = 0]
    BY <1>1, <2>1, <2>2 DEF Scans
  <2>4. \A g \in File :
          /\ copyScan'.seen[g] = IF g = f THEN copy.files[f] ELSE copyScan.seen[g]
          /\ copyScan'.touched[g] = IF g = f THEN 0 ELSE copyScan.touched[g]
    BY <1>1, <2>3 DEF Contents
  <2>5. ScansBracket'
    BY <2>1, <2>3, <2>4 DEF ScansBracket, File
  <2> QED
    BY <2>1, <2>3, <2>5, ScanSteps
<1>8. ASSUME NEW f \in File, RescanFile(f)
      PROVE  WorkIsSaved'
  <2>1. UNCHANGED <<attempt, copy, retained, cleaner>> /\ copyScan.at = "second"
    BY <1>8 DEF RescanFile
  <2>2. CASE copyScan.by = "nobody"
    BY <2>1, <2>2 DEF CleanerKnows
  <2>3. CASE copyScan.by # "nobody" /\ Unchanged(f)
    <3>1. copyScan' = [copyScan EXCEPT !.todo = @ \ {f}] /\ copy.files[f] = copyScan.seen[f]
      BY <1>8, <2>3 DEF RescanFile, Unchanged
    <3>2. /\ copyScan' \in Scans /\ copyScan'.by = copyScan.by /\ copyScan'.at = copyScan.at
          /\ copyScan'.todo = copyScan.todo \ {f} /\ copyScan'.seen = copyScan.seen
          /\ copyScan'.middle = copyScan.middle /\ copyScan'.touched = copyScan.touched
      BY <1>1, <3>1 DEF Scans
    <3>3. ScansBracket'
      BY <2>1, <2>3, <3>1, <3>2 DEF ScansBracket, File
    <3> QED
      BY <2>1, <2>3, <3>2, <3>3, ScanSteps
  <2>4. CASE copyScan.by # "nobody" /\ ~Unchanged(f)
    <3>1. copyScan' = [copyScan EXCEPT !.at = "refused"]
      BY <1>8, <2>4 DEF RescanFile
    <3>2. copyScan' \in Scans /\ copyScan'.by = copyScan.by /\ copyScan'.at = "refused"
      BY <1>1, <3>1 DEF Scans, ScanStates
    <3>3. ScansBracket'
      BY <3>2 DEF ScansBracket
    <3> QED
      BY <2>1, <2>4, <3>2, <3>3, ScanSteps
  <2> QED
    BY <2>2, <2>3, <2>4
<1> QED
  BY <1>3, <1>4, <1>5, <1>6, <1>7, <1>8

\* What is captured, kept and recorded.
LEMMA CapturesKeepWork ==
  ASSUME WorkIsSaved, Promote \/ Record \/ Die \/ SubmitManually
  PROVE  WorkIsSaved'
<1> USE OwnershipAssumption DEF WorkIsSaved
<1>1. copyScan \in Scans /\ attempt \in Attempts /\ copyScan.seen \in Contents
      /\ copyScan.middle \in Contents /\ copyScan.touched \in [File -> Nat]
  BY DEF SpaceTypes, Scans
<1>2. /\ NoCapture \in Scans /\ NoCapture.by = "nobody" /\ NoCapture.at = "first"
  BY DEF NoCapture, Base, Contents, Scans, Scanners, ScanStates
<1>3. CASE Promote
  <2>1. PICK commit : commit = [files |-> copyScan.seen,
                   message |-> IF copyScan.by = "finish" THEN "submit" ELSE "preserve"]
    OBVIOUS
  <2>2. commit \in Commits /\ commit.files = copyScan.seen
    BY <1>1, <2>1 DEF Commits
  <2>3. copyScan.at = "second" /\ copyScan.todo = {} /\ UNCHANGED <<copy, cleaner>>
        /\ copyScan.by # "nobody"
    BY <1>3 DEF Promote, CleanerKnows
  <2>4. CASE copyScan' = [copyScan EXCEPT !.at = "refused"] /\ UNCHANGED <<attempt, retained>>
    <3>1. copyScan' \in Scans /\ copyScan'.by = copyScan.by /\ copyScan'.at = "refused"
      BY <1>1, <2>4 DEF Scans, ScanStates
    <3>2. ScansBracket'
      BY <3>1 DEF ScansBracket
    <3> QED
      BY <2>3, <2>4, <3>1, <3>2, ScanSteps
  <2>5. CASE /\ Retainable(commit) /\ retained' = {commit}
             /\ copyScan' = [copyScan EXCEPT !.at = "captured"]
             /\ attempt' = [attempt EXCEPT !.there = [f \in File |->
                  copyScan.middle[f] = copyScan.seen[f] \/ copyScan.touched[f] >= 2]]
    <3>1. copyScan' \in Scans /\ copyScan'.by = copyScan.by /\ copyScan'.at = "captured"
      BY <1>1, <2>5 DEF Scans, ScanStates
    <3>2. PICK there \in [File -> BOOLEAN] :
            attempt' = [attempt EXCEPT !.there = there] /\ \A f \in File : there[f]
      <4>1. [f \in File |-> copyScan.middle[f] = copyScan.seen[f] \/ copyScan.touched[f] >= 2]
              \in [File -> BOOLEAN]
        OBVIOUS
      <4>2. \A f \in File : copyScan.middle[f] = copyScan.seen[f] \/ copyScan.touched[f] >= 2
        BY <2>3 DEF ScansBracket
      <4> QED
        BY <2>5, <4>1, <4>2
    <3>3. /\ attempt' \in Attempts /\ attempt'.there = there /\ attempt'.state = attempt.state
          /\ attempt'.output = attempt.output
      BY <1>1, <3>2 DEF Attempts
    <3>4. SpaceTypes'
      BY <2>2, <2>3, <2>5, <3>1, <3>3 DEF SpaceTypes
    <3>5. ScansBracket'
      BY <3>1 DEF ScansBracket
    <3>6. KeptIsTrue'
      <4>1. \A f \in Foreign : commit.files[f] = 0
        BY <2>2, <2>3 DEF ScansBracket, File
      <4>2. attempt.output # {} => retained' = retained
        BY <2>5 DEF KeptIsTrue, Retainable
      <4> QED
        BY <2>5, <3>2, <3>3, <4>1, <4>2 DEF KeptIsTrue, File
    <3>7. CleanerKnows'
      BY <2>3, <2>5, <3>1, <3>3 DEF CleanerKnows, Base, File, Ended
    <3> QED
      BY <3>4, <3>5, <3>6, <3>7
  <2> QED
    BY <1>3, <2>1, <2>4, <2>5 DEF Promote
<1>4. CASE Record
  <2>1. copyScan.by # "nobody" /\ copyScan' = NoCapture /\ UNCHANGED <<copy, retained, cleaner>>
        /\ attempt.state \in {"running", "recovery"} /\ cleaner.at # "remove"
        /\ copy.at # "gone" /\ attempt.state \notin Ended
    BY <1>4 DEF Record, CleanerKnows, Ended
  <2>2. PICK output \in {retained, attempt.output}, state \in AttemptStates, lost \in BOOLEAN :
          attempt' = [attempt EXCEPT !.state = state, !.output = output, !.lost = lost]
    <3>1. attempt.lost \in BOOLEAN
      BY <1>1 DEF Attempts
    <3>2. \A state \in AttemptStates, output \in {retained, attempt.output} :
            [attempt EXCEPT !.state = state, !.output = output]
              = [attempt EXCEPT !.state = state, !.output = output, !.lost = attempt.lost]
      BY <1>1 DEF Attempts
    <3>3. {"reconciled", "succeeded", "recovery"} \subseteq AttemptStates
      BY DEF AttemptStates, Ended
    <3>4. PICK output \in {retained, attempt.output} :
            attempt' \in IF copyScan.by = "preserve"
              THEN {[attempt EXCEPT !.state = "reconciled", !.output = output,
                                    !.lost = copyScan.at = "refused"]}
              ELSE {[attempt EXCEPT !.state = state, !.output = output] :
                      state \in IF copyScan.at = "captured" THEN {"succeeded", "recovery"}
                                ELSE {"recovery"}}
      BY <1>4 DEF Record
    <3>5. CASE copyScan.by = "preserve"
      <4>1. (copyScan.at = "refused") \in BOOLEAN
        OBVIOUS
      <4> QED
        BY <3>3, <3>4, <3>5, <4>1
    <3>6. CASE copyScan.by # "preserve"
      <4>1. PICK state \in {"succeeded", "recovery"} :
              attempt' = [attempt EXCEPT !.state = state, !.output = output]
        BY <3>4, <3>6
      <4>2. state \in AttemptStates
        BY <3>3
      <4>3. attempt' = [attempt EXCEPT !.state = state, !.output = output, !.lost = attempt.lost]
        BY <3>2, <4>1, <4>2, Zenon
      <4> QED
        BY <3>1, <4>2, <4>3
    <3> QED
      BY <3>5, <3>6
  <2>3. retained \in SUBSET Commits /\ attempt.output \in SUBSET Commits
    BY <1>1 DEF SpaceTypes, Attempts
  <2>4. attempt' \in Attempts /\ attempt'.there = attempt.there /\ attempt'.output = output
    BY <1>1, <2>2, <2>3 DEF Attempts
  <2>5. SpaceTypes'
    BY <1>2, <2>1, <2>4 DEF SpaceTypes
  <2>6. ScansBracket'
    BY <1>2, <2>1 DEF ScansBracket
  <2>7. KeptIsTrue'
    BY <2>1, <2>4 DEF KeptIsTrue, File
  <2>8. CleanerKnows'
    BY <1>2, <2>1 DEF CleanerKnows, Base, File
  <2> QED
    BY <2>5, <2>6, <2>7, <2>8
<1>5. CASE Die
  <2>1. copyScan' = NoCapture /\ UNCHANGED <<copy, retained, cleaner>>
        /\ attempt.state \notin Ended
    BY <1>5 DEF Die, CleanerKnows, Ended
  <2>2. attempt' \in Attempts /\ attempt'.there = attempt.there /\ attempt'.output = attempt.output
    <3>1. PICK state \in AttemptStates : attempt' = [attempt EXCEPT !.state = state]
      <4>1. attempt.state \in AttemptStates /\ "recovery" \in AttemptStates
        BY <1>1 DEF Attempts, AttemptStates
      <4> QED
        BY <1>5, <4>1 DEF Die
    <3> QED
      BY <1>1, <3>1 DEF Attempts
  <2>3. SpaceTypes'
    BY <1>2, <2>1, <2>2 DEF SpaceTypes
  <2>4. ScansBracket'
    BY <1>2, <2>1 DEF ScansBracket
  <2>5. KeptIsTrue'
    BY <2>1, <2>2 DEF KeptIsTrue, File
  <2>6. CleanerKnows'
    BY <1>2, <2>1 DEF CleanerKnows, Base, File
  <2> QED
    BY <2>3, <2>4, <2>5, <2>6
<1>6. CASE SubmitManually
  <2>1. PICK files \in Contents : LET commit == [files |-> files, message |-> "manual"] IN
          /\ Adoptable(commit) /\ Retainable(commit) /\ retained' = {commit}
          /\ \/ attempt' = [attempt EXCEPT !.output = {commit}, !.state =
                              IF @ = "running" THEN "succeeded" ELSE "reconciled"]
             \/ UNCHANGED attempt
    BY <1>6 DEF SubmitManually
  <2>2. PICK commit \in Commits : commit = [files |-> files, message |-> "manual"]
    BY DEF Commits
  <2>3. /\ Adoptable(commit) /\ Retainable(commit) /\ retained' = {commit}
        /\ \/ attempt' = [attempt EXCEPT !.output = {commit}, !.state =
                            IF @ = "running" THEN "succeeded" ELSE "reconciled"]
           \/ UNCHANGED attempt
    BY <2>1, <2>2
  <2>4. attempt.state \notin Ended /\ Unlocked /\ UNCHANGED <<copy, copyScan, cleaner>>
        /\ copyScan.by = "nobody" /\ cleaner.at # "remove" /\ copy.at # "gone"
    BY <1>6 DEF SubmitManually, Ended, Unlocked, CleanerKnows
  <2>5. /\ attempt' \in Attempts /\ attempt'.there = attempt.there
        /\ attempt'.output = {commit} \/ attempt'.output = attempt.output
    <3>1. CASE UNCHANGED attempt
      BY <1>1, <3>1
    <3>2. CASE attempt' = [attempt EXCEPT !.output = {commit}, !.state =
                             IF @ = "running" THEN "succeeded" ELSE "reconciled"]
      <4>1. PICK state \in AttemptStates :
              attempt' = [attempt EXCEPT !.output = {commit}, !.state = state]
        <5>1. {"succeeded", "reconciled"} \subseteq AttemptStates
          BY DEF AttemptStates, Ended
        <5> QED
          BY <3>2, <5>1
      <4>2. {commit} \in SUBSET Commits
        BY <2>2
      <4> QED
        BY <1>1, <4>1, <4>2 DEF Attempts
    <3> QED
      BY <2>3, <3>1, <3>2
  <2>6. SpaceTypes'
    BY <2>2, <2>3, <2>4, <2>5 DEF SpaceTypes
  <2>7. ScansBracket'
    BY <2>4 DEF ScansBracket
  <2>8. KeptIsTrue'
    <3>1. attempt.output # {} => retained' = retained
      BY <2>3 DEF KeptIsTrue, Retainable
    <3>2. \A f \in Foreign : commit.files[f] = 0
      BY <2>3 DEF Adoptable
    <3> QED
      BY <2>3, <2>5, <3>1, <3>2 DEF KeptIsTrue, File
  <2>9. CleanerKnows'
    BY <2>4 DEF CleanerKnows, Base, File
  <2> QED
    BY <2>6, <2>7, <2>8, <2>9
<1> QED
  BY <1>3, <1>4, <1>5, <1>6

\* The operator's cleanup.
LEMMA CleanupKeepsWork ==
  ASSUME WorkIsSaved, ReadStates \/ LookAtCopy \/ RemoveCopy
  PROVE  WorkIsSaved'
<1> USE DEF WorkIsSaved
<1>1. cleaner \in Cleaners /\ copy \in Copies /\ copy.files \in Contents
      /\ attempt.state \in AttemptStates
  BY DEF SpaceTypes, Copies, Attempts
<1>2. ASSUME cleaner' \in Cleaners, copy' \in Copies, UNCHANGED <<attempt, copyScan, retained>>,
             copy'.files = copy.files
      PROVE  SpaceTypes' /\ ScansBracket' /\ KeptIsTrue'
  <2>1. SpaceTypes'
    BY <1>2 DEF SpaceTypes
  <2>2. ScansBracket'
    BY <1>2 DEF ScansBracket, File
  <2>3. KeptIsTrue'
    BY <1>2 DEF KeptIsTrue, File
  <2> QED
    BY <2>1, <2>2, <2>3
<1>3. CASE ReadStates
  <2>1. cleaner' = [cleaner EXCEPT !.at = "read", !.state = attempt.state]
        /\ UNCHANGED <<attempt, copy, copyScan, retained>> /\ cleaner.at = "idle"
    BY <1>3 DEF ReadStates
  <2>2. cleaner' \in Cleaners /\ cleaner'.at = "read" /\ cleaner'.state = attempt.state
        /\ cleaner'.looked = cleaner.looked
    BY <1>1, <2>1 DEF Cleaners
  <2>3. CleanerKnows'
    BY <2>1, <2>2 DEF CleanerKnows, Base, File
  <2> QED
    BY <1>1, <1>2, <2>1, <2>2, <2>3
<1>4. CASE LookAtCopy
  <2>1. UNCHANGED <<attempt, copy, copyScan, retained>> /\ cleaner.at = "read"
        /\ copyScan.by = "nobody"
    BY <1>4 DEF LookAtCopy, Unlocked
  <2>2. CASE Removable /\ cleaner' = [cleaner EXCEPT !.at = "remove", !.looked = copy.files]
    <3>1. cleaner' \in Cleaners /\ cleaner'.at = "remove" /\ cleaner'.state = cleaner.state
          /\ cleaner'.looked = copy.files
      BY <1>1, <2>2 DEF Cleaners
    <3>2. retained = {} /\ ~copy.moved => \A f \in File \ Ignored : copy.files[f] = 0
      BY <2>2 DEF Removable, Status, CleanerKnows, Base
    <3>3. copy.at = "ready" /\ cleaner.state \in Ended
      BY <2>2 DEF Removable
    <3>4. CleanerKnows'
      BY <2>1, <3>1, <3>2, <3>3 DEF CleanerKnows, Base, File
    <3> QED
      BY <1>1, <1>2, <2>1, <3>1, <3>4
  <2>3. CASE cleaner' = [cleaner EXCEPT !.at = "idle"]
    <3>1. cleaner' \in Cleaners /\ cleaner'.at = "idle" /\ cleaner'.looked = cleaner.looked
      BY <1>1, <2>3 DEF Cleaners
    <3>2. CleanerKnows'
      BY <2>1, <3>1 DEF CleanerKnows, Base, File
    <3> QED
      BY <1>1, <1>2, <2>1, <3>1, <3>2
  <2> QED
    BY <1>4, <2>2, <2>3 DEF LookAtCopy
<1>5. CASE RemoveCopy
  <2>1. cleaner' = [cleaner EXCEPT !.at = "idle"] /\ copy' = [copy EXCEPT !.at = "gone"]
        /\ UNCHANGED <<attempt, copyScan, retained>> /\ cleaner.at = "remove"
    BY <1>5 DEF RemoveCopy
  <2>2. cleaner' \in Cleaners /\ cleaner'.at = "idle" /\ cleaner'.looked = cleaner.looked
    BY <1>1, <2>1 DEF Cleaners
  <2>3. copy' \in Copies /\ copy'.files = copy.files /\ copy'.moved = copy.moved
        /\ copy'.head = copy.head
    BY <1>1, <2>1 DEF Copies, CopyStates
  <2>4. CleanerKnows'
    BY <2>1, <2>2, <2>3 DEF CleanerKnows, Base, File
  <2> QED
    BY <1>2, <2>1, <2>2, <2>3, <2>4
<1> QED
  BY <1>3, <1>4, <1>5

\* What is kept of an attempt was in its copy together and changes owned files only, the
\* store records what the reference keeps, and a copy goes only after its attempt.
THEOREM WorkSaved == WorkspaceSpec => []SavedWorkIsTrue
<1>1. WorkspaceInit => WorkIsSaved
  <2> SUFFICES ASSUME WorkspaceInit PROVE WorkIsSaved
    OBVIOUS
  <2>1. PICK kind \in {"implement", "review", "manual"} :
          attempt = [kind |-> kind, state |-> "assigned", output |-> {}, live |-> FALSE,
                     lost |-> FALSE, there |-> [f \in File |-> TRUE]]
    BY DEF WorkspaceInit
  <2>2. Base \in Contents
    BY DEF Base, Contents
  <2>3. attempt \in Attempts /\ attempt.output = {} /\ \A f \in File : attempt.there[f]
    BY <2>1 DEF Attempts, AttemptStates
  <2>4. copy \in Copies
    BY <2>2, EditsBound DEF WorkspaceInit, Copies, CopyStates, Edits
  <2>5. copyScan \in Scans /\ copyScan.by = "nobody" /\ copyScan.at = "first"
    BY <2>2 DEF WorkspaceInit, NoCapture, Scans, Scanners, ScanStates
  <2>6. cleaner \in Cleaners
    BY <2>2 DEF WorkspaceInit, Cleaners, AttemptStates
  <2> QED
    BY <2>3, <2>4, <2>5, <2>6
    DEF WorkIsSaved, SpaceTypes, ScansBracket, KeptIsTrue, CleanerKnows, WorkspaceInit
<1>2. WorkIsSaved /\ [WorkspaceNext]_workspaceVars => WorkIsSaved'
  <2> SUFFICES ASSUME WorkIsSaved, [WorkspaceNext]_workspaceVars PROVE WorkIsSaved'
    OBVIOUS
  <2>1. CASE UNCHANGED workspaceVars
    <3>1. UNCHANGED <<attempt, copy, copyScan, retained, cleaner>>
      BY <2>1 DEF workspaceVars
    <3>2. SpaceTypes'
      BY <3>1 DEF WorkIsSaved, SpaceTypes
    <3>3. ScansBracket'
      BY <3>1 DEF WorkIsSaved, ScansBracket, File
    <3>4. KeptIsTrue'
      BY <3>1 DEF WorkIsSaved, KeptIsTrue, File
    <3>5. CleanerKnows'
      BY <3>1 DEF WorkIsSaved, CleanerKnows, Base, File
    <3> QED
      BY <3>2, <3>3, <3>4, <3>5 DEF WorkIsSaved
  <2>2. CASE WorkspaceNext
    BY <2>2, EditorsKeepWork, ScansKeepWork, CapturesKeepWork, CleanupKeepsWork
    DEF WorkspaceNext
  <2> QED
    BY <2>1, <2>2
<1>3. WorkIsSaved => SavedWorkIsTrue
  <2> SUFFICES ASSUME WorkIsSaved PROVE SavedWorkIsTrue
    OBVIOUS
  <2>1. WorkspaceTypeOK
    BY DEF WorkIsSaved, SpaceTypes, WorkspaceTypeOK, Attempts, AttemptStates, Copies, CopyStates,
       Edits, Scans, Scanners, ScanStates, Cleaners
  <2> QED
    BY <2>1 DEF WorkIsSaved, KeptIsTrue, CleanerKnows, SavedWorkIsTrue
<1> QED
  BY <1>1, <1>2, <1>3, PTL DEF WorkspaceSpec

-----------------------------------------------------------------------------
(* Watchdog.  A hook that was accepted is superseded once and for all: the *)
(* sessions and the owners of a session only follow each other.            *)

Lives == {"up", "closed", "dead"}
Epochs == 0..MaxEpochs
Generations == 0..MaxGenerations
HookStates == {"free", "told", "asked", "armed", "probed", "woke", "quiet", "killed"}
Words == {"none", "armed", "read", "probe", "wake", "ignore", "closed"}
Markers == [epoch : Epochs, owner : 0..MaxServers, last : Epochs]
Incarnations == [life : Lives, entries : [Watched -> Generations], expired : SUBSET Watched,
                 sequence : Generations, epoch : Epochs, confirmed : BOOLEAN,
                 probe : 0..MaxHooks, timer : SUBSET Timer]
HookRows == [at : HookStates, server : Born, epoch : Epochs, tickets : SUBSET Ticket,
          ready : BOOLEAN, reply : Words]

\* The records of the session, the servers and the hooks.
DogTypes ==
  /\ marker \in Markers /\ incarnation \in [Born -> Incarnations]
  /\ hook \in [HookProcess -> HookRows] /\ attested \subseteq Guard

\* The session the marker is of is the last one, if any.
MarkerIsLast == marker.epoch \in {0, marker.last}

\* A hook of this session whose server claimed the marker: the owner is its or a later one.
Accepted(h) ==
  hook[h].epoch # 0 /\ (marker.epoch = hook[h].epoch => marker.owner >= hook[h].server)
\* Its session is over, or a later server has the marker: for ever.
Superseded(h) == marker.epoch # hook[h].epoch \/ marker.owner > hook[h].server
\* Why a hook that was told of may leave quietly.
Released(guard) ==
  \/ ~Valid(guard.server, guard.ticket) \/ incarnation[guard.server].life # "up"
  \/ Superseded(guard.hook)

\* What a hook process has been through.
HookIsSound(h) ==
  /\ hook[h].at \in {"free", "told"} => hook[h].epoch = 0 /\ hook[h].reply = "none" /\ ~hook[h].ready
  /\ hook[h].at = "asked" => hook[h].epoch # 0 /\ ~hook[h].ready
  /\ hook[h].at = "armed" => hook[h].ready
  /\ hook[h].ready => /\ hook[h].at \in {"armed", "woke", "quiet", "killed"}
                      /\ hook[h].reply \in {"read", "ignore", "wake", "closed"}
  /\ hook[h].epoch <= marker.last
  /\ hook[h].ready \/ hook[h].reply = "armed" => Accepted(h)

\* What a server's timer knows of its hook.
TimerIsSound(s, timer) ==
  LET h == timer.hook IN
  /\ hook[h].server = s /\ timer.tasks = hook[h].tickets /\ Accepted(h)
  /\ hook[h].at \notin {"free", "told"} /\ hook[h].reply \in {"armed", "read"}
  /\ incarnation[s].life = "up" => incarnation[s].epoch = hook[h].epoch
  /\ timer.ready => hook[h].ready
  /\ hook[h].ready /\ hook[h].at = "quiet" => Superseded(h)

\* A ticket is never issued twice.
ServerIsSound(s) ==
  incarnation[s].life = "up" => \A t \in Watched : incarnation[s].entries[t] <= incarnation[s].sequence

\* What a client was told of.
GuardIsSound(guard) ==
  LET h == guard.hook IN
  /\ hook[h].server = guard.server /\ hook[h].ready /\ guard.ticket \in hook[h].tickets
  /\ incarnation[guard.server].life = "up" => guard.ticket[2] <= incarnation[guard.server].sequence
  /\ hook[h].at = "quiet" \/ hook[h].reply = "ignore" => Released(guard)

HooksSound == \A h \in HookProcess : HookIsSound(h)
TimersSound == \A s \in Born : \A timer \in incarnation[s].timer : TimerIsSound(s, timer)
ServersSound == \A s \in Born : ServerIsSound(s)
GuardsSound == \A guard \in attested : GuardIsSound(guard)
DogIsSound ==
  DogTypes /\ MarkerIsLast /\ HooksSound /\ TimersSound /\ ServersSound /\ GuardsSound

\* The numbers that are compared.
LEMMA DogNumbers ==
  ASSUME DogTypes
  PROVE  /\ marker.epoch \in Nat /\ marker.owner \in Nat /\ marker.last \in Nat
         /\ \A h \in HookProcess : hook[h] \in HookRows /\ hook[h].epoch \in Nat /\ hook[h].server \in Born
         /\ \A s \in Born : /\ s \in Nat \ {0} /\ incarnation[s] \in Incarnations
                            /\ incarnation[s].epoch \in Nat
                            /\ incarnation[s].sequence \in Nat
                            /\ \A t \in Watched : incarnation[s].entries[t] \in Nat
                            /\ \A timer \in incarnation[s].timer :
                                 timer \in Timer /\ timer.hook \in HookProcess
         /\ \A guard \in attested :
              /\ guard.hook \in HookProcess /\ guard.server \in Born /\ guard.ticket \in Ticket
              /\ guard.ticket[1] \in Watched /\ guard.ticket[2] \in Nat \ {0}
<1> USE WatchdogBounds
<1>1. marker.epoch \in Nat /\ marker.owner \in Nat /\ marker.last \in Nat
  BY DEF DogTypes, Markers, Epochs
<1>2. \A h \in HookProcess : hook[h] \in HookRows /\ hook[h].epoch \in Nat /\ hook[h].server \in Born
  BY DEF DogTypes, HookRows, Epochs
<1>3. ASSUME NEW s \in Born
      PROVE  /\ s \in Nat \ {0} /\ incarnation[s] \in Incarnations
             /\ incarnation[s].epoch \in Nat
             /\ incarnation[s].sequence \in Nat
             /\ \A t \in Watched : incarnation[s].entries[t] \in Nat
             /\ \A timer \in incarnation[s].timer : timer \in Timer /\ timer.hook \in HookProcess
  <2>1. incarnation[s] \in Incarnations /\ s \in Nat \ {0}
    BY DEF DogTypes, Born
  <2>2. incarnation[s].entries \in [Watched -> Generations]
        /\ incarnation[s].sequence \in Generations /\ incarnation[s].epoch \in Epochs
        /\ incarnation[s].timer \in SUBSET Timer
    BY <2>1 DEF Incarnations
  <2>3. \A timer \in Timer : timer.hook \in HookProcess
    BY DEF Timer
  <2> QED
    BY <2>1, <2>2, <2>3 DEF Generations, Epochs
<1>4. \A guard \in attested :
        /\ guard.hook \in HookProcess /\ guard.server \in Born /\ guard.ticket \in Ticket
        /\ guard.ticket[1] \in Watched /\ guard.ticket[2] \in Nat \ {0}
  BY DEF DogTypes, Guard, Ticket
<1> QED
  BY <1>1, <1>2, <1>3, <1>4

\* The marker as it goes on: another owner of the same session, or another session.
MarkerGoesOn ==
  /\ marker' \in Markers /\ marker'.epoch \in {0, marker'.last} /\ marker'.last >= marker.last
  /\ \/ marker'.epoch = marker.epoch /\ marker'.owner >= marker.owner
     \/ marker'.epoch = 0 \/ marker'.epoch > marker.last

\* Whoever is accepted stays so, and whoever is superseded too, while the marker goes on.
LEMMA MarkerOrder ==
  ASSUME DogTypes, MarkerIsLast, MarkerGoesOn,
         NEW h \in HookProcess, hook[h].epoch <= marker.last,
         hook'[h].epoch = hook[h].epoch, hook'[h].server = hook[h].server
  PROVE  /\ Accepted(h) => Accepted(h)'
         /\ Accepted(h) /\ Superseded(h) => Superseded(h)'
<1>1. marker'.epoch \in Nat /\ marker'.owner \in Nat /\ marker'.last \in Nat
  BY WatchdogBounds DEF MarkerGoesOn, Markers, Epochs
<1>2. hook[h].server \in Nat /\ hook[h].epoch \in Nat
  BY DogNumbers DEF Born
<1> QED
  BY <1>1, <1>2, DogNumbers DEF MarkerIsLast, MarkerGoesOn, Accepted, Superseded

\* The session starts and ends.
LEMMA SessionKeepsGuard ==
  ASSUME DogIsSound, MarkerGoesOn, UNCHANGED <<incarnation, hook, attested>>
  PROVE  DogIsSound'
<1> USE DEF DogIsSound
<1>1. DogTypes'
  BY DEF DogTypes, MarkerGoesOn
<1>2. MarkerIsLast'
  BY DEF MarkerIsLast, MarkerGoesOn
<1>3. ASSUME NEW h \in HookProcess
      PROVE  /\ Accepted(h) => Accepted(h)'
             /\ Accepted(h) /\ Superseded(h) => Superseded(h)'
  BY MarkerOrder DEF HooksSound, HookIsSound
<1>4. HooksSound'
  <2>1. marker.last \in Nat /\ marker'.last \in Nat /\ \A h \in HookProcess : hook[h].epoch \in Nat
    BY DogNumbers, WatchdogBounds DEF MarkerGoesOn, Markers, Epochs
  <2> QED
    BY <1>3, <2>1 DEF HooksSound, HookIsSound, MarkerGoesOn, HookProcess
<1>5. TimersSound'
  BY <1>3, DogNumbers DEF TimersSound, TimerIsSound, Born
<1>6. ServersSound'
  BY DEF ServersSound, ServerIsSound, Born
<1>7. GuardsSound'
  BY <1>3, DogNumbers DEF GuardsSound, GuardIsSound, Released, Valid, HooksSound, HookIsSound
<1> QED
  BY <1>1, <1>2, <1>4, <1>5, <1>6, <1>7

\* A hook's own step: what it was accepted for stays, and it leaves quietly only when it
\* was released.
LEMMA HookStepKeepsGuard ==
  ASSUME DogIsSound, UNCHANGED <<marker, incarnation, attested>>,
         NEW h \in HookProcess, NEW new \in HookRows, hook' = [hook EXCEPT ![h] = new],
         hook[h].at \notin {"free", "told"} =>
           /\ new.server = hook[h].server /\ new.epoch = hook[h].epoch
           /\ new.tickets = hook[h].tickets /\ (hook[h].ready => new.ready)
           /\ new.at \notin {"free", "told"},
         hook[h].at \in {"free", "told"} => ~new.ready /\ new.reply = "none",
         HookIsSound(h)',
         \A s \in Born : \A timer \in incarnation[s].timer : timer.hook = h =>
           /\ new.reply \in {"armed", "read"}
           /\ new.ready /\ new.at = "quiet" => Superseded(h),
         \A guard \in attested :
           guard.hook = h /\ (new.at = "quiet" \/ new.reply = "ignore") => Released(guard)
  PROVE  DogIsSound'
<1> USE DEF DogIsSound
<1>1. hook \in [HookProcess -> HookRows]
  BY DEF DogTypes
<1>2. hook'[h] = new /\ \A g \in HookProcess : g # h => hook'[g] = hook[g]
  BY <1>1
<1>3. DogTypes' /\ MarkerIsLast'
  BY <1>1 DEF DogTypes, MarkerIsLast
<1>4. HooksSound'
  BY <1>2 DEF HooksSound, HookIsSound, Accepted, HookProcess
<1>5. TimersSound'
  BY <1>2, DogNumbers DEF TimersSound, TimerIsSound, Accepted, Superseded, Born
<1>6. ServersSound'
  BY DEF ServersSound, ServerIsSound, Born
<1>7. GuardsSound'
  <2> SUFFICES ASSUME NEW guard \in attested PROVE GuardIsSound(guard)'
    BY DEF GuardsSound
  <2>1. GuardIsSound(guard) /\ guard.hook \in HookProcess /\ HookIsSound(guard.hook)
    BY DogNumbers DEF GuardsSound, HooksSound
  <2>2. hook[guard.hook].at \notin {"free", "told"}
    BY <2>1 DEF GuardIsSound, HookIsSound
  <2>3. /\ hook'[guard.hook].server = hook[guard.hook].server
        /\ hook'[guard.hook].epoch = hook[guard.hook].epoch
        /\ hook'[guard.hook].tickets = hook[guard.hook].tickets
        /\ hook[guard.hook].ready => hook'[guard.hook].ready
    BY <1>2, <2>1, <2>2
  <2>4. Released(guard) => Released(guard)'
    BY <2>3 DEF Released, Valid, Superseded
  <2> QED
    BY <1>2, <2>1, <2>3, <2>4 DEF GuardIsSound
<1> QED
  BY <1>3, <1>4, <1>5, <1>6, <1>7

-----------------------------------------------------------------------------
\* A hook as it goes on: what it has asked for, and that it said it is ready, stays.
HookGoesOn(h) ==
  IF hook[h].at \in {"free", "told"} THEN ~hook'[h].ready /\ hook'[h].reply = "none"
  ELSE /\ hook'[h].server = hook[h].server /\ hook'[h].epoch = hook[h].epoch
       /\ hook'[h].tickets = hook[h].tickets /\ (hook[h].ready => hook'[h].ready)
       /\ hook'[h].at \notin {"free", "told"}

\* A server as it goes on: its tickets are numbered upwards.
ServerGoesOn(s) ==
  incarnation'[s].life = "up" =>
    /\ incarnation[s].life = "up"
    /\ incarnation'[s].sequence >= incarnation[s].sequence
    /\ \A t \in Watched : \/ incarnation'[s].entries[t] \in {0, incarnation[s].entries[t]}
                           \/ incarnation'[s].entries[t] > incarnation[s].sequence

\* The hook of a guard left without waking the client.
LeftQuietly(guard) == hook[guard.hook].at = "quiet" \/ hook[guard.hook].reply = "ignore"

\* What a step of a server must show of itself.
LEMMA ServerStepKeepsGuard ==
  ASSUME DogIsSound, DogTypes', MarkerGoesOn,
         \A h \in HookProcess : HookGoesOn(h) /\ HookIsSound(h)',
         \A s \in Born : ServerGoesOn(s) /\ ServerIsSound(s)',
         \A s \in Born : \A timer \in incarnation'[s].timer : TimerIsSound(s, timer)',
         \A guard \in attested : LeftQuietly(guard)' => LeftQuietly(guard) \/ Released(guard)',
         \A guard \in attested' : guard \in attested \/ GuardIsSound(guard)'
  PROVE  DogIsSound'
<1> USE DEF DogIsSound
<1>1. MarkerIsLast'
  BY DEF MarkerIsLast, MarkerGoesOn
<1>2. HooksSound' /\ TimersSound' /\ ServersSound'
  BY DEF HooksSound, TimersSound, ServersSound, HookProcess, Born
<1>3. ASSUME NEW guard \in attested PROVE GuardIsSound(guard)'
  <2> DEFINE h == guard.hook
             s == guard.server
  <2>1. h \in HookProcess /\ s \in Born /\ guard.ticket[1] \in Watched
        /\ guard.ticket[2] \in Nat \ {0}
    BY <1>3, DogNumbers
  <2>2. GuardIsSound(guard) /\ HookIsSound(h) /\ HookGoesOn(h) /\ ServerGoesOn(s)
    BY <1>3, <2>1 DEF GuardsSound, HooksSound
  <2>3. hook[h].at \notin {"free", "told"} /\ hook[h].epoch <= marker.last /\ Accepted(h)
    BY <2>2 DEF GuardIsSound, HookIsSound
  <2>4. /\ hook'[h].server = hook[h].server /\ hook'[h].epoch = hook[h].epoch
        /\ hook'[h].tickets = hook[h].tickets /\ (hook[h].ready => hook'[h].ready)
    BY <2>2, <2>3 DEF HookGoesOn
  <2>5. Superseded(h) => Superseded(h)'
    BY <2>1, <2>3, <2>4, MarkerOrder
  <2>6. /\ incarnation[s].sequence \in Nat /\ incarnation'[s].sequence \in Nat
        /\ incarnation[s].entries[guard.ticket[1]] \in Nat
        /\ incarnation'[s].entries[guard.ticket[1]] \in Nat
    <3>1. incarnation'[s] \in Incarnations
      BY <2>1 DEF DogTypes
    <3> QED
      BY <2>1, <3>1, DogNumbers, WatchdogBounds DEF Incarnations, Generations
  <2>7. incarnation'[s].life = "up" => guard.ticket[2] <= incarnation'[s].sequence
    BY <2>1, <2>2, <2>6 DEF GuardIsSound, ServerGoesOn
  <2>8. Released(guard) => Released(guard)'
    <3>1. CASE incarnation'[s].life # "up"
      BY <3>1 DEF Released
    <3>2. CASE incarnation'[s].life = "up"
      <4>1. /\ incarnation[s].life = "up" /\ guard.ticket[2] <= incarnation[s].sequence
            /\ \/ incarnation'[s].entries[guard.ticket[1]]
                    \in {0, incarnation[s].entries[guard.ticket[1]]}
               \/ incarnation'[s].entries[guard.ticket[1]] > incarnation[s].sequence
        BY <3>2, <2>1, <2>2 DEF GuardIsSound, ServerGoesOn
      <4>2. ~Valid(s, guard.ticket) => ~Valid(s, guard.ticket)'
        BY <4>1, <2>1, <2>6 DEF Valid
      <4> QED
        BY <4>1, <4>2, <2>5 DEF Released
    <3> QED
      BY <3>1, <3>2
  <2>9. LeftQuietly(guard)' => Released(guard)'
    BY <1>3, <2>2, <2>8 DEF LeftQuietly, GuardIsSound
  <2> QED
    BY <2>2, <2>4, <2>7, <2>9 DEF GuardIsSound, LeftQuietly
<1>4. GuardsSound'
  BY <1>3 DEF GuardsSound
<1> QED
  BY <1>1, <1>2, <1>4

\* A timer that is kept, over a hook that does not move.
LEMMA TimerStays ==
  ASSUME DogIsSound, MarkerGoesOn, NEW s \in Born, NEW timer \in incarnation[s].timer,
         NEW new, new.hook = timer.hook, new.tasks = timer.tasks,
         hook'[timer.hook] = hook[timer.hook],
         new.ready => timer.ready \/ hook[timer.hook].ready,
         incarnation'[s].life = "up" =>
           incarnation[s].life = "up" /\ incarnation'[s].epoch = incarnation[s].epoch
  PROVE  TimerIsSound(s, new)'
<1>1. timer.hook \in HookProcess /\ TimerIsSound(s, timer) /\ HookIsSound(timer.hook)
  BY DogNumbers DEF DogIsSound, TimersSound, HooksSound
<1>2. hook[timer.hook].epoch <= marker.last
  BY <1>1 DEF HookIsSound
<1>3. /\ Accepted(timer.hook) => Accepted(timer.hook)'
      /\ Accepted(timer.hook) /\ Superseded(timer.hook) => Superseded(timer.hook)'
  BY <1>1, <1>2, MarkerOrder DEF DogIsSound
<1> QED
  BY <1>1, <1>3 DEF TimerIsSound

\* A hook that does not move, while the marker goes on.
LEMMA HookStays ==
  ASSUME DogIsSound, MarkerGoesOn, NEW h \in HookProcess, hook'[h] = hook[h]
  PROVE  HookGoesOn(h) /\ HookIsSound(h)'
<1>1. HookIsSound(h) /\ hook[h].epoch \in Nat
  BY DogNumbers DEF DogIsSound, HooksSound
<1>2. Accepted(h) => Accepted(h)'
  BY <1>1, MarkerOrder DEF DogIsSound, HookIsSound
<1>3. hook[h].epoch <= marker'.last
  BY <1>1, DogNumbers, WatchdogBounds DEF HookIsSound, MarkerGoesOn, Markers, Epochs, DogIsSound
<1>4. HookGoesOn(h)
  BY <1>1 DEF HookGoesOn, HookIsSound
<1> QED
  BY <1>1, <1>2, <1>3, <1>4 DEF HookIsSound

\* A hook that is answered.
LEMMA ReplyGoesOn ==
  ASSUME DogIsSound, MarkerGoesOn, NEW h \in HookProcess, NEW word \in Words,
         HookReply(h, word), hook[h].epoch # 0,
         hook[h].ready => word \in {"read", "ignore", "wake", "closed"},
         word = "armed" => Accepted(h)'
  PROVE  /\ hook' \in [HookProcess -> HookRows]
         /\ \A g \in HookProcess : HookGoesOn(g) /\ HookIsSound(g)'
         /\ \A g \in HookProcess : g # h => hook'[g] = hook[g]
         /\ hook'[h].at = hook[h].at /\ hook'[h].reply \in {"read", word}
         /\ hook'[h].ready = hook[h].ready /\ hook'[h].server = hook[h].server
         /\ hook'[h].epoch = hook[h].epoch /\ hook'[h].tickets = hook[h].tickets
         /\ Gone(h) => hook'[h].reply = "read"
<1>1. PICK answer \in {"read", word} :
        hook' = [hook EXCEPT ![h].reply = answer] /\ (Gone(h) => answer = "read")
  BY DEF HookReply
<1>2. hook \in [HookProcess -> HookRows] /\ hook[h] \in HookRows /\ answer \in Words
  BY <1>1 DEF DogIsSound, DogTypes, Words
<1>3. hook'[h] = [hook[h] EXCEPT !.reply = answer]
      /\ \A g \in HookProcess : g # h => hook'[g] = hook[g]
  BY <1>1, <1>2
<1>4. [hook[h] EXCEPT !.reply = answer] \in HookRows
  BY <1>2 DEF HookRows
<1>5. hook' \in [HookProcess -> HookRows]
  BY <1>1, <1>2, <1>4
<1>6. /\ hook'[h].at = hook[h].at /\ hook'[h].reply = answer
      /\ hook'[h].ready = hook[h].ready /\ hook'[h].server = hook[h].server
      /\ hook'[h].epoch = hook[h].epoch /\ hook'[h].tickets = hook[h].tickets
  BY <1>2, <1>3 DEF HookRows
<1>7. HookIsSound(h) /\ hook[h].at \notin {"free", "told"} /\ hook[h].epoch \in Nat
  BY DogNumbers DEF DogIsSound, HooksSound, HookIsSound
<1>8. HookGoesOn(h)
  BY <1>6, <1>7 DEF HookGoesOn
<1>9. Accepted(h) => Accepted(h)'
  BY <1>6, <1>7, MarkerOrder DEF DogIsSound, HookIsSound
<1>10. hook'[h].epoch <= marker'.last
  BY <1>6, <1>7, DogNumbers, WatchdogBounds DEF HookIsSound, MarkerGoesOn, Markers, Epochs, DogIsSound
<1>11. HookIsSound(h)'
  <2>1. hook'[h].ready => answer \in {"read", "ignore", "wake", "closed"}
    BY <1>1, <1>6
  <2>2. hook'[h].ready \/ hook'[h].reply = "armed" => Accepted(h)'
    BY <1>1, <1>6, <1>7, <1>9 DEF HookIsSound
  <2> QED
    BY <1>6, <1>7, <1>10, <2>1, <2>2 DEF HookIsSound
<1>12. \A g \in HookProcess : g # h => HookGoesOn(g) /\ HookIsSound(g)'
  BY <1>3, HookStays
<1> QED
  BY <1>1, <1>3, <1>5, <1>6, <1>8, <1>11, <1>12

-----------------------------------------------------------------------------
\* A marker that stays, or whose owner is a later one, goes on.
LEMMA MarkerStays ==
  ASSUME DogIsSound, marker' = marker
  PROVE  MarkerGoesOn
BY DogNumbers DEF DogIsSound, DogTypes, MarkerIsLast, MarkerGoesOn

\* The other servers.
LEMMA ServerStays ==
  ASSUME DogIsSound, NEW r \in Born, incarnation'[r] = incarnation[r]
  PROVE  ServerGoesOn(r) /\ ServerIsSound(r)'
<1>1. ServerIsSound(r) /\ incarnation[r].sequence \in Nat
  BY DogNumbers DEF DogIsSound, ServersSound
<1> QED
  BY <1>1 DEF ServerGoesOn, ServerIsSound

\* What a server notes, while no hook and no marker moves.
LEMMA NotesKeepGuard ==
  ASSUME DogIsSound, UNCHANGED <<marker, hook>>, NEW s \in Born, NEW new \in Incarnations,
         incarnation' = [incarnation EXCEPT ![s] = new],
         ServerGoesOn(s), ServerIsSound(s)',
         new.life = "up" => new.epoch = incarnation[s].epoch,
         \A timer \in new.timer : \E old \in incarnation[s].timer :
           /\ timer.hook = old.hook /\ timer.tasks = old.tasks
           /\ timer.ready => old.ready \/ hook[old.hook].ready,
         attested' \subseteq Guard,
         \A guard \in attested' : guard \in attested \/ GuardIsSound(guard)'
  PROVE  DogIsSound'
<1>1. MarkerGoesOn
  BY MarkerStays
<1>2. incarnation \in [Born -> Incarnations] /\ incarnation'[s] = new
      /\ \A r \in Born : r # s => incarnation'[r] = incarnation[r]
  BY DEF DogIsSound, DogTypes
<1>3. DogTypes'
  BY <1>2 DEF DogIsSound, DogTypes
<1>4. \A h \in HookProcess : HookGoesOn(h) /\ HookIsSound(h)'
  BY <1>1, HookStays
<1>5. \A r \in Born : ServerGoesOn(r) /\ ServerIsSound(r)'
  BY <1>2, ServerStays
<1>6. ASSUME NEW r \in Born, NEW timer \in incarnation'[r].timer PROVE TimerIsSound(r, timer)'
  <2>1. CASE r = s
    <3>1. PICK old \in incarnation[s].timer :
            /\ timer.hook = old.hook /\ timer.tasks = old.tasks
            /\ timer.ready => old.ready \/ hook[old.hook].ready
      BY <1>2, <1>6, <2>1
    <3>2. incarnation'[s].life = "up" =>
            incarnation[s].life = "up" /\ incarnation'[s].epoch = incarnation[s].epoch
      BY <1>2 DEF ServerGoesOn
    <3>3. hook'[old.hook] = hook[old.hook]
      OBVIOUS
    <3> QED
      BY <1>1, <2>1, <3>1, <3>2, <3>3, TimerStays
  <2>2. CASE r # s
    <3>1. incarnation'[r] = incarnation[r] /\ timer \in incarnation[r].timer
      BY <1>2, <1>6, <2>2
    <3>2. hook'[timer.hook] = hook[timer.hook]
      OBVIOUS
    <3> QED
      BY <1>1, <3>1, <3>2, TimerStays
  <2> QED
    BY <2>1, <2>2
<1>7. \A guard \in attested : LeftQuietly(guard)' => LeftQuietly(guard) \/ Released(guard)'
  BY DEF LeftQuietly
<1> QED
  BY <1>1, <1>3, <1>4, <1>5, <1>6, <1>7, ServerStepKeepsGuard

\* A server that answers a hook over which it has no timer any more.
LEMMA AnsweredKeepsGuard ==
  ASSUME DogIsSound, MarkerGoesOn, DogTypes', UNCHANGED attested,
         NEW s \in Born, \A r \in Born : r # s => incarnation'[r] = incarnation[r],
         ServerGoesOn(s), ServerIsSound(s)',
         NEW h \in HookProcess, hook[h].server = s,
         \A g \in HookProcess : g # h => hook'[g] = hook[g],
         \A g \in HookProcess : HookGoesOn(g) /\ HookIsSound(g)',
         \A timer \in incarnation'[s].timer : TimerIsSound(s, timer)',
         hook'[h].at = hook[h].at,
         \A guard \in attested :
           guard.hook = h /\ hook'[h].reply = "ignore" => LeftQuietly(guard) \/ Released(guard)'
  PROVE  DogIsSound'
<1>1. \A r \in Born : ServerGoesOn(r) /\ ServerIsSound(r)'
  BY ServerStays
<1>2. ASSUME NEW r \in Born, NEW timer \in incarnation'[r].timer PROVE TimerIsSound(r, timer)'
  <2>1. CASE r = s
    BY <1>2, <2>1
  <2>2. CASE r # s
    <3>1. incarnation'[r] = incarnation[r] /\ timer \in incarnation[r].timer
      BY <1>2, <2>2
    <3>2. timer.hook \in HookProcess /\ hook[timer.hook].server = r
      BY <3>1, DogNumbers DEF DogIsSound, TimersSound, TimerIsSound
    <3>3. hook'[timer.hook] = hook[timer.hook]
      BY <2>2, <3>2
    <3> QED
      BY <3>1, <3>3, TimerStays
  <2> QED
    BY <2>1, <2>2
<1>3. \A guard \in attested : LeftQuietly(guard)' => LeftQuietly(guard) \/ Released(guard)'
  BY DogNumbers DEF LeftQuietly, DogIsSound
<1> QED
  BY <1>1, <1>2, <1>3, ServerStepKeepsGuard

-----------------------------------------------------------------------------
\* A record of a server, as it is.
LEMMA ServerFields ==
  ASSUME DogIsSound, NEW s \in Born
  PROVE  /\ incarnation[s] \in Incarnations /\ ServerIsSound(s)
         /\ incarnation[s].life \in Lives /\ incarnation[s].entries \in [Watched -> Generations]
         /\ incarnation[s].expired \subseteq Watched /\ incarnation[s].sequence \in Generations
         /\ incarnation[s].epoch \in Epochs /\ incarnation[s].confirmed \in BOOLEAN
         /\ incarnation[s].probe \in 0..MaxHooks /\ incarnation[s].timer \subseteq Timer
         /\ incarnation[s].sequence \in Nat /\ \A t \in Watched : incarnation[s].entries[t] \in Nat
<1>1. incarnation[s] \in Incarnations
  BY DEF DogIsSound, DogTypes
<1> QED
  BY <1>1, DogNumbers DEF DogIsSound, ServersSound, Incarnations

\* A note of a server of something else than its tickets and its session.
LEMMA NoteKeepsGuard ==
  ASSUME DogIsSound, UNCHANGED <<marker, hook>>, NEW s \in Born, NEW new \in Incarnations,
         incarnation' = [incarnation EXCEPT ![s] = new],
         new.life = incarnation[s].life, new.sequence = incarnation[s].sequence,
         new.entries = incarnation[s].entries, new.epoch = incarnation[s].epoch,
         \A timer \in new.timer : \E old \in incarnation[s].timer :
           /\ timer.hook = old.hook /\ timer.tasks = old.tasks
           /\ timer.ready => old.ready \/ hook[old.hook].ready,
         attested' \subseteq Guard,
         \A guard \in attested' : guard \in attested \/ GuardIsSound(guard)'
  PROVE  DogIsSound'
<1>1. incarnation'[s] = new
  BY DEF DogIsSound, DogTypes
<1>2. ServerGoesOn(s)
  BY <1>1, ServerFields DEF ServerGoesOn
<1>3. ServerIsSound(s)'
  BY <1>1, ServerFields DEF ServerIsSound
<1> QED
  BY <1>2, <1>3, NotesKeepGuard

LEMMA DogObserveActive ==
  ASSUME DogIsSound, NEW s \in Born, NEW t \in Watched, ObserveActive(s, t)
  PROVE  DogIsSound'
<1> DEFINE old == incarnation[s]
           entries == [old.entries EXCEPT ![t] = old.sequence + 1]
<1>1. PICK new : new = [old EXCEPT !.sequence = old.sequence + 1, !.expired = old.expired \ {t},
                                   !.entries = entries]
  OBVIOUS
<1>2. incarnation' = [incarnation EXCEPT ![s] = new]
  BY <1>1, Zenon DEF ObserveActive
<1>3. old.sequence \in Nat /\ old.sequence < MaxGenerations /\ old.life = "up"
  BY ServerFields DEF ObserveActive
<1>4. old.sequence + 1 \in Generations
  BY <1>3, WatchdogBounds DEF Generations
<1>5. entries \in [Watched -> Generations]
  BY <1>4, ServerFields
<1>6. new \in Incarnations /\ new.life = "up" /\ new.sequence = old.sequence + 1
      /\ new.entries = entries /\ new.epoch = old.epoch /\ new.timer = old.timer
  BY <1>1, <1>3, <1>4, <1>5, ServerFields DEF Incarnations, Generations
<1>7. incarnation'[s] = new
  BY <1>2 DEF DogIsSound, DogTypes
<1>8. \A u \in Watched :
        new.entries[u] = IF u = t THEN old.sequence + 1 ELSE old.entries[u]
  BY <1>6, ServerFields
<1> HIDE DEF entries
<1>9. ServerGoesOn(s)
  <2>1. old.sequence + 1 >= old.sequence /\ old.sequence + 1 > old.sequence
    BY <1>3
  <2> QED
    BY <1>3, <1>6, <1>7, <1>8, <2>1 DEF ServerGoesOn
<1>10. ServerIsSound(s)'
  <2>1. \A u \in Watched : new.entries[u] <= new.sequence
    <3> SUFFICES ASSUME NEW u \in Watched PROVE new.entries[u] <= new.sequence
      OBVIOUS
    <3>1. old.entries[u] \in Nat /\ old.entries[u] <= old.sequence
      BY <1>3, ServerFields DEF ServerIsSound
    <3> QED
      BY <1>3, <1>6, <1>8, <3>1
  <2> QED
    BY <1>7, <2>1 DEF ServerIsSound
<1>11. UNCHANGED <<marker, hook, attested>>
  BY DEF ObserveActive
<1>12. attested' \subseteq Guard
  BY <1>11 DEF DogIsSound, DogTypes
<1> QED
  BY <1>2, <1>6, <1>9, <1>10, <1>11, <1>12, NotesKeepGuard

LEMMA DogObserveEnded ==
  ASSUME DogIsSound, NEW s \in Born, NEW t \in Watched, ObserveEnded(s, t)
  PROVE  DogIsSound'
<1> DEFINE old == incarnation[s]
           entries == [old.entries EXCEPT ![t] = 0]
<1>1. PICK new : new = [old EXCEPT !.entries = entries, !.expired = old.expired \ {t}]
  OBVIOUS
<1>2. incarnation' = [incarnation EXCEPT ![s] = new]
  BY <1>1, Zenon DEF ObserveEnded
<1>3. entries \in [Watched -> Generations]
  BY ServerFields, WatchdogBounds DEF Generations
<1>4. new \in Incarnations /\ new.life = old.life /\ new.sequence = old.sequence
      /\ new.entries = entries /\ new.epoch = old.epoch /\ new.timer = old.timer
  BY <1>1, <1>3, ServerFields DEF Incarnations
<1>5. incarnation'[s] = new
  BY <1>2 DEF DogIsSound, DogTypes
<1>6. \A u \in Watched : entries[u] \in {0, old.entries[u]}
  BY ServerFields
<1>7. ServerGoesOn(s) /\ ServerIsSound(s)'
  BY <1>4, <1>5, <1>6, ServerFields DEF ServerGoesOn, ServerIsSound
<1>8. UNCHANGED <<marker, hook, attested>> /\ attested' \subseteq Guard
  BY DEF ObserveEnded, DogIsSound, DogTypes
<1> QED
  BY <1>2, <1>4, <1>7, <1>8, NotesKeepGuard

LEMMA DogTicketExpires ==
  ASSUME DogIsSound, NEW s \in Born, NEW t \in Watched, TicketExpires(s, t)
  PROVE  DogIsSound'
<1> DEFINE old == incarnation[s]
<1>1. PICK new : new = [old EXCEPT !.expired = old.expired \union {t}]
  OBVIOUS
<1>2. incarnation' = [incarnation EXCEPT ![s] = new]
  BY <1>1, Zenon DEF TicketExpires
<1>3. new \in Incarnations /\ new.life = old.life /\ new.sequence = old.sequence
      /\ new.entries = old.entries /\ new.epoch = old.epoch /\ new.timer = old.timer
  BY <1>1, ServerFields DEF Incarnations
<1>4. UNCHANGED <<marker, hook, attested>> /\ attested' \subseteq Guard
  BY DEF TicketExpires, DogIsSound, DogTypes
<1> QED
  BY <1>2, <1>3, <1>4, NoteKeepsGuard

LEMMA DogConfirmProbe ==
  ASSUME DogIsSound, NEW s \in Born, ConfirmProbe(s)
  PROVE  DogIsSound'
<1> DEFINE old == incarnation[s]
<1>1. PICK new : new = [old EXCEPT !.confirmed = TRUE, !.probe = 0]
  OBVIOUS
<1>2. incarnation' = [incarnation EXCEPT ![s] = new]
  BY <1>1, Zenon DEF ConfirmProbe
<1>0. 0 \in 0..MaxHooks
  BY WatchdogBounds
<1>3. new \in Incarnations /\ new.life = old.life /\ new.sequence = old.sequence
      /\ new.entries = old.entries /\ new.epoch = old.epoch /\ new.timer = old.timer
  BY <1>0, <1>1, ServerFields DEF Incarnations
<1>4. UNCHANGED <<marker, hook, attested>> /\ attested' \subseteq Guard
  BY DEF ConfirmProbe, DogIsSound, DogTypes
<1> QED
  BY <1>2, <1>3, <1>4, NoteKeepsGuard

LEMMA DogProbeExpires ==
  ASSUME DogIsSound, NEW s \in Born, ProbeExpires(s)
  PROVE  DogIsSound'
<1> DEFINE old == incarnation[s]
<1>1. PICK new : new = [old EXCEPT !.probe = 0]
  OBVIOUS
<1>2. incarnation' = [incarnation EXCEPT ![s] = new]
  BY <1>1, Zenon DEF ProbeExpires
<1>0. 0 \in 0..MaxHooks
  BY WatchdogBounds
<1>3. new \in Incarnations /\ new.life = old.life /\ new.sequence = old.sequence
      /\ new.entries = old.entries /\ new.epoch = old.epoch /\ new.timer = old.timer
  BY <1>0, <1>1, ServerFields DEF Incarnations
<1>4. UNCHANGED <<marker, hook, attested>> /\ attested' \subseteq Guard
  BY DEF ProbeExpires, DogIsSound, DogTypes
<1> QED
  BY <1>2, <1>3, <1>4, NoteKeepsGuard

LEMMA DogTimePasses ==
  ASSUME DogIsSound, NEW s \in Born, TimePasses(s)
  PROVE  DogIsSound'
<1> DEFINE old == incarnation[s]
<1>1. PICK timer \in old.timer :
        incarnation' = [incarnation EXCEPT ![s].timer =
            {[timer EXCEPT !.deadline = IF timer.deadline = "far" THEN "near" ELSE "passed"]}]
  BY DEF TimePasses
<1>2. PICK later :
        later = [timer EXCEPT !.deadline = IF timer.deadline = "far" THEN "near" ELSE "passed"]
  OBVIOUS
<1>3. timer \in Timer
  BY ServerFields
<1>4. later \in Timer /\ later.hook = timer.hook /\ later.tasks = timer.tasks
      /\ later.ready = timer.ready
  BY <1>2, <1>3 DEF Timer
<1>5. PICK new : new = [old EXCEPT !.timer = {later}]
  OBVIOUS
<1>6. incarnation' = [incarnation EXCEPT ![s] = new]
  BY <1>1, <1>2, <1>5, Zenon
<1>7. new \in Incarnations /\ new.life = old.life /\ new.sequence = old.sequence
      /\ new.entries = old.entries /\ new.epoch = old.epoch /\ new.timer = {later}
  BY <1>4, <1>5, ServerFields DEF Incarnations
<1>8. UNCHANGED <<marker, hook, attested>> /\ attested' \subseteq Guard
  BY DEF TimePasses, DogIsSound, DogTypes
<1> QED
  BY <1>4, <1>6, <1>7, <1>8, NoteKeepsGuard, ZenonT(60)

\* A closed server has no ticket.
LEMMA ClosedServer ==
  ASSUME NEW life \in Lives, life # "up", NEW timer \in SUBSET Timer
  PROVE  \E new \in Incarnations :
           /\ new = [NewServer EXCEPT !.life = life, !.timer = timer]
           /\ timer = {} => new = [NewServer EXCEPT !.life = life]
           /\ new.life # "up" /\ new.timer = timer
<1>1. 0 \in Generations /\ 0 \in Epochs /\ 0 \in 0..MaxHooks
  BY WatchdogBounds DEF Generations, Epochs
<1>2. PICK none : none = [t \in Watched |-> 0]
  OBVIOUS
<1>3. none \in [Watched -> Generations]
  BY <1>1, <1>2
<1>4. PICK off : off = FALSE
  OBVIOUS
<1>5. NewServer = [life |-> "up", entries |-> none, expired |-> {}, sequence |-> 0,
                   epoch |-> 0, confirmed |-> off, probe |-> 0, timer |-> {}]
  BY <1>2, <1>4, Zenon DEF NewServer
<1>6. off \in BOOLEAN
  BY <1>4
<1>7. PICK server : server = NewServer
  OBVIOUS
<1>8. PICK new : new = [server EXCEPT !.life = life, !.timer = timer]
  OBVIOUS
<1>9. server = [life |-> "up", entries |-> none, expired |-> {}, sequence |-> 0,
                epoch |-> 0, confirmed |-> off, probe |-> 0, timer |-> {}]
  BY <1>5, <1>7, Zenon
<1>10. new = [life |-> life, entries |-> none, expired |-> {}, sequence |-> 0,
              epoch |-> 0, confirmed |-> off, probe |-> 0, timer |-> timer]
  BY <1>8, <1>9
<1>11. new \in Incarnations /\ new.life = life /\ new.timer = timer
  BY <1>1, <1>3, <1>6, <1>10 DEF Incarnations
<1>12. timer = {} => new = [server EXCEPT !.life = life]
  BY <1>9, <1>10
<1> QED
  BY <1>7, <1>8, <1>11, <1>12

LEMMA DogCloseWatchdog ==
  ASSUME DogIsSound, NEW s \in Born, CloseWatchdog(s)
  PROVE  DogIsSound'
<1>1. PICK new \in Incarnations :
        /\ new = [NewServer EXCEPT !.life = "closed", !.timer = incarnation[s].timer]
        /\ new.life # "up" /\ new.timer = incarnation[s].timer
  BY ClosedServer, ServerFields DEF Lives
<1>2. incarnation' = [incarnation EXCEPT ![s] = new]
  BY <1>1, Zenon DEF CloseWatchdog
<1>3. new \in Incarnations /\ new.life # "up" /\ new.timer = incarnation[s].timer
  BY <1>1
<1>4. incarnation'[s] = new
  BY <1>2 DEF DogIsSound, DogTypes
<1>5. ServerGoesOn(s) /\ ServerIsSound(s)'
  BY <1>3, <1>4 DEF ServerGoesOn, ServerIsSound
<1>6. UNCHANGED <<marker, hook, attested>> /\ attested' \subseteq Guard
  BY DEF CloseWatchdog, DogIsSound, DogTypes
<1> QED
  BY <1>2, <1>3, <1>5, <1>6, NotesKeepGuard

-----------------------------------------------------------------------------
\* A hook process is started on a result: it was free.
LEMMA ToldHook ==
  ASSUME DogIsSound, MarkerGoesOn, NEW s \in Born, NEW h \in HookProcess, NEW tickets \in SUBSET Ticket,
         hook[h].at = "free",
         hook' = [hook EXCEPT ![h].at = "told", ![h].server = s, ![h].tickets = tickets]
  PROVE  /\ hook' \in [HookProcess -> HookRows]
         /\ \A g \in HookProcess : HookGoesOn(g) /\ HookIsSound(g)'
         /\ \A g \in HookProcess : g # h => hook'[g] = hook[g]
<1>1. PICK new : new = [hook[h] EXCEPT !.at = "told", !.server = s, !.tickets = tickets]
  OBVIOUS
<1>2. hook' = [hook EXCEPT ![h] = new]
  BY <1>1, Zenon
<1>3. hook \in [HookProcess -> HookRows] /\ hook[h] \in HookRows
  BY DEF DogIsSound, DogTypes
<1>4. new \in HookRows /\ new.at = "told" /\ new.reply = hook[h].reply /\ new.ready = hook[h].ready
      /\ new.epoch = hook[h].epoch
  BY <1>1, <1>3 DEF HookRows, HookStates
<1>5. hook'[h] = new /\ \A g \in HookProcess : g # h => hook'[g] = hook[g]
  BY <1>2, <1>3
<1>6. hook' \in [HookProcess -> HookRows]
  BY <1>2, <1>3, <1>4
<1>7. HookIsSound(h) /\ hook[h].epoch = 0 /\ hook[h].reply = "none" /\ ~hook[h].ready
  BY DEF DogIsSound, HooksSound, HookIsSound
<1>8. HookGoesOn(h)
  BY <1>4, <1>5, <1>7 DEF HookGoesOn
<1>9. marker'.last \in Nat
  BY WatchdogBounds DEF MarkerGoesOn, Markers, Epochs
<1>10. HookIsSound(h)'
  BY <1>4, <1>5, <1>7, <1>9 DEF HookIsSound
<1>11. \A g \in HookProcess : g # h => HookGoesOn(g) /\ HookIsSound(g)'
  BY <1>5, HookStays
<1> QED
  BY <1>5, <1>6, <1>8, <1>10, <1>11

\* Who is told of a guard now has it.
LEMMA GuardsAreSound ==
  ASSUME DogIsSound, NEW s \in Born, NEW guard \in Guards(s)
  PROVE  /\ guard \in Guard /\ GuardIsSound(guard) /\ guard.server = s
         /\ \E timer \in incarnation[s].timer : timer.hook = guard.hook
<1>1. /\ guard \in Guard /\ guard.server = s /\ Valid(s, guard.ticket)
      /\ incarnation[s].life = "up"
  BY DEF Guards
<1>2. PICK timer \in incarnation[s].timer :
        timer.ready /\ guard.hook = timer.hook /\ guard.ticket \in timer.tasks
  BY DEF Guards
<1>3. TimerIsSound(s, timer)
  BY DEF DogIsSound, TimersSound
<1>4. guard.ticket \in Watched \X (1..MaxGenerations)
  BY <1>1 DEF Guard, Ticket
<1>5. incarnation[s].entries[guard.ticket[1]] <= incarnation[s].sequence
  BY <1>1, <1>4, ServerFields DEF ServerIsSound
<1>6. guard.ticket[2] <= incarnation[s].sequence
  BY <1>1, <1>5 DEF Valid
<1>7. hook[guard.hook].server = s /\ hook[guard.hook].ready
      /\ guard.ticket \in hook[guard.hook].tickets /\ hook[guard.hook].reply # "ignore"
      /\ (hook[guard.hook].at = "quiet" => Superseded(guard.hook))
  BY <1>2, <1>3 DEF TimerIsSound
<1>8. GuardIsSound(guard)
  BY <1>1, <1>6, <1>7 DEF GuardIsSound, Released
<1> QED
  BY <1>1, <1>2, <1>8

LEMMA DogAnswer ==
  ASSUME DogIsSound, NEW s \in Born, Answer(s)
  PROVE  DogIsSound'
<1> DEFINE old == incarnation[s]
<1>1. PICK new : new = [old EXCEPT !.confirmed = old.confirmed /\ Owns(s)]
  OBVIOUS
<1>2. incarnation' = [incarnation EXCEPT ![s] = new]
  BY <1>1, Zenon DEF Answer
<1>3. (old.confirmed /\ Owns(s)) \in BOOLEAN
  OBVIOUS
<1>4. new \in Incarnations /\ new.life = old.life /\ new.sequence = old.sequence
      /\ new.entries = old.entries /\ new.epoch = old.epoch /\ new.timer = old.timer
  <2>1. PICK sure \in BOOLEAN : sure = (old.confirmed /\ Owns(s))
    BY <1>3
  <2>2. new = [old EXCEPT !.confirmed = sure]
    BY <1>1, <2>1, Zenon
  <2> QED
    BY <2>2, ServerFields DEF Incarnations
<1>5. incarnation'[s] = new /\ \A r \in Born : r # s => incarnation'[r] = incarnation[r]
  BY <1>2 DEF DogIsSound, DogTypes
<1>6. marker' = marker /\ attested' = attested \union Guards(s) /\ MarkerGoesOn
  BY MarkerStays DEF Answer
<1>7. attested' \subseteq Guard
  BY <1>6 DEF Guards, DogIsSound, DogTypes
<1>8. ASSUME \A g \in HookProcess : HookGoesOn(g) /\ HookIsSound(g)',
             \A g \in HookProcess : hook[g].at # "free" => hook'[g] = hook[g],
             hook' \in [HookProcess -> HookRows]
      PROVE  DogIsSound'
  <2>1. DogTypes'
    BY <1>2, <1>4, <1>6, <1>7, <1>8 DEF DogIsSound, DogTypes
  <2>2. ServerGoesOn(s) /\ ServerIsSound(s)'
    BY <1>4, <1>5, ServerFields DEF ServerGoesOn, ServerIsSound
  <2>3. \A r \in Born : ServerGoesOn(r) /\ ServerIsSound(r)'
    BY <1>5, <2>2, ServerStays
  <2>4. ASSUME NEW r \in Born, NEW timer \in incarnation'[r].timer PROVE TimerIsSound(r, timer)'
    <3>1. timer \in incarnation[r].timer /\ incarnation'[r].life = incarnation[r].life
          /\ incarnation'[r].epoch = incarnation[r].epoch
      BY <1>4, <1>5, <2>4
    <3>2. timer.hook \in HookProcess /\ hook[timer.hook].at # "free"
      BY <3>1, DogNumbers DEF DogIsSound, TimersSound, TimerIsSound
    <3> QED
      BY <1>6, <1>8, <3>1, <3>2, TimerStays
  <2>5. ASSUME NEW guard \in attested' PROVE hook'[guard.hook] = hook[guard.hook]
    <3>1. CASE guard \in attested
      <4>1. GuardIsSound(guard) /\ guard.hook \in HookProcess /\ HookIsSound(guard.hook)
        BY <3>1, DogNumbers DEF DogIsSound, GuardsSound, HooksSound
      <4> QED
        BY <1>8, <4>1 DEF GuardIsSound, HookIsSound
    <3>2. CASE guard \in Guards(s)
      <4>1. PICK timer \in incarnation[s].timer : timer.hook = guard.hook
        BY <3>2, GuardsAreSound
      <4>2. timer.hook \in HookProcess /\ hook[timer.hook].at # "free"
        BY <4>1, DogNumbers DEF DogIsSound, TimersSound, TimerIsSound
      <4> QED
        BY <1>8, <4>1, <4>2
    <3> QED
      BY <1>6, <2>5, <3>1, <3>2
  <2>6. \A guard \in attested : LeftQuietly(guard)' => LeftQuietly(guard) \/ Released(guard)'
    BY <1>6, <2>5 DEF LeftQuietly
  <2>7. ASSUME NEW guard \in Guards(s) PROVE GuardIsSound(guard)'
    <3>1. GuardIsSound(guard) /\ guard.server = s /\ hook'[guard.hook] = hook[guard.hook]
      BY <1>6, <2>5, <2>7, GuardsAreSound
    <3>2. Released(guard) <=> Released(guard)'
      BY <1>4, <1>5, <1>6, <3>1 DEF Released, Valid, Superseded
    <3> QED
      BY <1>4, <1>5, <3>1, <3>2 DEF GuardIsSound
  <2>8. \A guard \in attested' : guard \in attested \/ GuardIsSound(guard)'
    BY <1>6, <2>7
  <2> QED
    BY <1>6, <1>8, <2>1, <2>3, <2>4, <2>6, <2>8, ServerStepKeepsGuard
<1>9. CASE UNCHANGED hook
  <2>1. \A g \in HookProcess : HookGoesOn(g) /\ HookIsSound(g)'
    BY <1>6, <1>9, HookStays
  <2> QED
    BY <1>8, <1>9, <2>1 DEF DogIsSound, DogTypes
<1>10. ASSUME NEW h \in HookProcess, hook[h].at = "free",
              hook' = [hook EXCEPT ![h].at = "told", ![h].server = s, ![h].tickets = Tickets(s)]
       PROVE  DogIsSound'
  <2>1. Tickets(s) \in SUBSET Ticket
    <3>1. ASSUME NEW t \in Watched, incarnation[s].entries[t] # 0
          PROVE  <<t, incarnation[s].entries[t]>> \in Ticket
      <4>1. incarnation[s].entries[t] \in Generations
        BY ServerFields
      <4> QED
        BY <3>1, <4>1, WatchdogBounds DEF Generations, Ticket
    <3> QED
      BY <3>1 DEF Tickets
  <2> QED
    BY <1>6, <1>8, <1>10, <2>1, ToldHook
<1> QED
  BY <1>9, <1>10 DEF Answer

-----------------------------------------------------------------------------
\* The timers of a server are taken away, and perhaps tickets of it.
LEMMA TimerStops ==
  ASSUME DogIsSound, marker' = marker, UNCHANGED attested, NEW s \in Born,
         NEW timer \in incarnation[s].timer, NEW new \in Incarnations,
         incarnation' = [incarnation EXCEPT ![s] = new],
         new.life = incarnation[s].life, new.sequence = incarnation[s].sequence,
         \A t \in Watched : new.entries[t] \in {0, incarnation[s].entries[t]},
         new.timer = {},
         NEW word \in {"closed", "wake", "ignore"}, HookReply(timer.hook, word),
         \A guard \in attested :
           guard.hook = timer.hook /\ word = "ignore" /\ ~Gone(timer.hook)
             => LeftQuietly(guard) \/ Released(guard)'
  PROVE  DogIsSound'
<1> DEFINE h == timer.hook
<1>1. incarnation'[s] = new /\ (\A r \in Born : r # s => incarnation'[r] = incarnation[r])
      /\ incarnation' \in [Born -> Incarnations]
  BY DEF DogIsSound, DogTypes
<1>2. h \in HookProcess /\ TimerIsSound(s, timer) /\ MarkerGoesOn /\ HookIsSound(h)
      /\ word \in Words
  BY DogNumbers, MarkerStays DEF DogIsSound, TimersSound, HooksSound, Words
<1>3. hook[h].server = s /\ hook[h].epoch # 0
  BY <1>2 DEF TimerIsSound, Accepted
<1>4. /\ hook' \in [HookProcess -> HookRows]
      /\ \A g \in HookProcess : HookGoesOn(g) /\ HookIsSound(g)'
      /\ \A g \in HookProcess : g # h => hook'[g] = hook[g]
      /\ hook'[h].at = hook[h].at /\ hook'[h].reply \in {"read", word}
      /\ Gone(h) => hook'[h].reply = "read"
  BY <1>2, <1>3, ReplyGoesOn
<1>5. DogTypes'
  BY <1>1, <1>4 DEF DogIsSound, DogTypes
<1>6. ServerGoesOn(s) /\ ServerIsSound(s)'
  BY <1>1, ServerFields DEF ServerGoesOn, ServerIsSound
<1>7. \A old \in incarnation'[s].timer : TimerIsSound(s, old)'
  BY <1>1
<1>8. \A guard \in attested : guard.hook = h /\ hook'[h].reply = "ignore"
                             => LeftQuietly(guard) \/ Released(guard)'
  BY <1>4
<1> QED
  BY <1>1, <1>2, <1>3, <1>4, <1>5, <1>6, <1>7, <1>8, AnsweredKeepsGuard

\* A server's record without its timers.
LEMMA NoTimer ==
  ASSUME DogIsSound, NEW s \in Born,
         NEW new, new = [incarnation[s] EXCEPT !.timer = {}]
  PROVE  /\ new \in Incarnations /\ new.life = incarnation[s].life
         /\ new.sequence = incarnation[s].sequence /\ new.entries = incarnation[s].entries
         /\ new.timer = {}
<1>1. {} \in SUBSET Timer
  OBVIOUS
<1> QED
  BY <1>1, ServerFields DEF Incarnations

LEMMA DogAwaitReady ==
  ASSUME DogIsSound, NEW s \in Born, AwaitReady(s)
  PROVE  DogIsSound'
<1> DEFINE old == incarnation[s]
<1>1. PICK timer \in old.timer :
        /\ ~timer.ready
        /\ \/ /\ hook[timer.hook].ready /\ UNCHANGED hook
              /\ incarnation' = [incarnation EXCEPT ![s].timer = {[timer EXCEPT !.ready = TRUE]}]
           \/ /\ Gone(timer.hook) \/ ~hook[timer.hook].ready
              /\ incarnation' = [incarnation EXCEPT ![s].timer = {}]
              /\ HookReply(timer.hook, "closed")
  BY DEF AwaitReady
<1>2. UNCHANGED <<marker, attested>> /\ attested' \subseteq Guard
  BY DEF AwaitReady, DogIsSound, DogTypes
<1>3. CASE /\ hook[timer.hook].ready /\ UNCHANGED hook
           /\ incarnation' = [incarnation EXCEPT ![s].timer = {[timer EXCEPT !.ready = TRUE]}]
  <2>1. PICK later : later = [timer EXCEPT !.ready = TRUE]
    OBVIOUS
  <2>2. timer \in Timer
    BY ServerFields
  <2>3. later \in Timer /\ later.hook = timer.hook /\ later.tasks = timer.tasks
    BY <2>1, <2>2 DEF Timer
  <2>4. PICK new : new = [old EXCEPT !.timer = {later}]
    OBVIOUS
  <2>5. incarnation' = [incarnation EXCEPT ![s] = new]
    BY <1>3, <2>1, <2>4, Zenon
  <2>6. new \in Incarnations /\ new.life = old.life /\ new.sequence = old.sequence
        /\ new.entries = old.entries /\ new.epoch = old.epoch /\ new.timer = {later}
    BY <2>3, <2>4, ServerFields DEF Incarnations
  <2>7. \A t \in new.timer : \E o \in old.timer :
          /\ t.hook = o.hook /\ t.tasks = o.tasks
          /\ t.ready => o.ready \/ hook[o.hook].ready
    BY <1>3, <2>3, <2>6
  <2> QED
    BY <1>2, <1>3, <2>5, <2>6, <2>7, NoteKeepsGuard
<1>4. CASE /\ incarnation' = [incarnation EXCEPT ![s].timer = {}]
           /\ HookReply(timer.hook, "closed")
  <2>1. PICK new : new = [old EXCEPT !.timer = {}]
    OBVIOUS
  <2>2. incarnation' = [incarnation EXCEPT ![s] = new]
    BY <1>4, <2>1, Zenon
  <2>3. new \in Incarnations /\ new.life = old.life /\ new.sequence = old.sequence
        /\ new.entries = old.entries /\ new.timer = {}
    BY <2>1, NoTimer
  <2> QED
    BY <1>2, <1>4, <2>2, <2>3, TimerStops
<1> QED
  BY <1>1, <1>3, <1>4

LEMMA DogWatchTimer ==
  ASSUME DogIsSound, NEW s \in Born, WatchTimer(s)
  PROVE  DogIsSound'
<1> DEFINE old == incarnation[s]
           current(timer) == {ticket \in timer.tasks : Valid(s, ticket)}
           stale(timer) == old.life # "up" \/ ~Owns(s) \/ current(timer) = {}
<1>1. PICK timer \in old.timer :
        /\ timer.ready
        /\ \/ stale(timer) /\ StopTimer(s, timer, "ignore")
           \/ /\ incarnation' = [incarnation EXCEPT ![s].timer = {},
                   ![s].entries = [t \in Watched |->
                      IF \E ticket \in current(timer) : ticket[1] = t THEN 0
                      ELSE incarnation[s].entries[t]]]
              /\ HookReply(timer.hook, "wake")
           \/ /\ Gone(timer.hook) /\ StopTimer(s, timer, "ignore")
  BY DEF WatchTimer
<1>2. UNCHANGED <<marker, attested>> /\ timer.hook \in HookProcess /\ TimerIsSound(s, timer)
  BY DogNumbers DEF WatchTimer, DogIsSound, TimersSound
<1>3. CASE /\ incarnation' = [incarnation EXCEPT ![s].timer = {},
                   ![s].entries = [t \in Watched |->
                      IF \E ticket \in current(timer) : ticket[1] = t THEN 0
                      ELSE incarnation[s].entries[t]]]
           /\ HookReply(timer.hook, "wake")
  <2>1. PICK left : left = [t \in Watched |->
                      IF \E ticket \in current(timer) : ticket[1] = t THEN 0
                      ELSE incarnation[s].entries[t]]
    OBVIOUS
  <2>2. left \in [Watched -> Generations] /\ \A t \in Watched : left[t] \in {0, old.entries[t]}
    <3>1. 0 \in Generations
      BY WatchdogBounds DEF Generations
    <3>2. \A t \in Watched : left[t] \in {0, old.entries[t]} /\ old.entries[t] \in Generations
      BY <2>1, ServerFields
    <3>3. left = [t \in Watched |-> left[t]]
      BY <2>1
    <3> QED
      BY <3>1, <3>2, <3>3
  <2> HIDE DEF current
  <2>3. PICK new : new = [old EXCEPT !.timer = {}, !.entries = left]
    OBVIOUS
  <2>4. incarnation' = [incarnation EXCEPT ![s] = new]
    <3>1. incarnation' = [incarnation EXCEPT ![s].timer = {}, ![s].entries = left]
      BY <1>3, <2>1, Zenon
    <3>2. incarnation \in [Born -> Incarnations]
      BY DEF DogIsSound, DogTypes
    <3> QED
      BY <2>3, <3>1, <3>2
  <2>5. new \in Incarnations /\ new.life = old.life /\ new.sequence = old.sequence
        /\ new.entries = left /\ new.timer = {}
    <3>1. {} \in SUBSET Timer
      OBVIOUS
    <3> QED
      BY <2>2, <2>3, <3>1, ServerFields DEF Incarnations
  <2>6. \A t \in Watched : new.entries[t] \in {0, old.entries[t]}
    BY <2>2, <2>5
  <2> QED
    BY <1>2, <1>3, <2>4, <2>5, <2>6, TimerStops
<1>4. CASE StopTimer(s, timer, "ignore") /\ (stale(timer) \/ Gone(timer.hook))
  <2>1. PICK new : new = [old EXCEPT !.timer = {}]
    OBVIOUS
  <2>2. incarnation' = [incarnation EXCEPT ![s] = new] /\ HookReply(timer.hook, "ignore")
    BY <1>4, <2>1, Zenon DEF StopTimer
  <2>3. new \in Incarnations /\ new.life = old.life /\ new.sequence = old.sequence
        /\ new.entries = old.entries /\ new.timer = {}
    BY <2>1, NoTimer
  <2>4. ASSUME NEW guard \in attested, guard.hook = timer.hook, ~Gone(timer.hook)
        PROVE  Released(guard)'
    <3>1. GuardIsSound(guard)
      BY DEF DogIsSound, GuardsSound
    <3>2. guard.server = s /\ guard.ticket \in timer.tasks
      BY <1>2, <2>4, <3>1 DEF GuardIsSound, TimerIsSound
    <3>3. incarnation'[s] = new
      BY <2>2 DEF DogIsSound, DogTypes
    <3>4. hook'[timer.hook].server = s /\ hook'[timer.hook].epoch = hook[timer.hook].epoch
      <4>1. PICK answer : hook' = [hook EXCEPT ![timer.hook].reply = answer]
        BY <2>2 DEF HookReply
      <4>2. hook \in [HookProcess -> HookRows]
        BY DEF DogIsSound, DogTypes
      <4>3. hook[timer.hook].server = s
        BY <1>2 DEF TimerIsSound
      <4> QED
        BY <1>2, <4>1, <4>2, <4>3 DEF HookRows
    <3>5. CASE old.life # "up"
      BY <2>3, <3>2, <3>3, <3>5 DEF Released
    <3>6. CASE current(timer) = {}
      <4>1. ~Valid(s, guard.ticket)
        BY <3>2, <3>6
      <4> QED
        BY <2>3, <3>2, <3>3, <4>1 DEF Released, Valid
    <3>7. CASE old.life = "up" /\ ~Owns(s)
      <4>1. Accepted(timer.hook) /\ old.epoch = hook[timer.hook].epoch
            /\ hook[timer.hook].server = s
        BY <1>2, <3>7 DEF TimerIsSound
      <4>2. marker.epoch # hook[timer.hook].epoch \/ marker.owner # s
        BY <3>7, <4>1 DEF Owns, Accepted
      <4>3. marker.owner \in Nat /\ s \in Nat
        BY DogNumbers DEF DogIsSound
      <4>4. marker.epoch # hook[timer.hook].epoch \/ marker.owner > s
        BY <4>1, <4>2, <4>3 DEF Accepted
      <4> QED
        BY <1>2, <2>4, <3>4, <4>4 DEF Released, Superseded
    <3> QED
      BY <1>4, <2>4, <3>5, <3>6, <3>7
  <2> QED
    BY <1>2, <2>2, <2>3, <2>4, TimerStops
<1> QED
  BY <1>1, <1>3, <1>4

\* A server of which nothing is left.
LEMMA DogServerDies ==
  ASSUME DogIsSound, NEW s \in Born, ServerDies(s)
  PROVE  DogIsSound'
<1>1. PICK new \in Incarnations :
        new = [NewServer EXCEPT !.life = "dead"] /\ new.life # "up" /\ new.timer = {}
  BY ClosedServer DEF Lives
<1>2. new = [NewServer EXCEPT !.life = "dead"]
  BY <1>1
<1>3. incarnation' = [incarnation EXCEPT ![s] = new] /\ UNCHANGED <<marker, attested>>
  BY <1>2, Zenon DEF ServerDies
<1>4. incarnation'[s] = new /\ (\A r \in Born : r # s => incarnation'[r] = incarnation[r])
      /\ incarnation' \in [Born -> Incarnations]
  BY <1>3 DEF DogIsSound, DogTypes
<1>5. hook \in [HookProcess -> HookRows] /\ MarkerGoesOn
  BY <1>3, MarkerStays DEF DogIsSound, DogTypes
<1>6. hook' = [h \in HookProcess |->
       IF hook[h].server = s /\ hook[h].at \in {"asked", "armed"}
          /\ hook[h].reply \in {"none", "read"}
       THEN [hook[h] EXCEPT !.reply = "closed"] ELSE hook[h]]
  BY DEF ServerDies
<1>7. ASSUME NEW h \in HookProcess
      PROVE  /\ hook'[h] \in HookRows /\ hook'[h].at = hook[h].at
             /\ hook'[h].reply \in {"closed", hook[h].reply}
             /\ hook'[h].server = hook[h].server /\ hook'[h].epoch = hook[h].epoch
             /\ hook'[h].tickets = hook[h].tickets /\ hook'[h].ready = hook[h].ready
             /\ hook[h].server # s \/ hook[h].at \in {"free", "told"} => hook'[h] = hook[h]
  <2>1. hook[h] \in HookRows
    BY <1>5
  <2>2. CASE hook'[h] = hook[h]
    BY <2>1, <2>2
  <2>3. CASE /\ hook'[h] = [hook[h] EXCEPT !.reply = "closed"]
             /\ hook[h].server = s /\ hook[h].at \in {"asked", "armed"}
    BY <2>1, <2>3 DEF HookRows, Words
  <2> QED
    BY <1>6, <2>2, <2>3
<1>8. hook' \in [HookProcess -> HookRows]
  <2>1. hook' = [h \in HookProcess |-> hook'[h]]
    BY <1>6
  <2> QED
    BY <1>7, <2>1
<1>9. ASSUME NEW h \in HookProcess PROVE HookGoesOn(h) /\ HookIsSound(h)'
  <2>1. CASE hook'[h] = hook[h]
    BY <1>5, <2>1, HookStays
  <2>2. CASE hook'[h] # hook[h]
    <3>1. HookIsSound(h) /\ hook[h].at \notin {"free", "told"}
      BY <1>7, <2>2 DEF DogIsSound, HooksSound
    <3>2. HookGoesOn(h)
      BY <1>7, <3>1 DEF HookGoesOn
    <3>3. Accepted(h) => Accepted(h)'
      BY <1>3, <1>7 DEF Accepted
    <3>4. hook'[h].reply = "armed" => hook[h].reply = "armed"
      BY <1>7
    <3>5. hook'[h].reply \in {"read", "ignore", "wake", "closed"}
          \/ hook'[h].reply = hook[h].reply
      BY <1>7
    <3>6. HookIsSound(h)'
      BY <1>3, <1>7, <3>1, <3>3, <3>4, <3>5 DEF HookIsSound
    <3> QED
      BY <3>2, <3>6
  <2> QED
    BY <2>1, <2>2
<1>10. DogTypes'
  BY <1>3, <1>4, <1>8 DEF DogIsSound, DogTypes
<1>11. ServerGoesOn(s) /\ ServerIsSound(s)'
  BY <1>1, <1>4 DEF ServerGoesOn, ServerIsSound
<1>12. \A r \in Born : ServerGoesOn(r) /\ ServerIsSound(r)'
  BY <1>4, <1>11, ServerStays
<1>13. ASSUME NEW r \in Born, NEW timer \in incarnation'[r].timer PROVE TimerIsSound(r, timer)'
  <2>1. r # s /\ incarnation'[r] = incarnation[r] /\ timer \in incarnation[r].timer
    BY <1>1, <1>4, <1>13
  <2>2. timer.hook \in HookProcess /\ hook[timer.hook].server = r
    BY <2>1, DogNumbers DEF DogIsSound, TimersSound, TimerIsSound
  <2>3. hook'[timer.hook] = hook[timer.hook]
    BY <1>7, <2>1, <2>2
  <2> QED
    BY <1>5, <2>1, <2>3, TimerStays
<1>14. \A guard \in attested : LeftQuietly(guard)' => LeftQuietly(guard) \/ Released(guard)'
  BY <1>3, <1>7, DogNumbers DEF LeftQuietly, DogIsSound
<1> QED
  BY <1>3, <1>5, <1>9, <1>10, <1>12, <1>13, <1>14, ServerStepKeepsGuard

\* A hook that asks, and is answered with a word.
LEMMA AskedKeepsGuard ==
  ASSUME DogIsSound, MarkerGoesOn, UNCHANGED attested, NEW h \in HookProcess, NEW s \in Born,
         hook[h].server = s, NEW word \in Words,
         hook[h].epoch # 0, hook[h].reply = "none", HookReply(h, word),
         word = "armed" => Accepted(h)',
         NEW new \in Incarnations, incarnation' = [incarnation EXCEPT ![s] = new],
         new.life = incarnation[s].life,
         new.sequence = incarnation[s].sequence,
         new.entries = incarnation[s].entries,
         incarnation[s].timer # {} /\ new.life = "up"
           => new.epoch = incarnation[s].epoch,
         \A timer \in new.timer :
           timer \in incarnation[s].timer \/ TimerIsSound(s, timer)'
  PROVE  DogIsSound'
<1>1. HookIsSound(h) /\ ~hook[h].ready
  BY DogNumbers DEF DogIsSound, HooksSound, HookIsSound
<1>2. incarnation'[s] = new /\ (\A r \in Born : r # s => incarnation'[r] = incarnation[r])
      /\ incarnation' \in [Born -> Incarnations]
  BY <1>1 DEF DogIsSound, DogTypes
<1>3. /\ hook' \in [HookProcess -> HookRows]
      /\ \A g \in HookProcess : HookGoesOn(g) /\ HookIsSound(g)'
      /\ \A g \in HookProcess : g # h => hook'[g] = hook[g]
      /\ hook'[h].at = hook[h].at
  BY <1>1, ReplyGoesOn
<1>4. DogTypes'
  BY <1>2, <1>3 DEF DogIsSound, DogTypes, MarkerGoesOn
<1>5. ServerGoesOn(s) /\ ServerIsSound(s)'
  BY <1>1, <1>2, ServerFields DEF ServerGoesOn, ServerIsSound
<1>6. ASSUME NEW timer \in incarnation'[s].timer PROVE TimerIsSound(s, timer)'
  <2>1. CASE timer \in incarnation[s].timer
    <3>1. timer.hook \in HookProcess /\ hook[timer.hook].reply # "none"
      BY <1>1, <2>1, DogNumbers DEF DogIsSound, TimersSound, TimerIsSound
    <3>2. hook'[timer.hook] = hook[timer.hook]
      BY <1>3, <3>1
    <3>3. incarnation'[s].life = "up" =>
            incarnation[s].life = "up" /\ incarnation'[s].epoch = incarnation[s].epoch
      BY <1>2, <2>1
    <3> QED
      BY <1>1, <2>1, <3>2, <3>3, TimerStays
  <2> QED
    BY <1>2, <1>6, <2>1
<1>7. \A guard \in attested : guard.hook # h
  BY <1>1 DEF DogIsSound, GuardsSound, GuardIsSound
<1> QED
  BY <1>1, <1>2, <1>3, <1>4, <1>5, <1>6, <1>7, AnsweredKeepsGuard

LEMMA DogArm ==
  ASSUME DogIsSound, NEW h \in HookProcess, Arm(h)
  PROVE  DogIsSound'
<1>0. PICK s : s = hook[h].server
  OBVIOUS
<1> DEFINE old == incarnation[s]
<1>1. /\ hook[h].server = s /\ hook[h].epoch # 0 /\ hook[h].reply = "none" /\ UNCHANGED attested /\ s \in Born
      /\ s \in Nat /\ old \in Incarnations /\ HookIsSound(h) /\ hook[h].epoch \in Nat
  BY <1>0, DogNumbers DEF Arm, DogIsSound, HooksSound
<1>2. CASE ~Acceptable(s, h)
  <2>1. HookReply(h, "ignore") /\ UNCHANGED <<marker, incarnation>>
    BY <1>0, <1>2 DEF Arm
  <2>2. incarnation' = [incarnation EXCEPT ![s] = old]
    BY <2>1 DEF DogIsSound, DogTypes
  <2>3. MarkerGoesOn /\ "ignore" \in Words
    BY <2>1, MarkerStays DEF Words
  <2> QED
    BY <1>1, <2>1, <2>2, <2>3, AskedKeepsGuard
<1>3. CASE Acceptable(s, h)
  <2>1. /\ marker.epoch # 0 /\ marker.epoch = hook[h].epoch /\ old.epoch \in {0, hook[h].epoch}
        /\ marker.owner <= s /\ marker' = [marker EXCEPT !.owner = s]
    BY <1>0, <1>3 DEF Arm, Acceptable, MayClaim
  <2>2. marker \in Markers /\ s \in 0..MaxServers
    BY <1>1 DEF Born, DogIsSound, DogTypes
  <2>3. marker' \in Markers /\ marker'.epoch = marker.epoch /\ marker'.last = marker.last
        /\ marker'.owner = s
    BY <2>1, <2>2 DEF Markers
  <2>4. MarkerGoesOn
    BY <1>1, <2>1, <2>3, DogNumbers DEF MarkerGoesOn, DogIsSound, MarkerIsLast
  <2>5. marker.epoch \in Epochs
    BY <2>2 DEF Markers
  <2>6. \A word \in Words : HookReply(h, word) => Accepted(h)'
    <3>1. ASSUME NEW word \in Words, HookReply(h, word)
          PROVE  hook'[h].server = s /\ hook'[h].epoch = hook[h].epoch
      <4>1. PICK answer : hook' = [hook EXCEPT ![h].reply = answer]
        BY <3>1 DEF HookReply
      <4>2. hook[h] \in HookRows /\ hook'[h] = [hook[h] EXCEPT !.reply = answer]
        BY <4>1 DEF DogIsSound, DogTypes
      <4> QED
        BY <1>1, <4>2 DEF HookRows
    <3> QED
      BY <1>1, <2>3, <3>1 DEF Accepted
  <2>7. old.timer # {} /\ old.life = "up" => old.epoch = marker.epoch
    BY <1>1, <2>1 DEF DogIsSound, TimersSound, TimerIsSound, Accepted
  <2>8. ASSUME NEW word \in Words, HookReply(h, word), NEW probe \in 0..MaxHooks,
               incarnation' = [incarnation EXCEPT ![s].epoch = marker.epoch, ![s].probe = probe]
        PROVE  DogIsSound'
    <3>1. PICK new : new = [old EXCEPT !.epoch = marker.epoch, !.probe = probe]
      OBVIOUS
    <3>2. incarnation' = [incarnation EXCEPT ![s] = new]
      <4>1. incarnation \in [Born -> Incarnations]
        BY DEF DogIsSound, DogTypes
      <4> QED
        BY <1>1, <2>8, <3>1, <4>1
    <3>3. new \in Incarnations /\ new.life = old.life /\ new.sequence = old.sequence
          /\ new.entries = old.entries /\ new.epoch = marker.epoch /\ new.timer = old.timer
      BY <1>1, <2>5, <3>1 DEF Incarnations
    <3>4. /\ new.life = incarnation[s].life /\ new.sequence = incarnation[s].sequence
          /\ new.entries = incarnation[s].entries
          /\ (incarnation[s].timer # {} /\ new.life = "up" => new.epoch = incarnation[s].epoch)
          /\ \A timer \in new.timer : timer \in incarnation[s].timer \/ TimerIsSound(s, timer)'
      BY <2>7, <3>3
    <3>5. word = "armed" => Accepted(h)'
      BY <2>6, <2>8
    <3> HIDE DEF old
    <3> QED
      BY <1>1, <2>4, <2>8, <3>2, <3>3, <3>4, <3>5, AskedKeepsGuard
  <2>9. CASE /\ incarnation' = [incarnation EXCEPT ![s].epoch = marker.epoch, ![s].probe = h]
             /\ HookReply(h, "probe")
    <3>1. h \in 0..MaxHooks /\ "probe" \in Words
      BY DEF HookProcess, Words
    <3> QED
      BY <2>8, <2>9, <3>1
  <2>10. CASE /\ incarnation' = [incarnation EXCEPT ![s].epoch = marker.epoch]
              /\ HookReply(h, "ignore")
    <3>1. incarnation \in [Born -> Incarnations] /\ old.probe \in 0..MaxHooks
          /\ "ignore" \in Words
      BY <1>1 DEF DogIsSound, DogTypes, Incarnations, Words
    <3>2. [old EXCEPT !.epoch = marker.epoch] = [old EXCEPT !.epoch = marker.epoch,
                                                            !.probe = old.probe]
      BY <1>1 DEF Incarnations
    <3>3. incarnation' = [incarnation EXCEPT ![s].epoch = marker.epoch, ![s].probe = old.probe]
      BY <1>1, <2>10, <3>1, <3>2
    <3> QED
      BY <2>8, <2>10, <3>1, <3>3
  <2>11. CASE /\ incarnation' = [incarnation EXCEPT ![s].epoch = marker.epoch,
                   ![s].timer = {[hook |-> h, tasks |-> hook[h].tickets,
                                  ready |-> FALSE, deadline |-> "far"]}]
              /\ HookReply(h, "armed")
    <3>1. PICK timer : timer = [hook |-> h, tasks |-> hook[h].tickets,
                                ready |-> FALSE, deadline |-> "far"]
      OBVIOUS
    <3>2. timer \in Timer /\ timer.hook = h /\ timer.tasks = hook[h].tickets /\ ~timer.ready
      <4>1. hook[h].tickets \in SUBSET Ticket
        BY DogNumbers DEF DogIsSound, HookRows
      <4> QED
        BY <3>1, <4>1 DEF Timer
    <3>3. PICK new : new = [old EXCEPT !.epoch = marker.epoch, !.timer = {timer}]
      OBVIOUS
    <3>4. incarnation' = [incarnation EXCEPT ![s] = new]
      <4>1. incarnation \in [Born -> Incarnations]
        BY DEF DogIsSound, DogTypes
      <4>2. incarnation' = [incarnation EXCEPT ![s].epoch = marker.epoch, ![s].timer = {timer}]
        BY <2>11, <3>1, Zenon
      <4> QED
        BY <1>1, <3>3, <4>1, <4>2
    <3>5. new \in Incarnations /\ new.life = old.life /\ new.sequence = old.sequence
          /\ new.entries = old.entries /\ new.epoch = marker.epoch /\ new.timer = {timer}
      BY <1>1, <2>5, <3>2, <3>3 DEF Incarnations
    <3>6. TimerIsSound(s, timer)'
      <4>1. "armed" \in Words /\ (hook[h].ready => "armed" \in {"read", "ignore", "wake", "closed"})
        BY <1>1 DEF Words, HookIsSound
      <4>2. HookReply(h, "armed") /\ Accepted(h)'
        BY <2>6, <2>11, <4>1
      <4>3. /\ hook'[h].at = hook[h].at /\ hook'[h].reply \in {"read", "armed"}
            /\ hook'[h].ready = hook[h].ready /\ hook'[h].server = s
            /\ hook'[h].epoch = hook[h].epoch /\ hook'[h].tickets = hook[h].tickets
        BY <1>1, <2>4, <4>1, <4>2, ReplyGoesOn
      <4>4. ~hook[h].ready /\ hook[h].at \notin {"free", "told"}
        BY <1>1 DEF HookIsSound
      <4>5. incarnation'[s].epoch = marker.epoch
        BY <1>1, <3>4, <3>5 DEF DogIsSound, DogTypes
      <4> QED
        BY <2>1, <3>2, <4>2, <4>3, <4>4, <4>5 DEF TimerIsSound
    <3>7. "armed" \in Words /\ \A t \in new.timer : TimerIsSound(s, t)'
      BY <3>5, <3>6 DEF Words
    <3>8. /\ new.life = incarnation[s].life /\ new.sequence = incarnation[s].sequence
          /\ new.entries = incarnation[s].entries
          /\ (incarnation[s].timer # {} /\ new.life = "up" => new.epoch = incarnation[s].epoch)
          /\ \A t \in new.timer : t \in incarnation[s].timer \/ TimerIsSound(s, t)'
      BY <2>7, <3>5, <3>7
    <3>9. "armed" = "armed" => Accepted(h)'
      BY <2>6, <2>11, <3>7
    <3> HIDE DEF old
    <3> QED
      BY <1>1, <2>4, <2>11, <3>4, <3>5, <3>7, <3>8, <3>9, AskedKeepsGuard
  <2> QED
    BY <1>0, <1>3, <2>9, <2>10, <2>11 DEF Arm
<1> QED
  BY <1>2, <1>3

-----------------------------------------------------------------------------
\* Why a hook process may leave quietly.
LEMMA DogStartHook ==
  ASSUME DogIsSound, NEW h \in HookProcess, StartHook(h)
  PROVE  DogIsSound'
<1>1. /\ UNCHANGED <<marker, incarnation, attested>> /\ hook[h].at = "told" /\ HookIsSound(h)
      /\ hook[h] \in HookRows /\ hook \in [HookProcess -> HookRows] /\ marker \in Markers
      /\ marker.epoch \in {0, marker.last} /\ marker.last \in Nat
  BY DogNumbers DEF StartHook, DogIsSound, HooksSound, DogTypes, MarkerIsLast
<1>2. hook[h].epoch = 0 /\ hook[h].reply = "none" /\ ~hook[h].ready
  BY <1>1 DEF HookIsSound
<1>3. PICK new \in HookRows :
        /\ hook' = [hook EXCEPT ![h] = new]
        /\ new.reply = "none" /\ ~new.ready
        /\ \/ new.at = "quiet" /\ new.epoch = 0
           \/ new.at = "asked" /\ new.epoch = marker.epoch /\ marker.epoch # 0
  <2>1. CASE hook' = [hook EXCEPT ![h].at = "quiet"]
    <3>1. PICK new : new = [hook[h] EXCEPT !.at = "quiet"]
      OBVIOUS
    <3>2. hook' = [hook EXCEPT ![h] = new]
      BY <2>1, <3>1, Zenon
    <3>3. new \in HookRows /\ new.at = "quiet" /\ new.epoch = 0 /\ new.reply = "none" /\ ~new.ready
      BY <1>1, <1>2, <3>1 DEF HookRows, HookStates
    <3> QED
      BY <3>2, <3>3
  <2>2. CASE /\ hook' = [hook EXCEPT ![h].at = "asked", ![h].epoch = marker.epoch]
             /\ marker.epoch # 0
    <3>1. PICK new : new = [hook[h] EXCEPT !.at = "asked", !.epoch = marker.epoch]
      OBVIOUS
    <3>2. hook' = [hook EXCEPT ![h] = new]
      BY <1>1, <2>2, <3>1
    <3>3. marker.epoch \in Epochs
      BY <1>1 DEF Markers
    <3>4. new \in HookRows /\ new.at = "asked" /\ new.epoch = marker.epoch /\ new.reply = "none"
          /\ ~new.ready
      BY <1>1, <1>2, <3>1, <3>3 DEF HookRows, HookStates
    <3> QED
      BY <2>2, <3>2, <3>4
  <2> QED
    BY <2>1, <2>2 DEF StartHook
<1>4. hook'[h] = new
  BY <1>1, <1>3
<1>5. HookIsSound(h)'
  BY <1>1, <1>3, <1>4 DEF HookIsSound
<1>6. \A s \in Born : \A timer \in incarnation[s].timer : timer.hook # h
  BY <1>1 DEF DogIsSound, TimersSound, TimerIsSound
<1>7. \A guard \in attested : guard.hook # h
  BY <1>2 DEF DogIsSound, GuardsSound, GuardIsSound
<1> QED
  BY <1>1, <1>2, <1>3, <1>5, <1>6, <1>7, HookStepKeepsGuard

\* A hook that goes on with an answer it read, or leaves.
LEMMA HookLeaves ==
  ASSUME DogIsSound, UNCHANGED <<marker, incarnation, attested>>, NEW h \in HookProcess,
         NEW at \in HookStates \ {"free", "told"}, NEW reply \in Words, NEW ready \in BOOLEAN,
         hook' = [hook EXCEPT ![h].at = at, ![h].reply = reply, ![h].ready = ready],
         hook[h].at \in {"asked", "armed"}, hook[h].ready => ready,
         reply \in {"read", hook[h].reply},
         ready => hook[h].ready \/ hook[h].reply = "armed",
         at = "asked" => ~ready, at = "armed" => ready,
         ready => /\ at \in {"armed", "woke", "quiet", "killed"}
                  /\ reply \in {"read", "ignore", "wake", "closed"},
         ready /\ at = "quiet" => hook[h].reply = "ignore" \/ Superseded(h)
  PROVE  DogIsSound'
<1>1. /\ HookIsSound(h) /\ hook[h] \in HookRows /\ hook \in [HookProcess -> HookRows]
  BY DogNumbers DEF DogIsSound, HooksSound, DogTypes
<1>2. PICK new : new = [hook[h] EXCEPT !.at = at, !.reply = reply, !.ready = ready]
  OBVIOUS
<1>3. hook' = [hook EXCEPT ![h] = new]
  BY <1>1, <1>2
<1>4. new \in HookRows /\ new.at = at /\ new.reply = reply /\ new.server = hook[h].server
      /\ new.epoch = hook[h].epoch /\ new.tickets = hook[h].tickets
  BY <1>1, <1>2 DEF HookRows
<1>5. new.ready <=> ready
  BY <1>1, <1>2 DEF HookRows
<1>6. hook'[h] = new
  BY <1>1, <1>3
<1>7. Accepted(h) => Accepted(h)'
  BY <1>4, <1>6 DEF Accepted
<1>8. hook[h].ready \/ hook[h].reply = "armed" => Accepted(h)
  BY <1>1 DEF HookIsSound
<1>9. hook[h].epoch <= marker.last
  BY <1>1 DEF HookIsSound
<1>10. HookIsSound(h)'
  <2>1. hook'[h].ready \/ hook'[h].reply = "armed" => Accepted(h)'
    BY <1>4, <1>5, <1>6, <1>7, <1>8
  <2>2. hook'[h].at = at /\ hook'[h].reply = reply /\ hook'[h].epoch = hook[h].epoch
    BY <1>4, <1>6
  <2>3. hook'[h].ready <=> ready
    BY <1>5, <1>6
  <2>4. hook[h].epoch # 0
    BY <1>1, <1>8 DEF HookIsSound, Accepted
  <2>5. at \notin {"free", "told"} /\ marker'.last = marker.last
    OBVIOUS
  <2> QED
    BY <1>9, <2>1, <2>2, <2>3, <2>4, <2>5 DEF HookIsSound
<1>11. \A s \in Born : \A timer \in incarnation[s].timer : timer.hook = h =>
         /\ new.reply \in {"armed", "read"}
         /\ new.ready /\ new.at = "quiet" => Superseded(h)
  <2>1. ASSUME NEW s \in Born, NEW timer \in incarnation[s].timer, timer.hook = h
        PROVE  /\ new.reply \in {"armed", "read"}
               /\ new.ready /\ new.at = "quiet" => Superseded(h)
    <3>1. hook[h].reply \in {"armed", "read"}
      BY <2>1 DEF DogIsSound, TimersSound, TimerIsSound
    <3> QED
      BY <1>4, <1>5, <3>1
  <2> QED
    BY <2>1
<1>12. \A guard \in attested :
         guard.hook = h /\ (new.at = "quiet" \/ new.reply = "ignore") => Released(guard)
  <2>1. ASSUME NEW guard \in attested, guard.hook = h, new.at = "quiet" \/ new.reply = "ignore"
        PROVE  Released(guard)
    <3>1. GuardIsSound(guard) /\ hook[h].ready
      BY <2>1 DEF DogIsSound, GuardsSound, GuardIsSound
    <3>2. CASE hook[h].reply = "ignore"
      BY <2>1, <3>1, <3>2 DEF GuardIsSound
    <3>3. CASE Superseded(h)
      BY <2>1, <3>3 DEF Released
    <3> QED
      BY <1>4, <2>1, <3>1, <3>2, <3>3
  <2> QED
    BY <2>1
<1> QED
  BY <1>1, <1>3, <1>4, <1>5, <1>10, <1>11, <1>12, HookStepKeepsGuard

\* The same, of a hook whose answer is left as it is.
LEMMA HookGone ==
  ASSUME DogIsSound, UNCHANGED <<marker, incarnation, attested>>, NEW h \in HookProcess,
         NEW at \in {"woke", "quiet", "killed"}, hook' = [hook EXCEPT ![h].at = at],
         hook[h].at \in {"asked", "armed"},
         hook[h].ready /\ at = "quiet" => Superseded(h)
  PROVE  DogIsSound'
<1>1. /\ HookIsSound(h) /\ hook[h] \in HookRows /\ hook \in [HookProcess -> HookRows]
  BY DogNumbers DEF DogIsSound, HooksSound, DogTypes
<1>2. PICK reply \in Words, ready \in BOOLEAN : reply = hook[h].reply /\ ready = hook[h].ready
  BY <1>1 DEF HookRows
<1>3. [hook[h] EXCEPT !.at = at] = [hook[h] EXCEPT !.at = at, !.reply = reply, !.ready = ready]
  BY <1>1, <1>2 DEF HookRows
<1>4. hook' = [hook EXCEPT ![h].at = at, ![h].reply = reply, ![h].ready = ready]
  BY <1>1, <1>3
<1>5. /\ hook[h].ready => ready
      /\ reply \in {"read", hook[h].reply}
      /\ ready => hook[h].ready \/ hook[h].reply = "armed"
  BY <1>2
<1>6. /\ at \in HookStates \ {"free", "told"} /\ (at = "asked" => ~ready)
      /\ (at = "armed" => ready)
  BY DEF HookStates
<1>7. /\ ready => /\ at \in {"armed", "woke", "quiet", "killed"}
                  /\ reply \in {"read", "ignore", "wake", "closed"}
      /\ ready /\ at = "quiet" => hook[h].reply = "ignore" \/ Superseded(h)
  BY <1>1, <1>2 DEF HookIsSound
<1> QED
  BY <1>4, <1>5, <1>6, <1>7, HookLeaves

LEMMA DogLook ==
  ASSUME DogIsSound, NEW h \in HookProcess, Look(h)
  PROVE  DogIsSound'
<1>1. /\ HookIsSound(h) /\ hook[h].server \in Nat /\ hook[h].epoch \in Nat
      /\ marker.owner \in Nat
  BY DogNumbers DEF DogIsSound, HooksSound, Born
<1>2. hook[h].ready => Superseded(h)
  BY <1>1 DEF Look, HookIsSound, Accepted, Superseded
<1> QED
  BY <1>2, HookGone DEF Look

LEMMA DogTimeout ==
  ASSUME DogIsSound, NEW h \in HookProcess, Timeout(h)
  PROVE  DogIsSound'
<1>1. HookIsSound(h)
  BY DEF DogIsSound, HooksSound
<1>2. hook[h].at = "asked" => ~hook[h].ready
  BY <1>1 DEF HookIsSound
<1> QED
  BY <1>2, HookGone DEF Timeout

LEMMA DogKillHook ==
  ASSUME DogIsSound, NEW h \in HookProcess, KillHook(h)
  PROVE  DogIsSound'
BY HookGone DEF KillHook

LEMMA DogReadReply ==
  ASSUME DogIsSound, NEW h \in HookProcess, ReadReply(h)
  PROVE  DogIsSound'
<1>1. /\ HookIsSound(h) /\ hook[h] \in HookRows /\ hook \in [HookProcess -> HookRows]
      /\ UNCHANGED <<marker, incarnation, attested>> /\ hook[h].at \in {"asked", "armed"}
  BY DogNumbers DEF DogIsSound, HooksSound, DogTypes, ReadReply
<1>2. hook[h].ready \in BOOLEAN /\ "read" \in Words
  BY <1>1 DEF HookRows, Words
<1>3. /\ hook[h].at = "asked" => ~hook[h].ready
      /\ hook[h].at = "armed" => hook[h].ready
      /\ hook[h].ready => hook[h].reply # "probe"
  BY <1>1 DEF HookIsSound
<1>4. CASE hook' = [hook EXCEPT ![h].at = "armed", ![h].ready = TRUE, ![h].reply = "read"]
           /\ hook[h].reply = "armed"
  <2>1. hook' = [hook EXCEPT ![h].at = "armed", ![h].reply = "read", ![h].ready = TRUE]
    BY <1>1, <1>4 DEF HookRows
  <2> QED
    BY <1>1, <1>2, <1>4, <2>1, HookLeaves DEF HookStates
<1>5. ASSUME NEW at \in {"woke", "quiet", "probed"},
             hook' = [hook EXCEPT ![h].at = at, ![h].reply = "read"],
             hook[h].ready => at # "probed",
             hook[h].ready /\ at = "quiet" => hook[h].reply = "ignore"
      PROVE  DogIsSound'
  <2>1. [hook[h] EXCEPT !.at = at, !.reply = "read"]
          = [hook[h] EXCEPT !.at = at, !.reply = "read", !.ready = hook[h].ready]
    BY <1>1 DEF HookRows
  <2>2. hook' = [hook EXCEPT ![h].at = at, ![h].reply = "read", ![h].ready = hook[h].ready]
    BY <1>1, <1>5, <2>1
  <2>3. at \in HookStates \ {"free", "told"}
    BY DEF HookStates
  <2> QED
    BY <1>1, <1>2, <1>5, <2>2, <2>3, HookLeaves
<1> QED
  BY <1>3, <1>4, <1>5 DEF ReadReply

LEMMA DogSession ==
  ASSUME DogIsSound, StartSession \/ EndSession
  PROVE  DogIsSound'
<1>1. marker \in Markers /\ marker.last \in Nat
  BY DogNumbers DEF DogIsSound, DogTypes
<1>2. CASE StartSession
  <2>1. marker' = [epoch |-> marker.last + 1, owner |-> 0, last |-> marker.last + 1]
        /\ marker.last + 1 \in Epochs
    BY <1>1, <1>2, WatchdogBounds DEF StartSession, Epochs
  <2>2. 0 \in 0..MaxServers
    BY WatchdogBounds
  <2>3. MarkerGoesOn
    BY <1>1, <2>1, <2>2 DEF MarkerGoesOn, Markers
  <2> QED
    BY <1>2, <2>3, SessionKeepsGuard DEF StartSession
<1>3. CASE EndSession
  <2>1. 0 \in 0..MaxServers /\ 0 \in Epochs
    BY WatchdogBounds DEF Epochs
  <2>2. marker' \in Markers /\ marker'.epoch = 0 /\ marker'.last = marker.last
    BY <1>1, <1>3, <2>1 DEF Markers, EndSession
  <2>3. MarkerGoesOn
    BY <1>1, <2>2 DEF MarkerGoesOn
  <2> QED
    BY <1>3, <2>3, SessionKeepsGuard DEF EndSession
<1> QED
  BY <1>2, <1>3

-----------------------------------------------------------------------------
LEMMA DogInit ==
  ASSUME WatchdogInit
  PROVE  DogIsSound
<1>1. /\ 0 \in Generations /\ 0 \in Epochs /\ 0 \in 0..MaxHooks /\ 0 \in 0..MaxServers
      /\ 1 \in 0..MaxServers /\ 1 \in Born /\ \A s \in Born : s \in 0..MaxServers
  BY WatchdogBounds DEF Generations, Epochs, Born
<1>2. PICK confirmed \in BOOLEAN, servers \in Born, epoch \in 1..MaxEpochs :
       /\ marker = [epoch |-> epoch, owner |-> IF confirmed THEN 1 ELSE 0, last |-> epoch]
       /\ incarnation = [s \in Born |->
            IF s > servers THEN [NewServer EXCEPT !.life = "dead"]
            ELSE IF confirmed /\ s = 1
                 THEN [NewServer EXCEPT !.epoch = epoch, !.confirmed = TRUE]
                 ELSE NewServer]
  BY DEF WatchdogInit
<1>3. epoch \in Epochs /\ epoch \in Nat
  BY WatchdogBounds DEF Epochs
<1>4. marker \in Markers /\ marker.epoch = marker.last /\ marker.last \in Nat
  BY <1>1, <1>2, <1>3 DEF Markers
<1>5. /\ hook = [h \in HookProcess |->
          [at |-> "free", server |-> 1, epoch |-> 0, tickets |-> {}, ready |-> FALSE,
           reply |-> "none"]]
      /\ attested = {}
  BY DEF WatchdogInit
<1>6. ASSUME NEW s \in Born
      PROVE  /\ incarnation[s] \in Incarnations /\ incarnation[s].timer = {}
             /\ \A t \in Watched : incarnation[s].entries[t] = 0
             /\ incarnation[s].sequence = 0
  <2>1. PICK none : none = [t \in Watched |-> 0]
    OBVIOUS
  <2>2. none \in [Watched -> Generations] /\ \A t \in Watched : none[t] = 0
    BY <1>1, <2>1
  <2>3. PICK off \in BOOLEAN : off = FALSE
    OBVIOUS
  <2>4. PICK on \in BOOLEAN : on = TRUE
    OBVIOUS
  <2>5. PICK server : server = NewServer
    OBVIOUS
  <2>6. server = [life |-> "up", entries |-> none, expired |-> {}, sequence |-> 0,
                  epoch |-> 0, confirmed |-> off, probe |-> 0, timer |-> {}]
    BY <2>1, <2>3, <2>5, Zenon DEF NewServer
  <2>7. \/ incarnation[s] = [server EXCEPT !.life = "dead"]
        \/ incarnation[s] = [server EXCEPT !.epoch = epoch, !.confirmed = on]
        \/ incarnation[s] = server
    BY <1>2, <2>4, <2>5
  <2>8. "up" \in Lives /\ "dead" \in Lives /\ {} \in SUBSET Watched /\ {} \in SUBSET Timer
    BY DEF Lives
  <2>9. CASE incarnation[s] = [server EXCEPT !.life = "dead"]
    <3>1. incarnation[s] = [life |-> "dead", entries |-> none, expired |-> {}, sequence |-> 0,
                            epoch |-> 0, confirmed |-> off, probe |-> 0, timer |-> {}]
      BY <2>6, <2>9
    <3> QED
      BY <1>1, <2>2, <2>8, <3>1 DEF Incarnations
  <2>10. CASE incarnation[s] = [server EXCEPT !.epoch = epoch, !.confirmed = on]
    <3>1. incarnation[s] = [life |-> "up", entries |-> none, expired |-> {}, sequence |-> 0,
                            epoch |-> epoch, confirmed |-> on, probe |-> 0, timer |-> {}]
      BY <2>6, <2>10
    <3> QED
      BY <1>1, <1>3, <2>2, <2>8, <3>1 DEF Incarnations
  <2>11. CASE incarnation[s] = server
    BY <1>1, <2>2, <2>6, <2>8, <2>11 DEF Incarnations
  <2> QED
    BY <2>7, <2>9, <2>10, <2>11
<1>7. incarnation \in [Born -> Incarnations]
  <2>1. incarnation = [s \in Born |-> incarnation[s]]
    BY <1>2
  <2> QED
    BY <1>6, <2>1
<1>8. ASSUME NEW h \in HookProcess
      PROVE  hook[h] \in HookRows /\ HookIsSound(h)
  <2>1. hook[h] = [at |-> "free", server |-> 1, epoch |-> 0, tickets |-> {}, ready |-> FALSE,
                   reply |-> "none"]
    BY <1>5
  <2>2. hook[h] \in HookRows
    BY <1>1, <2>1 DEF HookRows, HookStates, Words
  <2> QED
    BY <1>4, <2>1, <2>2 DEF HookIsSound
<1>9. hook \in [HookProcess -> HookRows]
  BY <1>5, <1>8
<1>10. DogTypes
  BY <1>4, <1>5, <1>7, <1>9 DEF DogTypes
<1>11. HooksSound /\ TimersSound /\ ServersSound
  BY <1>6, <1>8 DEF HooksSound, TimersSound, ServersSound, ServerIsSound
<1> QED
  BY <1>4, <1>5, <1>10, <1>11 DEF DogIsSound, MarkerIsLast, GuardsSound

LEMMA DogStep ==
  ASSUME DogIsSound, [WatchdogNext]_watchdogVars
  PROVE  DogIsSound'
<1>1. CASE UNCHANGED watchdogVars
  <2>1. UNCHANGED <<marker, incarnation, hook, attested>>
    BY <1>1 DEF watchdogVars
  <2> QED
    BY <2>1, MarkerStays, SessionKeepsGuard
<1>2. CASE WatchdogNext
  <2>1. CASE StartSession \/ EndSession
    BY <2>1, DogSession
  <2>2. ASSUME NEW h \in HookProcess,
               StartHook(h) \/ Look(h) \/ ReadReply(h) \/ Timeout(h) \/ KillHook(h) \/ Arm(h)
        PROVE  DogIsSound'
    BY <2>2, DogStartHook, DogLook, DogReadReply, DogTimeout, DogKillHook, DogArm
  <2>3. ASSUME NEW s \in Born,
               \/ ConfirmProbe(s) \/ ProbeExpires(s) \/ AwaitReady(s) \/ WatchTimer(s)
               \/ TimePasses(s) \/ CloseWatchdog(s) \/ ServerDies(s) \/ Answer(s)
        PROVE  DogIsSound'
    BY <2>3, DogConfirmProbe, DogProbeExpires, DogAwaitReady, DogWatchTimer, DogTimePasses,
       DogCloseWatchdog, DogServerDies, DogAnswer
  <2>4. ASSUME NEW s \in Born, NEW t \in Watched,
               ObserveActive(s, t) \/ ObserveEnded(s, t) \/ TicketExpires(s, t)
        PROVE  DogIsSound'
    BY <2>4, DogObserveActive, DogObserveEnded, DogTicketExpires
  <2> QED
    BY <1>2, <2>1, <2>2, <2>3, <2>4 DEF WatchdogNext
<1> QED
  BY <1>1, <1>2

LEMMA DogStands ==
  ASSUME DogIsSound
  PROVE  GuardStands
<1>1. WatchdogTypeOK
  <2>1. marker \in [epoch : 0..MaxEpochs, owner : 0..MaxServers, last : 0..MaxEpochs]
    BY DEF DogIsSound, DogTypes, Markers, Epochs
  <2>2. \A s \in Born :
          /\ incarnation[s].life \in {"up", "closed", "dead"}
          /\ incarnation[s].entries \in [Watched -> 0..MaxGenerations]
          /\ incarnation[s].expired \subseteq Watched
          /\ incarnation[s].epoch \in 0..MaxEpochs /\ incarnation[s].probe \in 0..MaxHooks
          /\ incarnation[s].timer \subseteq Timer
    BY ServerFields DEF Lives, Generations, Epochs
  <2>3. hook \in [HookProcess -> HookRows] /\ attested \subseteq Guard
    BY DEF DogIsSound, DogTypes
  <2> QED
    BY <2>1, <2>2, <2>3 DEF WatchdogTypeOK, HookRows, HookStates, Epochs, Words
<1>2. ASSUME NEW guard \in attested
      PROVE  \/ hook[guard.hook].at \in {"armed", "woke", "killed"}
             \/ /\ hook[guard.hook].at = "quiet"
                /\ \/ ~Valid(guard.server, guard.ticket)
                   \/ incarnation[guard.server].life # "up"
                   \/ marker.epoch # hook[guard.hook].epoch \/ marker.owner # guard.server
  <2>1. GuardIsSound(guard) /\ HookIsSound(guard.hook) /\ guard.server \in Nat
    BY DogNumbers DEF DogIsSound, GuardsSound, HooksSound, Born
  <2>2. hook[guard.hook].at \in {"armed", "woke", "quiet", "killed"}
    BY <2>1 DEF GuardIsSound, HookIsSound
  <2>3. hook[guard.hook].at = "quiet" => Released(guard)
    BY <2>1 DEF GuardIsSound
  <2>4. Superseded(guard.hook)
          => marker.epoch # hook[guard.hook].epoch \/ marker.owner # guard.server
    BY <2>1 DEF Superseded, GuardIsSound
  <2> QED
    BY <2>2, <2>3, <2>4 DEF Released
<1> QED
  BY <1>1, <1>2 DEF GuardStands

\* A client that was told of a guard is not left alone.
THEOREM GuardStanding == WatchdogSpec => []GuardStands
<1>1. WatchdogInit => DogIsSound
  BY DogInit
<1>2. DogIsSound /\ [WatchdogNext]_watchdogVars => DogIsSound'
  BY DogStep
<1>3. DogIsSound => GuardStands
  BY DogStands
<1> QED
  BY <1>1, <1>2, <1>3, PTL DEF WatchdogSpec

-----------------------------------------------------------------------------
(* EventOutbox.  What a pump reads before it waits is everything its       *)
(* session was owed, unless a producer still owes it a signal: so a pump   *)
(* that waits with its flag down has nothing to send.                      *)

\* The rows of the outbox, and the delivery of a session.
EventRows == [owner : Session \union {NoOne}, sent : BOOLEAN, acked : BOOLEAN]
ChannelRows ==
  [alive : BOOLEAN, confirmed : BOOLEAN, wake : BOOLEAN, owed : BOOLEAN,
   at : {"wait", "read", "send", "mark"}, batch : SUBSET Row, full : BOOLEAN, last : SUBSET Row]
OutboxTyped ==
  /\ events \in [Row -> EventRows] /\ job \in {"active", "waiting", "ended"}
  /\ channel \in [Session -> ChannelRows]
  /\ delivered \in [Session -> SUBSET Row] /\ troubles \in 0..MaxTroubles

\* An owner has one webhook event at most: the key is unique.
OneHook == \A r, q \in Row :
  r[2] = "webhook" /\ q[2] = "webhook"
  /\ events[r].owner # NoOne /\ events[r].owner = events[q].owner => r = q
\* What was sent was sent to the owner, who exists.
SentIsTold ==
  \A r \in Row : events[r].sent => /\ events[r].owner # NoOne
                                   /\ r \in delivered[events[r].owner]
\* What the pump of channel c is still going to send: `unsent' are the events of its
\* session that were not sent, `told' those that were.
Awake(c) == ~c.alive \/ ~c.confirmed \/ c.wake \/ c.owed
Informed(c, unsent, told) ==
  /\ c.last \subseteq told /\ \A q, r \in c.last : q = r
  /\ \/ Awake(c)
     \/ c.at = "wait" /\ unsent = {}
     \/ c.at = "read"
     \/ c.at = "send" /\ (c.full \/ unsent \subseteq c.batch)
     \/ c.at = "mark" /\ (c.full \/ unsent \subseteq c.batch \union c.last)
PumpKnows(s) == Informed(channel[s], Unsent(s), delivered[s])
OutboxInv ==
  /\ OutboxTyped /\ IsFiniteSet(Created) /\ OneHook /\ SentIsTold
  /\ \A s \in Session : PumpKnows(s)

\* One event, if any, is added, for s and under this key.
Adds(s, key) ==
  \A r \in Row :
    /\ \/ events'[r].owner = events[r].owner
       \/ /\ r = <<s, key>> /\ events[r].owner = NoOne /\ events'[r].owner = s
          /\ \A q \in Row : events[q].owner = s => q[2] # key
    /\ events'[r].sent = events[r].sent
    /\ events[r].acked => events'[r].acked

\* Fewer events to send, or more told, wake nobody.
LEMMA InformedStays ==
  ASSUME NEW c, NEW unsent, NEW told, NEW fewer, NEW more,
         Informed(c, unsent, told), fewer \subseteq unsent, told \subseteq more
  PROVE  Informed(c, fewer, more)
BY DEF Informed

LEMMA UnsentOf ==
  ASSUME NEW s \in Session
  PROVE  Unsent(s) = {r \in Row : events[r].owner = s /\ ~events[r].acked /\ ~events[r].sent}
BY DEF Unsent, Unacked

LEMMA OweIsSet ==
  ASSUME channel \in [Session -> ChannelRows], NEW s \in Session, Owing(s)
  PROVE  /\ channel' \in [Session -> ChannelRows] /\ channel'[s].last = channel[s].last
         /\ channel'[s].owed
         /\ \A o \in Session \ {s} : channel'[o] = channel[o]
<1>1. channel[s] \in ChannelRows /\ channel' = [channel EXCEPT ![s].owed = TRUE]  BY DEF Owing
<1>2. PICK new \in ChannelRows : new = [channel[s] EXCEPT !.owed = TRUE]  BY <1>1 DEF ChannelRows
<1>3. channel' = [channel EXCEPT ![s] = new]  BY <1>1, <1>2
<1>4. new.last = channel[s].last /\ new.owed  BY <1>1, <1>2 DEF ChannelRows
<1> QED BY <1>3, <1>4

\* A producer adds its event and owes the signal, so its pump is awake.
LEMMA AddingKeeps ==
  ASSUME OutboxInv, NEW s \in Session, NEW key \in Key, Adds(s, key), Owing(s),
         events' \in [Row -> EventRows], job' \in {"active", "waiting", "ended"},
         UNCHANGED <<delivered, troubles>>
  PROVE  OutboxInv'
<1>0. /\ channel \in [Session -> ChannelRows] /\ delivered \in [Session -> SUBSET Row]
      /\ events \in [Row -> EventRows]
  BY DEF OutboxInv, OutboxTyped
<1>1. /\ channel' \in [Session -> ChannelRows] /\ channel'[s].last = channel[s].last
      /\ channel'[s].owed /\ \A o \in Session \ {s} : channel'[o] = channel[o]
  BY <1>0, OweIsSet
<1>2. OutboxTyped'  BY <1>1 DEF OutboxInv, OutboxTyped
<1>3. IsFiniteSet(Created')
  <2>1. Created' \subseteq Created \union {<<s, key>>}  BY DEF Created, Adds
  <2>2. IsFiniteSet(Created \union {<<s, key>>})  BY FS_AddElement DEF OutboxInv
  <2> QED BY <2>1, <2>2, FS_Subset
<1>4. OneHook'
  <2> SUFFICES ASSUME NEW r \in Row, NEW q \in Row, r[2] = "webhook", q[2] = "webhook",
                      events'[r].owner # NoOne, events'[r].owner = events'[q].owner
               PROVE  r = q
    BY DEF OneHook
  <2>1. CASE events'[r].owner = events[r].owner /\ events'[q].owner = events[q].owner
    BY <2>1 DEF OutboxInv, OneHook
  <2>2. CASE events'[r].owner # events[r].owner
    <3>1. r = <<s, key>> /\ events'[r].owner = s /\ \A x \in Row : events[x].owner = s => x[2] # key
      BY <2>2 DEF Adds
    <3>2. key = "webhook"  BY <3>1
    <3>3. events'[q].owner # events[q].owner  BY <3>1, <3>2
    <3> QED BY <3>1, <3>3 DEF Adds
  <2>3. CASE events'[q].owner # events[q].owner
    <3>1. q = <<s, key>> /\ events'[q].owner = s /\ \A x \in Row : events[x].owner = s => x[2] # key
      BY <2>3 DEF Adds
    <3>2. key = "webhook"  BY <3>1
    <3>3. events'[r].owner # events[r].owner  BY <3>1, <3>2
    <3> QED BY <3>1, <3>3 DEF Adds
  <2> QED BY <2>1, <2>2, <2>3
<1>5. SentIsTold'
  BY DEF OutboxInv, SentIsTold, Adds
<1>6. PumpKnows(s)'
  <2>1. Awake(channel'[s])  BY <1>1 DEF Awake
  <2> QED BY <1>1, <2>1 DEF OutboxInv, PumpKnows, Informed
<1>7. ASSUME NEW o \in Session, o # s PROVE PumpKnows(o)'
  <2>1. Unsent(o)' \subseteq Unsent(o)  BY <1>7, UnsentOf DEF Adds, Unsent, Unacked
  <2> QED BY <1>1, <1>7, <2>1, InformedStays DEF OutboxInv, PumpKnows
<1> QED BY <1>2, <1>3, <1>4, <1>5, <1>6, <1>7 DEF OutboxInv

LEMMA EnqueuedAdds ==
  ASSUME OutboxInv, NEW s \in Session, NEW key \in Key, NEW observed \in BOOLEAN,
         \/ events' = Enqueued(s, key)
         \/ events' = [Enqueued(s, key) EXCEPT ![<<s, key>>].acked = TRUE]
  PROVE  Adds(s, key) /\ events' \in [Row -> EventRows]
<1>0. events \in [Row -> EventRows] /\ <<s, key>> \in Row
  BY DEF OutboxInv, OutboxTyped, Row
<1> DEFINE q == <<s, key>>
<1>1. CASE Known(s, key) \/ q \in Created
  <2>1. Enqueued(s, key) = events  BY <1>1 DEF Enqueued
  <2>2. events' = events \/ events' = [events EXCEPT ![q].acked = TRUE]  BY <2>1
  <2>3. CASE events' = events  BY <1>0, <2>3 DEF Adds
  <2>4. CASE events' = [events EXCEPT ![q].acked = TRUE]
    <3>1. PICK new \in EventRows : new = [events[q] EXCEPT !.acked = TRUE]  BY <1>0 DEF EventRows
    <3>2. events' = [events EXCEPT ![q] = new]  BY <2>4, <3>1
    <3>3. new.owner = events[q].owner /\ new.sent = events[q].sent /\ new.acked
      BY <1>0, <3>1 DEF EventRows
    <3> QED BY <1>0, <3>2, <3>3 DEF Adds
  <2> QED BY <2>2, <2>3, <2>4
<1>2. CASE ~Known(s, key) /\ q \notin Created
  <2>1. Enqueued(s, key) = [events EXCEPT ![q].owner = s] /\ events[q].owner = NoOne
    BY <1>0, <1>2 DEF Enqueued, Created
  <2>2. \A x \in Row : events[x].owner = s => x[2] # key  BY <1>2 DEF Known
  <2>3. PICK one \in EventRows : one = [events[q] EXCEPT !.owner = s]  BY <1>0 DEF EventRows
  <2>4. PICK two \in EventRows : two = [one EXCEPT !.acked = TRUE]  BY <2>3 DEF EventRows
  <2>5. Enqueued(s, key) = [events EXCEPT ![q] = one]  BY <2>1, <2>3
  <2>6. events' = [events EXCEPT ![q] = one] \/ events' = [events EXCEPT ![q] = two]
    <3>1. [[events EXCEPT ![q] = one] EXCEPT ![q].acked = TRUE] = [events EXCEPT ![q] = two]
      BY <1>0, <2>4
    <3> QED BY <2>5, <3>1
  <2>7. one.owner = s /\ one.sent = events[q].sent /\ one.acked = events[q].acked
    BY <1>0, <2>3 DEF EventRows
  <2>8. two.owner = s /\ two.sent = events[q].sent /\ two.acked
    BY <2>4, <2>7 DEF EventRows
  <2> QED BY <1>0, <2>1, <2>2, <2>6, <2>7, <2>8 DEF Adds
<1> QED BY <1>1, <1>2

\* No event changes hands, and one that is marked as sent was sent.
OnlyMarks ==
  \A r \in Row : /\ events'[r].owner = events[r].owner
                 /\ events[r].acked => events'[r].acked
                 /\ events[r].sent => events'[r].sent
                 /\ events'[r].sent /\ ~events[r].sent =>
                      events[r].owner # NoOne /\ r \in delivered[events[r].owner]

LEMMA MarksLessUnsent ==
  ASSUME OnlyMarks, events' \in [Row -> EventRows], events \in [Row -> EventRows], NEW s \in Session
  PROVE  Unsent(s)' \subseteq Unsent(s)
<1> SUFFICES ASSUME NEW r \in Row, r \in Unsent(s)' PROVE r \in Unsent(s)
  BY DEF Unsent, Unacked
<1>1. events'[r].owner = s /\ ~events'[r].acked /\ ~events'[r].sent  BY DEF Unsent, Unacked
<1>2. events[r].owner = s /\ ~events[r].acked /\ ~events[r].sent  BY <1>1 DEF OnlyMarks
<1> QED BY <1>2 DEF Unsent, Unacked

\* A step of one session that changes no owner needs only this pump to be informed.
LEMMA PumpMoves ==
  ASSUME OutboxInv, NEW s \in Session, NEW new \in ChannelRows,
         channel' = [channel EXCEPT ![s] = new],
         events' \in [Row -> EventRows], OnlyMarks, job' \in {"active", "waiting", "ended"},
         delivered' \in [Session -> SUBSET Row],
         \A o \in Session : delivered[o] \subseteq delivered'[o],
         troubles' \in 0..MaxTroubles,
         \A unsent : unsent \subseteq Unsent(s) /\ unsent = Unsent(s)' => Informed(new, unsent, delivered'[s])
  PROVE  OutboxInv'
<1>0. /\ channel \in [Session -> ChannelRows] /\ delivered \in [Session -> SUBSET Row]
      /\ events \in [Row -> EventRows]
  BY DEF OutboxInv, OutboxTyped
<1>1. /\ channel' \in [Session -> ChannelRows] /\ channel'[s] = new
      /\ \A o \in Session \ {s} : channel'[o] = channel[o]
  BY <1>0
<1>2. OutboxTyped'  BY <1>1 DEF OutboxTyped
<1>3. IsFiniteSet(Created')
  <2>1. Created' = Created  BY DEF Created, OnlyMarks
  <2> QED BY <2>1 DEF OutboxInv
<1>4. OneHook'  BY DEF OutboxInv, OneHook, OnlyMarks
<1>5. SentIsTold'
  <2> SUFFICES ASSUME NEW r \in Row, events'[r].sent
               PROVE  events'[r].owner # NoOne /\ r \in delivered'[events'[r].owner]
    BY DEF SentIsTold
  <2>1. events[r].owner # NoOne /\ r \in delivered[events[r].owner] /\ events'[r].owner = events[r].owner
    BY DEF OutboxInv, SentIsTold, OnlyMarks
  <2>2. events[r].owner \in Session  BY <1>0, <2>1 DEF EventRows
  <2> QED BY <2>1, <2>2
<1>6. PumpKnows(s)'
  <2>1. Unsent(s)' \subseteq Unsent(s)  BY <1>0, MarksLessUnsent
  <2> QED BY <1>1, <2>1 DEF PumpKnows
<1>7. ASSUME NEW o \in Session, o # s PROVE PumpKnows(o)'
  <2>1. Unsent(o)' \subseteq Unsent(o)  BY <1>0, MarksLessUnsent
  <2> QED BY <1>1, <1>7, <2>1, InformedStays DEF OutboxInv, PumpKnows
<1> QED BY <1>2, <1>3, <1>4, <1>5, <1>6, <1>7 DEF OutboxInv

LEMMA OutboxFacts ==
  ASSUME OutboxInv
  PROVE  /\ channel \in [Session -> ChannelRows] /\ delivered \in [Session -> SUBSET Row]
         /\ events \in [Row -> EventRows] /\ job \in {"active", "waiting", "ended"}
         /\ troubles \in 0..MaxTroubles
         /\ \A s \in Session : Informed(channel[s], Unsent(s), delivered[s])
BY DEF OutboxInv, OutboxTyped, PumpKnows

LEMMA ChannelIs ==
  ASSUME OutboxInv, NEW s \in Session PROVE channel[s] \in ChannelRows
BY OutboxFacts

LEMMA SignalKeeps ==
  ASSUME OutboxInv, NEW s \in Session, Signal(s) PROVE OutboxInv'
<1>1. PICK new \in ChannelRows : new = [channel[s] EXCEPT !.owed = FALSE, !.wake = TRUE]
  BY ChannelIs DEF ChannelRows
<1>2. channel' = [channel EXCEPT ![s] = new]  BY <1>1, OutboxFacts DEF Signal
<1>3. new.wake /\ new.last = channel[s].last  BY <1>1, ChannelIs DEF ChannelRows
<1>4. channel[s].last \subseteq delivered[s] /\ \A q, r \in channel[s].last : q = r  BY OutboxFacts DEF Informed
<1>5. \A unsent : Informed(new, unsent, delivered'[s])
  BY <1>3, <1>4 DEF Informed, Awake, Signal
<1> QED BY <1>2, <1>5, OutboxFacts, PumpMoves DEF Signal, OnlyMarks

LEMMA ConfirmKeeps ==
  ASSUME OutboxInv, NEW s \in Session, Confirm(s) PROVE OutboxInv'
<1>1. PICK new \in ChannelRows : new = [channel[s] EXCEPT !.confirmed = TRUE, !.owed = TRUE]
  BY ChannelIs DEF ChannelRows
<1>2. channel' = [channel EXCEPT ![s] = new]  BY <1>1, OutboxFacts DEF Confirm
<1>3. new.owed /\ new.last = channel[s].last  BY <1>1, ChannelIs DEF ChannelRows
<1>4. channel[s].last \subseteq delivered[s] /\ \A q, r \in channel[s].last : q = r  BY OutboxFacts DEF Informed
<1>5. \A unsent : Informed(new, unsent, delivered'[s])
  BY <1>3, <1>4 DEF Informed, Awake, Confirm
<1> QED BY <1>2, <1>5, OutboxFacts, PumpMoves DEF Confirm, OnlyMarks

LEMMA LeaveKeeps ==
  ASSUME OutboxInv, NEW s \in Session, LeaveSession(s) PROVE OutboxInv'
<1>1. PICK new \in ChannelRows :
        new = [channel[s] EXCEPT !.alive = FALSE, !.confirmed = FALSE,
                   !.wake = FALSE, !.owed = FALSE, !.at = "wait", !.batch = {}, !.full = FALSE,
                   !.last = {}]
  BY ChannelIs DEF ChannelRows
<1>2. channel' = [channel EXCEPT ![s] = new]  BY <1>1, OutboxFacts DEF LeaveSession
<1>3. ~new.alive /\ new.last = {}  BY <1>1, ChannelIs DEF ChannelRows
<1>5. \A unsent : Informed(new, unsent, delivered'[s])
  BY <1>3 DEF Informed, Awake, LeaveSession
<1> QED BY <1>2, <1>5, OutboxFacts, PumpMoves DEF LeaveSession, OnlyMarks

LEMMA WakeKeeps ==
  ASSUME OutboxInv, NEW s \in Session, Wake(s) PROVE OutboxInv'
<1>0. PICK at \in {"read", "wait"} : at = IF channel[s].confirmed THEN "read" ELSE "wait"
  OBVIOUS
<1>1. PICK new \in ChannelRows : new = [channel[s] EXCEPT !.wake = FALSE, !.at = at]
  BY ChannelIs DEF ChannelRows
<1>2. channel' = [channel EXCEPT ![s] = new]  BY <1>0, <1>1, OutboxFacts DEF Wake
<1>3. new.at = at /\ new.last = channel[s].last /\ new.confirmed = channel[s].confirmed
  BY <1>1, ChannelIs DEF ChannelRows
<1>4. channel[s].last \subseteq delivered[s] /\ \A q, r \in channel[s].last : q = r  BY OutboxFacts DEF Informed
<1>5. new.at = "read" \/ ~new.confirmed  BY <1>0, <1>3
<1>6. \A unsent : Informed(new, unsent, delivered'[s])
  BY <1>3, <1>4, <1>5 DEF Informed, Awake, Wake
<1> QED BY <1>2, <1>6, OutboxFacts, PumpMoves DEF Wake, Pump, OnlyMarks

LEMMA FailKeeps ==
  ASSUME OutboxInv, NEW s \in Session, Fail, channel' = Unconfirmed(s) \/ channel' = [Unconfirmed(s) EXCEPT ![s].last = {}],
         UNCHANGED <<events, job, delivered>>
  PROVE  OutboxInv'
<1>0. channel[s] \in ChannelRows  BY OutboxFacts
<1>1. PICK one \in ChannelRows : one = [channel[s] EXCEPT !.confirmed = FALSE, !.at = "wait", !.batch = {}]
  BY <1>0 DEF ChannelRows
<1>2. PICK two \in ChannelRows : two = [one EXCEPT !.last = {}]  BY <1>1 DEF ChannelRows
<1>3. Unconfirmed(s) = [channel EXCEPT ![s] = one]  BY <1>1, OutboxFacts DEF Unconfirmed
<1>4. [Unconfirmed(s) EXCEPT ![s].last = {}] = [channel EXCEPT ![s] = two]
  BY <1>2, <1>3, OutboxFacts
<1>5. ~one.confirmed /\ one.last = channel[s].last  BY <1>1, ChannelIs DEF ChannelRows
<1>6. ~two.confirmed /\ two.last = {}  BY <1>2, <1>5 DEF ChannelRows
<1>7. channel[s].last \subseteq delivered[s] /\ \A q, r \in channel[s].last : q = r  BY OutboxFacts DEF Informed
<1>8. \A unsent : Informed(one, unsent, delivered'[s]) /\ Informed(two, unsent, delivered'[s])
  BY <1>5, <1>6, <1>7 DEF Informed, Awake
<1>9. troubles' \in 0..MaxTroubles  BY OutboxFacts, OutboxBounds DEF Fail
<1>10. OnlyMarks  BY DEF OnlyMarks
<1>11. CASE channel' = Unconfirmed(s)  BY <1>3, <1>8, <1>9, <1>10, <1>11, OutboxFacts, PumpMoves
<1>12. CASE channel' = [Unconfirmed(s) EXCEPT ![s].last = {}]
  BY <1>4, <1>8, <1>9, <1>10, <1>12, OutboxFacts, PumpMoves
<1> QED BY <1>11, <1>12

LEMMA ReadKeeps ==
  ASSUME OutboxInv, NEW s \in Session, ReadBatch(s) PROVE OutboxInv'
<1>1. CASE Fail /\ channel' = Unconfirmed(s)
  BY <1>1, FailKeeps DEF ReadBatch, Pump
<1>2. CASE ~(Fail /\ channel' = Unconfirmed(s))
  <2>1. PICK batch \in SUBSET Unsent(s) :
          /\ batch = Unsent(s) \/ Cardinality(batch) = BatchLimit
          /\ channel' = [channel EXCEPT ![s].at = "send", ![s].batch = batch,
                           ![s].full = Cardinality(batch) = BatchLimit]
    BY <1>2 DEF ReadBatch
  <2>2. UNCHANGED <<events, job, delivered, troubles>>  BY <1>2 DEF ReadBatch, Pump
  <2>5. batch \in SUBSET Row  BY <2>1 DEF Unsent, Unacked
  <2>6. PICK full \in BOOLEAN : full = (Cardinality(batch) = BatchLimit)  OBVIOUS
  <2>7. PICK new \in ChannelRows : new = [channel[s] EXCEPT !.at = "send", !.batch = batch, !.full = full]
    BY <2>5, ChannelIs DEF ChannelRows
  <2>8. channel' = [channel EXCEPT ![s] = new]  BY <2>1, <2>6, <2>7, OutboxFacts
  <2>9. new.at = "send" /\ new.batch = batch /\ new.full = full /\ new.last = channel[s].last
    BY <2>7, ChannelIs DEF ChannelRows
  <2>10. channel[s].last \subseteq delivered[s] /\ \A q, r \in channel[s].last : q = r  BY OutboxFacts DEF Informed
  <2>11. new.full \/ Unsent(s) \subseteq new.batch  BY <2>1, <2>6, <2>9
  <2>12. ASSUME NEW unsent, unsent \subseteq Unsent(s) PROVE Informed(new, unsent, delivered[s])
    BY <2>9, <2>10, <2>11, <2>12 DEF Informed
  <2>13. OnlyMarks  BY <2>2 DEF OnlyMarks
  <2> QED BY <2>2, <2>8, <2>12, <2>13, OutboxFacts, PumpMoves
<1> QED BY <1>1, <1>2

LEMMA SendKeeps ==
  ASSUME OutboxInv, NEW s \in Session, NEW r \in Row, SendEvent(s, r) PROVE OutboxInv'
<1>1. CASE Fail /\ channel' = Unconfirmed(s) /\ UNCHANGED delivered
  BY <1>1, FailKeeps DEF SendEvent, Pump
<1>2. CASE ~(Fail /\ channel' = Unconfirmed(s) /\ UNCHANGED delivered)
  <2>1. /\ channel' = [channel EXCEPT ![s].at = "mark", ![s].batch = @ \ {r}, ![s].last = {r}]
        /\ delivered' = [delivered EXCEPT ![s] = @ \union {r}]
        /\ UNCHANGED <<events, job, troubles>> /\ channel[s].at = "send" /\ r \in channel[s].batch
    BY <1>2 DEF SendEvent, Pump
  <2>2. PICK new \in ChannelRows :
          new = [channel[s] EXCEPT !.at = "mark", !.batch = channel[s].batch \ {r}, !.last = {r}]
    BY ChannelIs DEF ChannelRows
  <2>3. channel' = [channel EXCEPT ![s] = new]  BY <2>1, <2>2, OutboxFacts
  <2>4. /\ new.at = "mark" /\ new.batch = channel[s].batch \ {r} /\ new.last = {r}
        /\ new.full = channel[s].full /\ new.alive = channel[s].alive /\ new.wake = channel[s].wake
        /\ new.confirmed = channel[s].confirmed /\ new.owed = channel[s].owed
    BY <2>2, ChannelIs DEF ChannelRows
  <2>5. delivered' \in [Session -> SUBSET Row] /\ delivered'[s] = delivered[s] \union {r}
        /\ \A o \in Session : delivered[o] \subseteq delivered'[o]
    BY <2>1, OutboxFacts
  <2>6. Informed(channel[s], Unsent(s), delivered[s])  BY OutboxFacts
  <2>7. ASSUME NEW unsent, unsent \subseteq Unsent(s) PROVE Informed(new, unsent, delivered'[s])
    BY <2>1, <2>4, <2>5, <2>6, <2>7 DEF Informed, Awake
  <2>8. OnlyMarks  BY <2>1 DEF OnlyMarks
  <2> QED BY <2>1, <2>3, <2>5, <2>7, <2>8, OutboxFacts, PumpMoves
<1> QED BY <1>1, <1>2

LEMMA MarkKeeps ==
  ASSUME OutboxInv, NEW s \in Session, Mark(s) PROVE OutboxInv'
<1>1. CASE Fail /\ UNCHANGED events /\ channel' = [Unconfirmed(s) EXCEPT ![s].last = {}]
  BY <1>1, FailKeeps DEF Mark, Pump
<1>2. CASE ~(Fail /\ UNCHANGED events /\ channel' = [Unconfirmed(s) EXCEPT ![s].last = {}])
  <2>1. PICK r \in channel[s].last : events' = Marked(s, r)  BY <1>2 DEF Mark
  <2>2. /\ channel' = [channel EXCEPT ![s].at = "send", ![s].last = {}]
        /\ UNCHANGED <<delivered, job, troubles>> /\ channel[s].at = "mark"
    BY <1>2 DEF Mark, Pump
  <2>3. PICK new \in ChannelRows : new = [channel[s] EXCEPT !.at = "send", !.last = {}]
    BY ChannelIs DEF ChannelRows
  <2>4. channel' = [channel EXCEPT ![s] = new]  BY <2>2, <2>3, OutboxFacts
  <2>5. /\ new.at = "send" /\ new.batch = channel[s].batch /\ new.last = {}
        /\ new.full = channel[s].full /\ new.alive = channel[s].alive /\ new.wake = channel[s].wake
        /\ new.confirmed = channel[s].confirmed /\ new.owed = channel[s].owed
    BY <2>3, ChannelIs DEF ChannelRows
  <2>6. Informed(channel[s], Unsent(s), delivered[s])  BY OutboxFacts
  <2>7. r \in delivered[s] /\ r \in Row  BY <2>6, OutboxFacts DEF Informed, ChannelRows
  <2>8. PICK row \in EventRows : row = [events[r] EXCEPT !.sent = TRUE]  BY <2>7, OutboxFacts DEF EventRows
  <2>9. row.sent /\ row.owner = events[r].owner /\ row.acked = events[r].acked
    BY <2>7, <2>8, OutboxFacts DEF EventRows
  <2>10. \/ events[r].owner = s /\ events' = [events EXCEPT ![r] = row]
         \/ events[r].owner # s /\ events' = events
    BY <2>1, <2>7, <2>8, OutboxFacts DEF Marked
  <2>11. OnlyMarks /\ events' \in [Row -> EventRows]
    BY <2>7, <2>9, <2>10, OutboxFacts, OutboxBounds DEF OnlyMarks
  <2>12. ASSUME NEW unsent, unsent \subseteq Unsent(s), unsent = Unsent(s)'
         PROVE  Informed(new, unsent, delivered'[s])
    <3>1. unsent \subseteq Unsent(s) \ channel[s].last
      <4>1. \A q \in channel[s].last : q = r  BY <2>1, <2>6 DEF Informed
      <4>2. r \notin Unsent(s)'
        BY <2>7, <2>8, <2>9, <2>10, OutboxFacts DEF Unsent, Unacked
      <4> QED BY <2>12, <4>1, <4>2
    <3> QED BY <2>2, <2>5, <2>6, <2>12, <3>1 DEF Informed, Awake
  <2> QED BY <2>2, <2>4, <2>11, <2>12, OutboxFacts, PumpMoves
<1> QED BY <1>1, <1>2

LEMMA EndBatchKeeps ==
  ASSUME OutboxInv, NEW s \in Session, EndBatch(s) PROVE OutboxInv'
<1>0. channel[s].at = "send" /\ channel[s].batch = {} /\ channel' = Rest(s)
      /\ UNCHANGED <<events, job, delivered, troubles>>
  BY DEF EndBatch, Pump
<1>1. PICK wake \in BOOLEAN : wake = (channel[s].wake \/ (channel[s].full /\ channel[s].confirmed))
  OBVIOUS
<1>2. PICK new \in ChannelRows : new = [channel[s] EXCEPT !.at = "wait", !.full = FALSE, !.wake = wake]
  BY ChannelIs DEF ChannelRows
<1>3. channel' = [channel EXCEPT ![s] = new]  BY <1>0, <1>1, <1>2, OutboxFacts DEF Rest
<1>4. /\ new.at = "wait" /\ new.wake = wake /\ new.last = channel[s].last
      /\ new.alive = channel[s].alive /\ new.confirmed = channel[s].confirmed
      /\ new.owed = channel[s].owed
  BY <1>2, ChannelIs DEF ChannelRows
<1>5. Informed(channel[s], Unsent(s), delivered[s])  BY OutboxFacts
<1>6. ASSUME NEW unsent, unsent \subseteq Unsent(s) PROVE Informed(new, unsent, delivered'[s])
  BY <1>0, <1>1, <1>4, <1>5, <1>6 DEF Informed, Awake
<1>7. OnlyMarks  BY <1>0 DEF OnlyMarks
<1> QED BY <1>0, <1>3, <1>6, <1>7, OutboxFacts, PumpMoves

LEMMA AcknowledgeKeeps ==
  ASSUME OutboxInv, NEW s \in Session, NEW r \in Row, Acknowledge(s, r) PROVE OutboxInv'
<1>1. PICK row \in EventRows : row = [events[r] EXCEPT !.acked = TRUE]  BY OutboxFacts DEF EventRows
<1>2. row.acked /\ row.owner = events[r].owner /\ row.sent = events[r].sent
  BY <1>1, OutboxFacts DEF EventRows
<1>3. events' = [events EXCEPT ![r] = row]  BY <1>1, OutboxFacts DEF Acknowledge
<1>4. OnlyMarks /\ events' \in [Row -> EventRows]  BY <1>2, <1>3, OutboxFacts DEF OnlyMarks
<1>5. channel[s] \in ChannelRows /\ channel' = [channel EXCEPT ![s] = channel[s]]
  BY OutboxFacts DEF Acknowledge
<1>6. ASSUME NEW unsent, unsent \subseteq Unsent(s) PROVE Informed(channel[s], unsent, delivered'[s])
  BY <1>6, OutboxFacts, InformedStays DEF Acknowledge
<1> QED BY <1>4, <1>5, <1>6, OutboxFacts, PumpMoves DEF Acknowledge

LEMMA SeeKeeps ==
  ASSUME OutboxInv, NEW s \in Session, SeeEvents(s) PROVE OutboxInv'
<1> DEFINE key == IF job = "ended" THEN "ended" ELSE "question"
<1>1. events' = [r \in Row |-> IF r \in Unacked(s) /\ r[2] = key
                               THEN [events[r] EXCEPT !.acked = TRUE] ELSE events[r]]
  BY DEF SeeEvents
<1>2. ASSUME NEW r \in Row
      PROVE  /\ events'[r] \in EventRows /\ events'[r].owner = events[r].owner
             /\ events'[r].sent = events[r].sent
             /\ events[r].acked => events'[r].acked
  <2>1. PICK row \in EventRows : row = [events[r] EXCEPT !.acked = TRUE]  BY OutboxFacts DEF EventRows
  <2>2. row.acked /\ row.owner = events[r].owner /\ row.sent = events[r].sent
    BY <2>1, OutboxFacts DEF EventRows
  <2>3. events'[r] = row \/ events'[r] = events[r]  BY <1>1, <2>1
  <2> QED BY <2>2, <2>3, OutboxFacts
<1>3. events' \in [Row -> EventRows]
  <2>1. events' = [r \in Row |-> events'[r]]  BY <1>1
  <2> QED BY <1>2, <2>1
<1>4. OnlyMarks  BY <1>2 DEF OnlyMarks
<1>5. channel[s] \in ChannelRows /\ channel' = [channel EXCEPT ![s] = channel[s]]
  BY OutboxFacts DEF SeeEvents
<1>6. ASSUME NEW unsent, unsent \subseteq Unsent(s) PROVE Informed(channel[s], unsent, delivered'[s])
  BY <1>6, OutboxFacts, InformedStays DEF SeeEvents
<1> QED BY <1>3, <1>4, <1>5, <1>6, OutboxFacts, PumpMoves DEF SeeEvents

\* Every producer adds an event under a key of its own.
LEMMA ProducersKeep ==
  ASSUME OutboxInv,
         \/ AskClient \/ RecordDesktop \/ \E s \in Session : EndJob(s) \/ Publish(s)
  PROVE  OutboxInv'
<1>0. job \in {"active", "waiting", "ended"} /\ Runner \in Session  BY OutboxFacts, OutboxBounds
<1>1. CASE AskClient
  <2>1. "question" \in Key  BY DEF Key
  <2>2. Adds(Runner, "question") /\ events' \in [Row -> EventRows]
    BY <1>0, <1>1, <2>1, EnqueuedAdds DEF AskClient
  <2> QED BY <1>0, <1>1, <2>1, <2>2, AddingKeeps DEF AskClient
<1>2. CASE RecordDesktop
  <2>1. "desktop" \in Key  BY DEF Key
  <2>2. \/ events' = Enqueued(Runner, "desktop")
        \/ events' = [Enqueued(Runner, "desktop") EXCEPT ![<<Runner, "desktop">>].acked = TRUE]
    BY <1>2 DEF RecordDesktop
  <2>3. Adds(Runner, "desktop") /\ events' \in [Row -> EventRows]
    BY <1>0, <2>1, <2>2, EnqueuedAdds
  <2> QED BY <1>0, <1>2, <2>1, <2>3, AddingKeeps DEF RecordDesktop
<1>3. ASSUME NEW s \in Session, EndJob(s) PROVE OutboxInv'
  <2>1. "ended" \in Key  BY DEF Key
  <2>2. Adds(s, "ended") /\ events' \in [Row -> EventRows]
    BY <1>3, <2>1, EnqueuedAdds DEF EndJob
  <2> QED BY <1>3, <2>1, <2>2, AddingKeeps DEF EndJob
<1>4. ASSUME NEW s \in Session, Publish(s) PROVE OutboxInv'
  <2>1. "webhook" \in Key  BY DEF Key
  <2>2. Adds(s, "webhook") /\ events' \in [Row -> EventRows]
    BY <1>4, <2>1, EnqueuedAdds DEF Publish
  <2> QED BY <1>0, <1>4, <2>1, <2>2, AddingKeeps DEF Publish
<1> QED BY <1>1, <1>2, <1>3, <1>4

\* Adopted events are to be sent again, by a pump that is woken.
LEMMA AdoptingKeeps ==
  ASSUME OutboxInv, NEW s \in Session, NEW rows \in SUBSET Created,
         \A r, q \in rows : r[2] = "webhook" /\ q[2] = "webhook" => r = q,
         MayAdopt(s, rows), Adopted(s, rows)
  PROVE  OutboxInv'
<1>1. /\ channel' \in [Session -> ChannelRows] /\ channel'[s].last = channel[s].last
      /\ channel'[s].owed /\ \A o \in Session \ {s} : channel'[o] = channel[o]
  BY OutboxFacts, OweIsSet DEF Adopted
<1>2. ASSUME NEW r \in Row
      PROVE  /\ events'[r] \in EventRows
             /\ r \in rows => events'[r].owner = s /\ ~events'[r].sent
             /\ r \notin rows => events'[r] = events[r]
  <2>1. PICK row \in EventRows : row = [events[r] EXCEPT !.owner = s, !.sent = FALSE]
    BY OutboxFacts DEF EventRows
  <2>2. row.owner = s /\ ~row.sent  BY <2>1, OutboxFacts DEF EventRows
  <2>3. events'[r] = IF r \in rows THEN row ELSE events[r]  BY <2>1 DEF Adopted
  <2> QED BY <2>2, <2>3, OutboxFacts
<1>3. events' \in [Row -> EventRows]
  <2>1. events' = [r \in Row |-> events'[r]]  BY DEF Adopted
  <2> QED BY <1>2, <2>1
<1>4. UNCHANGED <<job, delivered>> /\ troubles' \in 0..MaxTroubles
  <2>1. UNCHANGED <<job, delivered>> /\ Fail  BY DEF Adopted, Fail
  <2> QED BY <2>1, OutboxFacts, OutboxBounds DEF Fail
<1>5. OutboxTyped'  BY <1>1, <1>3, <1>4, OutboxFacts DEF OutboxTyped
<1>6. IsFiniteSet(Created')
  <2>1. Created' \subseteq Created  BY <1>2 DEF Created
  <2> QED BY <2>1, FS_Subset DEF OutboxInv
<1>7. OneHook'
  <2> SUFFICES ASSUME NEW r \in Row, NEW q \in Row, r[2] = "webhook", q[2] = "webhook",
                      events'[r].owner # NoOne, events'[r].owner = events'[q].owner
               PROVE  r = q
    BY DEF OneHook
  <2>1. CASE r \in rows /\ q \in rows  BY <2>1
  <2>2. CASE r \in rows /\ q \notin rows  BY <1>2, <2>2 DEF MayAdopt
  <2>3. CASE r \notin rows /\ q \in rows  BY <1>2, <2>3 DEF MayAdopt
  <2>4. CASE r \notin rows /\ q \notin rows  BY <1>2, <2>4 DEF OutboxInv, OneHook
  <2> QED BY <2>1, <2>2, <2>3, <2>4
<1>8. SentIsTold'
  <2> SUFFICES ASSUME NEW r \in Row, events'[r].sent
               PROVE  events'[r].owner # NoOne /\ r \in delivered'[events'[r].owner]
    BY DEF SentIsTold
  <2>1. events'[r] = events[r]  BY <1>2
  <2> QED BY <1>4, <2>1 DEF OutboxInv, SentIsTold
<1>9. PumpKnows(s)'
  <2>1. Informed(channel[s], Unsent(s), delivered[s])  BY OutboxFacts
  <2> QED BY <1>1, <1>4, <2>1 DEF PumpKnows, Informed, Awake
<1>10. ASSUME NEW o \in Session, o # s PROVE PumpKnows(o)'
  <2>1. Unsent(o)' \subseteq Unsent(o)  BY <1>2, <1>10 DEF Unsent, Unacked
  <2>2. Informed(channel[o], Unsent(o), delivered[o])  BY OutboxFacts
  <2>3. channel'[o] = channel[o] /\ delivered'[o] = delivered[o]  BY <1>1, <1>4, <1>10
  <2> QED BY <2>1, <2>2, <2>3, InformedStays DEF PumpKnows
<1> QED BY <1>5, <1>6, <1>7, <1>8, <1>9, <1>10 DEF OutboxInv

LEMMA AdoptKeeps ==
  ASSUME OutboxInv, NEW s \in Session, Adopt(s) PROVE OutboxInv'
<1> DEFINE rows == {r \in Created : r[2] \in OfTask /\ ~events[r].acked}
<1>1. MayAdopt(s, rows) /\ Adopted(s, rows)  BY DEF Adopt
<1>2. \A r \in rows : r[2] # "webhook"  BY DEF OfTask
<1>3. rows \in SUBSET Created  OBVIOUS
<1> HIDE DEF rows
<1> QED BY <1>1, <1>2, <1>3, AdoptingKeeps

LEMMA AdoptEventKeeps ==
  ASSUME OutboxInv, NEW s \in Session, NEW r \in Row, AdoptEvent(s, r) PROVE OutboxInv'
<1>1. {r} \in SUBSET Created /\ MayAdopt(s, {r}) /\ Adopted(s, {r})  BY DEF AdoptEvent
<1> QED BY <1>1, AdoptingKeeps

LEMMA OutboxStarts == OutboxInit => OutboxInv
<1> SUFFICES ASSUME OutboxInit PROVE OutboxInv  OBVIOUS
<1>1. OutboxTyped  BY OutboxBounds DEF OutboxInit, OutboxTyped, EventRows, ChannelRows
<1>2. IsFiniteSet(Created)
  <2>1. Created = {}  BY DEF OutboxInit, Created
  <2> QED BY <2>1, FS_EmptySet
<1>3. OneHook /\ SentIsTold  BY DEF OutboxInit, OneHook, SentIsTold
<1>4. \A s \in Session : PumpKnows(s)
  BY DEF OutboxInit, PumpKnows, Informed, Awake
<1> QED BY <1>1, <1>2, <1>3, <1>4 DEF OutboxInv

LEMMA OutboxStep == OutboxInv /\ [OutboxNext]_outboxVars => OutboxInv'
<1> SUFFICES ASSUME OutboxInv, [OutboxNext]_outboxVars PROVE OutboxInv'  OBVIOUS
<1>1. CASE UNCHANGED outboxVars
  BY <1>1 DEF outboxVars, OutboxInv, OutboxTyped, OneHook, SentIsTold, PumpKnows, Created,
              Unsent, Unacked
<1>2. ASSUME NEW s \in Session,
             \/ EndJob(s) \/ Signal(s) \/ Wake(s) \/ ReadBatch(s)
             \/ Mark(s) \/ EndBatch(s) \/ Confirm(s) \/ SeeEvents(s) \/ Adopt(s) \/ LeaveSession(s)
             \/ Publish(s)
      PROVE  OutboxInv'
  BY <1>2, ProducersKeep, SignalKeeps, WakeKeeps, ReadKeeps, MarkKeeps, EndBatchKeeps,
     ConfirmKeeps, SeeKeeps, AdoptKeeps, LeaveKeeps
<1>3. ASSUME NEW s \in Session, NEW r \in Row,
             SendEvent(s, r) \/ Acknowledge(s, r) \/ AdoptEvent(s, r)
      PROVE  OutboxInv'
  BY <1>3, SendKeeps, AcknowledgeKeeps, AdoptEventKeeps
<1> QED BY <1>1, <1>2, <1>3, ProducersKeep DEF OutboxNext

LEMMA OutboxKeepsItsWord == OutboxInv => EventsReachTheirOwner
<1> SUFFICES ASSUME OutboxInv PROVE EventsReachTheirOwner  OBVIOUS
<1>1. OutboxTypeOK  BY DEF OutboxInv, OutboxTyped, OutboxTypeOK, EventRows, ChannelRows
<1>2. ASSUME NEW s \in Session, Sleeps(s) PROVE Unsent(s) = {}
  <2>1. Informed(channel[s], Unsent(s), delivered[s])  BY OutboxFacts
  <2> QED BY <1>2, <2>1 DEF Informed, Sleeps, Attends, Awake
<1>3. ASSUME NEW s \in Session PROVE Cardinality(Hooks(s)) <= MaxPending
  <2>1. \A r, q \in Hooks(s) : r = q
    BY OutboxBounds DEF Hooks, Unacked, OutboxInv, OneHook
  <2>2. CASE Hooks(s) = {}  BY <2>2, FS_EmptySet, OutboxBounds
  <2>3. CASE Hooks(s) # {}
    <3>1. PICK r : r \in Hooks(s)  BY <2>3
    <3>2. Hooks(s) = {r}  BY <2>1, <3>1
    <3>3. Cardinality({r}) = 1  BY FS_Singleton
    <3> QED BY <3>2, <3>3, OutboxBounds
  <2> QED BY <2>2, <2>3
<1>4. \A r \in Created : events[r].sent => r \in delivered[events[r].owner]
  BY DEF OutboxInv, SentIsTold, Created
<1> QED BY <1>1, <1>2, <1>3, <1>4 DEF EventsReachTheirOwner

\* No pump sleeps over an event of its session, what is marked as sent was sent to its
\* owner, and no owner has more webhook events than it may.
THEOREM EventsArrive == OutboxSpec => []EventsReachTheirOwner
BY OutboxStarts, OutboxStep, OutboxKeepsItsWord, PTL DEF OutboxSpec

-----------------------------------------------------------------------------
(* WorkApplication.  One operator at a time is past the checks of an       *)
(* apply, and the checkout moves under it only when someone works there.   *)

\* The checkout and the commands of the operators.
Checkouts ==
  [head : History, edited : BOOLEAN, ignored : BOOLEAN, lost : BOOLEAN, moves : Nat]
Commands == [at : {"idle", "apply", "merge", "receipt", "assessment"},
             expected : History, observed : History, raced : BOOLEAN]
Entries == [kind : {"apply_receipt"}, expected : History] \union
           [kind : {"git_assessment"}, observed : History, relation : Relations]
Forwards == [from : History, expected : History, raced : BOOLEAN]
ApplicationTyped ==
  /\ project \in Checkouts /\ terminal \in [Operator -> Commands]
  /\ application \subseteq Entries /\ forward \subseteq Forwards

\* Whoever is about to merge is alone, and found the checkout as it is, unless someone
\* works in it; past the checks the result adds to what the operator named.
MergesAlone ==
  /\ \A o, p \in Operator : terminal[o].at = "merge" /\ terminal[p].at = "merge" => o = p
  /\ \A o \in Operator :
       /\ terminal[o].at \in {"merge", "receipt"} => Ancestor(terminal[o].expected, Result)
       /\ terminal[o].at = "merge" /\ ~terminal[o].raced =>
            project.head = terminal[o].expected
ForwardIsTrue(f) == /\ Ancestor(f.from, Result) /\ f.from # Result
                    /\ ~f.raced => f.from = f.expected
EntryIsTrue(r) ==
  /\ r.kind = "apply_receipt" => Ancestor(r.expected, Result)
  /\ r.kind = "git_assessment" =>
       (r.relation \in {"equal", "ancestor"} <=> Ancestor(Result, r.observed))
ApplicationIsSound ==
  /\ ApplicationTyped /\ MergesAlone /\ ~project.lost
  /\ \A f \in forward : ForwardIsTrue(f)
  /\ \A r \in application : EntryIsTrue(r)

LEMMA CommandRows ==
  ASSUME ApplicationTyped, NEW o \in Operator
  PROVE  /\ terminal[o] \in Commands
         /\ \A at \in {"idle", "apply", "merge", "receipt", "assessment"} :
              [terminal[o] EXCEPT !.at = at] \in Commands
BY DEF ApplicationTyped, Commands

\* A command that goes on, or ends, without a merge about to be made.
LEMMA CommandMoves ==
  ASSUME ApplicationIsSound, NEW o \in Operator, NEW new \in Commands,
         terminal' = [terminal EXCEPT ![o] = new], project' \in Checkouts,
         new.at = "receipt" => Ancestor(new.expected, Result),
         new.at # "merge",
         project' = project \/ terminal[o].at = "merge", ~project'.lost
  PROVE  MergesAlone' /\ terminal' \in [Operator -> Commands]
<1>1. terminal \in [Operator -> Commands]  BY DEF ApplicationIsSound, ApplicationTyped
<1>2. terminal' \in [Operator -> Commands] /\ terminal'[o] = new
      /\ \A p \in Operator \ {o} : terminal'[p] = terminal[p]
  BY <1>1
<1>3. \A p \in Operator \ {o} : terminal[p].at = "merge" => project' = project
  BY DEF ApplicationIsSound, MergesAlone
<1> QED BY <1>2, <1>3 DEF ApplicationIsSound, MergesAlone

LEMMA NoCommandIs == NoCommand \in Commands /\ NoCommand.at = "idle"
BY HistoryAssumption DEF NoCommand, Commands

LEMMA ApplicationStep ==
  ASSUME ApplicationIsSound, [ApplicationNext]_applicationVars
  PROVE  ApplicationIsSound'
<1>0. /\ project \in Checkouts /\ terminal \in [Operator -> Commands]
      /\ application \subseteq Entries /\ forward \subseteq Forwards /\ Result \in History
      /\ MergesAlone /\ ~project.lost
      /\ \A f \in forward : ForwardIsTrue(f)
      /\ \A r \in application : EntryIsTrue(r)
  BY HistoryAssumption DEF ApplicationIsSound, ApplicationTyped
<1>1. ASSUME NEW o \in Operator, Ends(o), UNCHANGED <<project, application, forward>>
      PROVE  ApplicationIsSound'
  <2>1. MergesAlone' /\ terminal' \in [Operator -> Commands]
    BY <1>0, <1>1, NoCommandIs, CommandMoves DEF Ends
  <2> QED BY <1>0, <1>1, <2>1 DEF ApplicationIsSound, ApplicationTyped
<1>2. ASSUME NEW o \in Operator, BeginApply(o) PROVE ApplicationIsSound'
  <2>1. PICK expected \in History :
          terminal' = [terminal EXCEPT ![o].at = "apply", ![o].expected = expected]
    BY <1>2 DEF BeginApply
  <2>2. PICK new \in Commands : new = [terminal[o] EXCEPT !.at = "apply", !.expected = expected]
    BY <1>0 DEF Commands
  <2>3. terminal' = [terminal EXCEPT ![o] = new] /\ new.at = "apply"
    BY <1>0, <2>1, <2>2 DEF Commands
  <2>4. UNCHANGED <<project, application, forward>>  BY <1>2 DEF BeginApply
  <2>5. MergesAlone' /\ terminal' \in [Operator -> Commands]
    BY <1>0, <2>3, <2>4, CommandMoves
  <2> QED BY <1>0, <2>4, <2>5 DEF ApplicationIsSound, ApplicationTyped
<1>3. ASSUME NEW o \in Operator, CheckProject(o) PROVE ApplicationIsSound'
  <2>1. UNCHANGED <<project, application, forward>>  BY <1>3 DEF CheckProject
  <2>2. CASE Ends(o)  BY <1>1, <2>1, <2>2
  <2>3. CASE ~Ends(o)
    <3>1. /\ Applicable(terminal[o].expected)
          /\ terminal' = [terminal EXCEPT ![o].at = "merge"]
          /\ \A p \in Operator : terminal[p].at # "merge"
      BY <1>3, <2>3 DEF CheckProject
    <3>2. PICK new \in Commands : new = [terminal[o] EXCEPT !.at = "merge"]
      BY <1>0 DEF Commands
    <3>3. /\ terminal'[o] = new /\ new.expected = terminal[o].expected
          /\ terminal' \in [Operator -> Commands]
          /\ \A p \in Operator \ {o} : terminal'[p] = terminal[p]
      BY <1>0, <3>1, <3>2 DEF Commands
    <3>4. MergesAlone'
      BY <1>0, <2>1, <3>1, <3>3 DEF MergesAlone, Applicable
    <3> QED BY <1>0, <2>1, <3>3, <3>4 DEF ApplicationIsSound, ApplicationTyped
  <2> QED BY <2>2, <2>3
<1>4. ASSUME NEW o \in Operator, MergeResult(o) PROVE ApplicationIsSound'
  <2>1. terminal[o].at = "merge" /\ UNCHANGED application /\ FastForward(o)
    BY <1>4 DEF MergeResult
  <2>2. CASE Ends(o) /\ UNCHANGED <<project, forward>>  BY <1>1, <2>1, <2>2
  <2>3. CASE ~(Ends(o) /\ UNCHANGED <<project, forward>>)
    <3>1. /\ terminal' = [terminal EXCEPT ![o].at = "receipt"]
          /\ \/ UNCHANGED <<project, forward>>
             \/ /\ project.head # Result /\ Ancestor(project.head, Result)
                /\ project' = [project EXCEPT !.head = Result] /\ forward' = Moved(o)
      BY <2>1, <2>3 DEF FastForward
    <3>2. PICK new \in Commands : new = [terminal[o] EXCEPT !.at = "receipt"]
      BY <1>0 DEF Commands
    <3>3. /\ terminal' = [terminal EXCEPT ![o] = new] /\ new.expected = terminal[o].expected
          /\ new.at = "receipt" /\ Ancestor(terminal[o].expected, Result)
      BY <1>0, <2>1, <3>1, <3>2 DEF Commands, MergesAlone
    <3>4. project' \in Checkouts /\ ~project'.lost
      BY <1>0, <3>1 DEF Checkouts
    <3>5. MergesAlone' /\ terminal' \in [Operator -> Commands]
      BY <2>1, <3>3, <3>4, CommandMoves
    <3>6. forward' \subseteq Forwards /\ \A f \in forward' : ForwardIsTrue(f)
      <4>1. CASE forward' = forward  BY <1>0, <4>1
      <4>2. CASE /\ project.head # Result /\ Ancestor(project.head, Result)
                 /\ forward' = Moved(o)
        <5>1. terminal[o] \in Commands  BY <1>0
        <5>2. Moved(o) \subseteq Forwards
          BY <1>0, <5>1 DEF Moved, Forwards, Commands, Checkouts
        <5>3. \A f \in Moved(o) : ForwardIsTrue(f)
          BY <1>0, <2>1, <4>2 DEF Moved, ForwardIsTrue, MergesAlone
        <5> QED BY <4>2, <5>2, <5>3
      <4> QED BY <3>1, <4>1, <4>2
    <3> QED BY <1>0, <2>1, <3>4, <3>5, <3>6 DEF ApplicationIsSound, ApplicationTyped
  <2> QED BY <2>2, <2>3
<1>5. ASSUME NEW o \in Operator, RecordReceipt(o) \/ RecordAssessment(o) PROVE ApplicationIsSound'
  <2>1. CASE Ends(o) /\ UNCHANGED application
    BY <1>1, <1>5, <2>1 DEF RecordReceipt, RecordAssessment
  <2>2. CASE ~(Ends(o) /\ UNCHANGED application)
    <3>1. Ends(o) /\ UNCHANGED <<project, forward>>
      BY <1>5, <2>2 DEF RecordReceipt, RecordAssessment
    <3>2. MergesAlone' /\ terminal' \in [Operator -> Commands]
      BY <1>0, <3>1, NoCommandIs, CommandMoves DEF Ends
    <3>3. terminal[o].expected \in History /\ terminal[o].observed \in History
      BY <1>0 DEF Commands
    <3>4. application' \subseteq Entries /\ \A r \in application' : EntryIsTrue(r)
      <4>1. CASE RecordReceipt(o)
        <5>1. application' = {[kind |-> "apply_receipt", expected |-> terminal[o].expected]}
              /\ terminal[o].at = "receipt"
          BY <2>2, <4>1 DEF RecordReceipt
        <5> QED BY <1>0, <3>3, <5>1 DEF Entries, EntryIsTrue, MergesAlone
      <4>2. CASE RecordAssessment(o)
        <5>1. application' = {[kind |-> "git_assessment", observed |-> terminal[o].observed,
                               relation |-> Relation(Result, terminal[o].observed)]}
          BY <2>2, <4>2 DEF RecordAssessment
        <5>2. Relation(Result, terminal[o].observed) \in Relations
          BY DEF Relation, Relations
        <5>3. Relation(Result, terminal[o].observed) \in {"equal", "ancestor"}
                <=> Ancestor(Result, terminal[o].observed)
          BY DEF Relation, Ancestor
        <5> QED BY <3>3, <5>1, <5>2, <5>3 DEF Entries, EntryIsTrue
      <4> QED BY <1>5, <4>1, <4>2
    <3> QED BY <1>0, <3>1, <3>2, <3>4 DEF ApplicationIsSound, ApplicationTyped
  <2> QED BY <2>1, <2>2
<1>6. ASSUME NEW o \in Operator, ObserveHead(o) PROVE ApplicationIsSound'
  <2>1. /\ terminal' = [terminal EXCEPT ![o].at = "assessment", ![o].observed = project.head]
        /\ UNCHANGED <<project, application, forward>>
    BY <1>6 DEF ObserveHead
  <2>2. PICK new \in Commands :
          new = [terminal[o] EXCEPT !.at = "assessment", !.observed = project.head]
    BY <1>0 DEF Commands, Checkouts
  <2>3. terminal' = [terminal EXCEPT ![o] = new] /\ new.at = "assessment"
    BY <1>0, <2>1, <2>2 DEF Commands
  <2>4. MergesAlone' /\ terminal' \in [Operator -> Commands]
    BY <1>0, <2>1, <2>3, CommandMoves
  <2> QED BY <1>0, <2>1, <2>4 DEF ApplicationIsSound, ApplicationTyped
<1>7. CASE WorkInProject
  <2>1. PICK head \in History, edited \in BOOLEAN, ignored \in BOOLEAN :
          project' = [project EXCEPT !.head = head, !.edited = edited, !.ignored = ignored,
                                     !.moves = @ + 1]
    BY <1>7 DEF WorkInProject
  <2>2. project' \in Checkouts /\ ~project'.lost
    <3>1. PICK moves \in Nat : moves = project.moves + 1  BY <1>0 DEF Checkouts
    <3>2. project' = [project EXCEPT !.head = head, !.edited = edited, !.ignored = ignored,
                                     !.moves = moves]
      BY <2>1, <3>1
    <3>3. project' \in Checkouts  BY <1>0, <3>2 DEF Checkouts
    <3>4. project'.lost = project.lost  BY <1>0, <3>2 DEF Checkouts
    <3> QED BY <1>0, <3>3, <3>4
  <2>3. terminal' = [o \in Operator |->
          IF terminal[o].at = "merge" THEN [terminal[o] EXCEPT !.raced = TRUE] ELSE terminal[o]]
    BY <1>7 DEF WorkInProject
  <2>4. ASSUME NEW o \in Operator
        PROVE  /\ terminal'[o] \in Commands /\ terminal'[o].at = terminal[o].at
               /\ terminal'[o].expected = terminal[o].expected
               /\ terminal[o].at = "merge" => terminal'[o].raced
    <3>1. terminal[o] \in Commands  BY <1>0
    <3>2. PICK new \in Commands : new = [terminal[o] EXCEPT !.raced = TRUE]
      BY <3>1 DEF Commands
    <3>3. new.at = terminal[o].at /\ new.expected = terminal[o].expected /\ new.raced
      BY <3>1, <3>2 DEF Commands
    <3>4. terminal'[o] = IF terminal[o].at = "merge" THEN new ELSE terminal[o]
      BY <2>3, <3>2
    <3> QED BY <3>1, <3>3, <3>4
  <2>5. terminal' \in [Operator -> Commands]  BY <2>3, <2>4
  <2>6. MergesAlone'  BY <1>0, <2>4 DEF MergesAlone
  <2>7. UNCHANGED <<application, forward>>  BY <1>7 DEF WorkInProject
  <2> QED BY <1>0, <2>2, <2>5, <2>6, <2>7 DEF ApplicationIsSound, ApplicationTyped
<1>8. CASE UNCHANGED applicationVars
  BY <1>8 DEF applicationVars, ApplicationIsSound, ApplicationTyped, MergesAlone
<1>9. ASSUME NEW o \in Operator, CommandDies(o) PROVE ApplicationIsSound'
  BY <1>1, <1>9 DEF CommandDies
<1> QED BY <1>2, <1>3, <1>4, <1>5, <1>6, <1>7, <1>8, <1>9 DEF ApplicationNext

LEMMA ApplicationBegins == ApplicationInit => ApplicationIsSound
<1> SUFFICES ASSUME ApplicationInit PROVE ApplicationIsSound  OBVIOUS
<1>1. project \in Checkouts /\ ~project.lost
  BY HistoryAssumption DEF ApplicationInit, Checkouts
<1>2. terminal \in [Operator -> Commands] /\ \A o \in Operator : terminal[o].at = "idle"
  BY NoCommandIs DEF ApplicationInit
<1>3. application = {} /\ forward = {}  BY DEF ApplicationInit
<1> QED BY <1>1, <1>2, <1>3 DEF ApplicationIsSound, ApplicationTyped, MergesAlone

LEMMA ApplicationHolds == ApplicationIsSound => ApplicationsAreTrue
<1> SUFFICES ASSUME ApplicationIsSound PROVE ApplicationsAreTrue  OBVIOUS
<1>1. ApplicationTypeOK
  BY DEF ApplicationIsSound, ApplicationTyped, ApplicationTypeOK, Checkouts, Commands, Entries,
         Forwards
<1> QED BY <1>1 DEF ApplicationIsSound, ApplicationsAreTrue, ForwardIsTrue, EntryIsTrue

\* A fast-forward starts where the operator said, unless someone moved the checkout in the
\* last moment, and never loses work; a receipt names an ancestor of the result, and an
\* assessment tells truly whether the head contains the result.
THEOREM ApplicationsTrue == ApplicationSpec => []ApplicationsAreTrue
BY ApplicationBegins, ApplicationStep, ApplicationHolds, PTL DEF ApplicationSpec
=============================================================================
