---------------------------- MODULE BriefDecisions ----------------------------
(***************************************************************************)
(* Questions of a worker that are answered from an immutable brief         *)
(* (decisions, and the replies of task_interaction).  The coordinator      *)
(* grants a task a policy, prepares a consultation for its pending         *)
(* question, launches it as an ordinary task, records what it assessed and *)
(* replies.  Meanwhile the operator may reply, the question may expire and *)
(* the task may be cancelled or end; two coordinators may reply at once.   *)
(***************************************************************************)
EXTENDS Integers, FiniteSets

CONSTANTS
  Client,       \* coordinators that reply
  MaxAnswers    \* bound of the history of answers

ASSUME DecisionBounds == MaxAnswers \in Nat \ {0, 1}

VARIABLES
  asking,         \* the task and its question
  policy,         \* the kinds of questions the brief may answer; {} without a policy
  consultation,   \* the prepared consultation and the task that ran it
  decision,       \* the recorded decision and its reply
  replying        \* what each coordinator has found before it replies

decisionVars == <<asking, policy, consultation, decision, replying>>

-----------------------------------------------------------------------------
Kind == {"information", "technical_choice", "approval"}
Verdict == {"derivable", "not_established", "contradiction", "approval_required"}
DecisionTypeOK ==
  /\ asking \in [status : {"running", "waiting", "ended"}, cancel : BOOLEAN,
        independent : BOOLEAN, question : {"none", "pending", "answered", "unresolved",
                                           "expired", "context_required"},
        kind : Kind, shared : BOOLEAN, late : BOOLEAN, source : {"nobody", "operator", "brief"},
        answers : 0..MaxAnswers]
  /\ policy \in SUBSET {"information", "technical_choice"}
  /\ consultation \in [state : {"none", "prepared", "running", "completed", "failed"},
        window : BOOLEAN, faithful : BOOLEAN, verdict : Verdict, cited : BOOLEAN, risky : BOOLEAN]
  /\ decision \in [verdict : Verdict \union {"none"},
        reply : {"none", "accepted", "unresolved", "refused"}]
  /\ replying \in [Client -> {"idle", "read", "refused"}]

DecisionInit ==
  /\ \E independent, shared \in BOOLEAN, kind \in Kind :
       asking = [status |-> "running", cancel |-> FALSE, independent |-> independent,
         question |-> "none", kind |-> kind, shared |-> shared, late |-> FALSE,
         source |-> "nobody", answers |-> 0]
  /\ policy = {}
  /\ consultation = [state |-> "none", window |-> TRUE, faithful |-> TRUE,
       verdict |-> "derivable", cited |-> TRUE, risky |-> FALSE]
  /\ decision = [verdict |-> "none", reply |-> "none"]
  /\ replying = [c \in Client |-> "idle"]

-----------------------------------------------------------------------------
(* The worker and its question.                                            *)

\* TaskInteraction.ask: an independent stage needs a new snapshot instead of an answer.
AskQuestion ==
  /\ asking.status = "running" /\ asking.question = "none" /\ ~asking.cancel
  /\ asking' = IF asking.independent THEN [asking EXCEPT !.question = "context_required"]
               ELSE [asking EXCEPT !.question = "pending", !.status = "waiting"]
  /\ UNCHANGED <<policy, consultation, decision, replying>>

\* The worker's poll finds the deadline.
ExpireQuestion ==
  /\ asking.question = "pending" /\ asking.late /\ ~asking.cancel /\ asking.status = "waiting"
  /\ asking' = [asking EXCEPT !.question = "expired", !.status = "running"]
  /\ UNCHANGED <<policy, consultation, decision, replying>>

PassQuestionDeadline ==
  /\ asking.question = "pending" /\ ~asking.late /\ asking' = [asking EXCEPT !.late = TRUE]
  /\ UNCHANGED <<policy, consultation, decision, replying>>

CancelAsker ==
  /\ asking.status # "ended" /\ ~asking.cancel /\ asking' = [asking EXCEPT !.cancel = TRUE]
  /\ UNCHANGED <<policy, consultation, decision, replying>>

\* The task ends: while it waits only by a cancellation or at its deadline.
EndAsker ==
  /\ \/ asking.status = "running"
     \/ asking.status = "waiting" /\ (asking.cancel \/ asking.late)
  /\ asking' = [asking EXCEPT !.status = "ended"]
  /\ UNCHANGED <<policy, consultation, decision, replying>>

-----------------------------------------------------------------------------
(* Policy, preparation, consultation, record.                              *)

\* DecisionService._pending
Pending == /\ asking.question = "pending" /\ asking.status = "waiting"
           /\ ~asking.cancel /\ ~asking.late /\ ~asking.independent
Brief == asking.kind \in policy /\ ~asking.shared

SetPolicy ==
  /\ policy = {} /\ asking.status # "ended" /\ ~asking.cancel /\ ~asking.independent
  /\ policy' \in (SUBSET {"information", "technical_choice"}) \ {{}}
  /\ UNCHANGED <<asking, consultation, decision, replying>>

Prepare ==
  /\ consultation.state = "none" /\ Pending /\ Brief
  /\ consultation' = [consultation EXCEPT !.state = "prepared"]
  /\ UNCHANGED <<asking, policy, decision, replying>>

\* The coordinator launches the descriptor, in its window or later, as it was prepared
\* or as something else.
LaunchConsultation ==
  /\ consultation.state = "prepared"
  /\ \E window, faithful \in BOOLEAN :
       consultation' = [consultation EXCEPT !.state = "running", !.window = window,
                                            !.faithful = faithful]
  /\ UNCHANGED <<asking, policy, decision, replying>>

\* External: what the consulting model answers.
EndConsultation ==
  /\ consultation.state = "running"
  /\ \E state \in {"completed", "failed"}, verdict \in Verdict, cited, risky \in BOOLEAN :
       consultation' = [consultation EXCEPT !.state = state, !.verdict = verdict,
                                            !.cited = cited, !.risky = risky]
  /\ UNCHANGED <<asking, policy, decision, replying>>

\* What a derivable verdict, and one that settles nothing, must come with.
Recordable ==
  /\ Pending
  /\ consultation.state = "completed" /\ consultation.window /\ consultation.faithful
  /\ consultation.verdict = "derivable" =>
       consultation.cited /\ ~consultation.risky /\ Brief
  /\ consultation.verdict = "not_established" => ~consultation.risky

RecordDecision ==
  /\ decision.verdict = "none" /\ Recordable
  /\ decision' = [decision EXCEPT !.verdict = consultation.verdict]
  /\ UNCHANGED <<asking, policy, consultation, replying>>

-----------------------------------------------------------------------------
(* Replies.                                                                *)

\* The operator's reply; one that repeats the answer is told so and changes nothing.
OperatorReplies ==
  /\ Pending
  /\ asking' = [asking EXCEPT !.question = "answered", !.status = "running",
                              !.source = "operator", !.answers = @ + 1]
  /\ UNCHANGED <<policy, consultation, decision, replying>>

\* DecisionService._reply reads the decision; contradictions stay with the operator.
ReadDecision(c) ==
  /\ replying[c] = "idle" /\ decision.reply = "none"
  /\ decision.verdict \in {"derivable", "not_established"}
  /\ replying' = [replying EXCEPT ![c] = "read"]
  /\ UNCHANGED <<asking, policy, consultation, decision>>

\* Mutant: what was read before the transaction is not looked at again.
AcceptsStale == decision.verdict # "none" /\ asking.answers < MaxAnswers

\* TaskInteraction.reply: the question is pending in the transaction that answers it.
Accepts == Pending

\* The reply of a decision: a repeated one observes the first, a refused one is to be
\* recorded as refused in a transaction of its own.
ReplyDecision(c) ==
  /\ replying[c] = "read"
  /\ \/ /\ decision.reply = "none" /\ Accepts
        /\ LET closes == decision.verdict = "not_established" IN
           /\ asking' = [asking EXCEPT !.question = IF closes THEN "unresolved" ELSE "answered",
                           !.status = IF @ = "ended" THEN @ ELSE "running",
                           !.source = "brief", !.answers = @ + 1]
           /\ decision' = [decision EXCEPT !.reply = IF closes THEN "unresolved" ELSE "accepted"]
        /\ replying' = [replying EXCEPT ![c] = "idle"]
     \/ /\ decision.reply = "none" /\ ~Accepts
        /\ replying' = [replying EXCEPT ![c] = "refused"] /\ UNCHANGED <<asking, decision>>
     \/ /\ decision.reply # "none"
        /\ replying' = [replying EXCEPT ![c] = "idle"] /\ UNCHANGED <<asking, decision>>
  /\ UNCHANGED <<policy, consultation>>

RecordRefusal(c) ==
  /\ replying[c] = "refused"
  /\ decision' = [decision EXCEPT !.reply = IF @ = "none" THEN "refused" ELSE @]
  /\ replying' = [replying EXCEPT ![c] = "idle"]
  /\ UNCHANGED <<asking, policy, consultation>>

DecisionNext ==
  \/ AskQuestion \/ ExpireQuestion \/ PassQuestionDeadline \/ CancelAsker \/ EndAsker
  \/ SetPolicy \/ Prepare \/ LaunchConsultation \/ EndConsultation \/ RecordDecision
  \/ OperatorReplies
  \/ \E c \in Client : ReadDecision(c) \/ ReplyDecision(c) \/ RecordRefusal(c)

DecisionSpec == DecisionInit /\ [][DecisionNext]_decisionVars

-----------------------------------------------------------------------------
\* A question is closed once, by one source, whoever replies at the same moment; a brief
\* closes it only under a policy that allows its kind, by a verdict that needs nobody,
\* assessed by the launch that was prepared; and the reply that a decision records is
\* what happened to the question, never a refusal of a reply that took effect.
BriefAnswersAreFounded ==
  /\ DecisionTypeOK
  /\ asking.answers <= 1
  /\ asking.source = "brief" =>
       /\ Brief /\ ~asking.independent /\ consultation.window /\ consultation.faithful
       /\ decision.verdict \in {"derivable", "not_established"} /\ ~consultation.risky
       /\ decision.reply \in {"accepted", "unresolved"}
  /\ decision.reply \in {"accepted", "unresolved"} => asking.source = "brief"
  /\ decision.reply = "accepted" <=> asking.source = "brief" /\ asking.question = "answered"
=============================================================================
