---------------------------- MODULE ClaimRecovery ----------------------------
(***************************************************************************)
(* Who may act under a manual claim when the session that made it is gone  *)
(* (work_items: claim bindings, recover, successor).  The claim's          *)
(* credential lives in the memory of sessions only.  The claiming session  *)
(* may fetch it again; anyone else needs an authorization of the operator  *)
(* for exactly this claim as it stands, may use it for one recovery, and   *)
(* then reports and closes but never submits.  A claim made inside a turn  *)
(* of a native task passes on only after the turn's process was seen to    *)
(* end.                                                                    *)
(*                                                                         *)
(* One claim.  Everything of it that must not have changed between an      *)
(* authorization and its use (plan, source, submission, stage) is a        *)
(* number, its context.  Hosts are alike: the claim is made on one of them, *)
(* Home, by a session of Claude or by the first turn there.                *)
(***************************************************************************)
EXTENDS Integers

CONSTANTS
  Host,          \* identities of hosts
  Home,          \* the one of them that claims
  MaxTurnsHome,  \* bound: native turns on it; other hosts have one
  MaxSuccessors, \* bound: authorizations of the operator
  MaxOperations, \* bound: recovery operations of a principal
  MaxContexts    \* bound: changes of the claim's context

ASSUME RecoveryBounds ==
  Home \in Host /\ {MaxTurnsHome, MaxSuccessors, MaxOperations, MaxContexts} \subseteq Nat

VARIABLES
  claimed,     \* the claim and its binding
  successors,  \* the authorizations
  recovered,   \* the recorded recoveries, with the receipts of their operations
  holders,     \* the sessions that have the credential in memory
  turn,        \* the process of the first turn at home
  submitters   \* history: the sessions that submitted under the credential

recoveryVars == <<claimed, successors, recovered, holders, turn, submitters>>

-----------------------------------------------------------------------------
\* A session of Claude, or a turn of a native task.
Session == [host : Host, principal : {"claude"}, task : {0}]
           \union [host : Host, principal : {"omp"}, task : {1}]
           \union [host : {Home}, principal : {"omp"}, task : 1..MaxTurnsHome]
Claimants == {s \in Session : s.host = Home /\ s.task \in {0, 1}}
TurnAtHome == [host |-> Home, principal |-> "omp", task |-> 1]
Handoff == 1..MaxSuccessors
OperationId == 1..MaxOperations
Recovery == [op : OperationId, host : Host, principal : {"claude", "omp"},
             context : 0..MaxContexts, via : 0..MaxSuccessors]

RecoveryTypeOK ==
  /\ claimed.state \in {"none", "active", "recovery", "ended"}
  /\ claimed.by \in Claimants /\ claimed.context \in 0..MaxContexts
  /\ claimed.settled \in {"no", "unconfirmed", "confirmed"}
  /\ \A e \in Handoff :
       /\ successors[e].given \in BOOLEAN /\ successors[e].host \in Host
       /\ successors[e].principal \in {"claude", "omp"}
       /\ successors[e].context \in 0..MaxContexts
       /\ successors[e].consumed \in 0..MaxOperations
  /\ recovered \subseteq Recovery /\ holders \subseteq Session
  /\ turn \in {"runs", "stray", "gone"} /\ submitters \subseteq Session

RecoveryInit ==
  /\ claimed = [state |-> "none", by |-> TurnAtHome,
                settled |-> "no", context |-> 0]
  /\ successors = [e \in Handoff |->
       [given |-> FALSE, host |-> CHOOSE h \in Host : TRUE, principal |-> "omp",
        context |-> 0, consumed |-> 0]]
  /\ recovered = {} /\ holders = {} /\ submitters = {} /\ turn = "runs"

\* A session may get its answer, or lose it with the server.
Installs(s) == holders' \in {holders, holders \union {s}}

-----------------------------------------------------------------------------
(* The claim.                                                              *)

\* A call of a turn may still be in the server when the turn is over.
BindClaim(s) ==
  /\ claimed.state = "none"
  /\ claimed' = [claimed EXCEPT !.state = "active", !.by = s]
  /\ Installs(s)
  /\ UNCHANGED <<successors, recovered, turn, submitters>>

\* The same operation again, perhaps of another session of the principal that knows
\* its identity: only the session that claimed gets the credential.
RetryClaim(s) ==
  /\ claimed.state = "active" /\ s.principal = claimed.by.principal
  /\ s.host = claimed.by.host /\ claimed.by.task \in {0, s.task}
  /\ holders' = holders \union {s}
  /\ UNCHANGED <<claimed, successors, recovered, turn, submitters>>

FenceOrEnd(state) ==
  /\ claimed.state \in {"active", "recovery"}
  /\ claimed' = [claimed EXCEPT !.state = state]
  /\ UNCHANGED <<successors, recovered, holders, turn, submitters>>

\* A pause, a revision, a block or the deadline; then the operator's reconciliation.
FenceBound == claimed.state = "active" /\ FenceOrEnd("recovery")
ReconcileBound == claimed.state = "recovery" /\ FenceOrEnd("ended")

-----------------------------------------------------------------------------
(* The turn at home.                                                       *)

\* Evidence about a turn is recorded once, for the claim it made by then.
Settle(evidence) ==
  claimed' = IF claimed.state # "none" /\ claimed.by.task # 0 /\ claimed.settled = "no"
             THEN [claimed EXCEPT !.settled = evidence] ELSE claimed

\* A turn that did not complete is settled, unless the database fails; its process is
\* confirmed gone, or may go on.
TurnFails ==
  /\ turn = "runs"
  /\ holders' = holders \ {TurnAtHome}
  /\ \E evidence \in {"confirmed", "unconfirmed"} :
       /\ turn' \in IF evidence = "confirmed" THEN {"gone"} ELSE {"gone", "stray"}
       /\ Settle(evidence) \/ UNCHANGED claimed
  /\ UNCHANGED <<successors, recovered, submitters>>

TurnCompletes ==
  /\ turn = "runs"
  /\ turn' = "gone" /\ holders' = holders \ {TurnAtHome}
  /\ UNCHANGED <<claimed, successors, recovered, submitters>>

StrayProcessEnds ==
  /\ turn = "stray"
  /\ turn' = "gone"
  /\ UNCHANGED <<claimed, successors, recovered, holders, submitters>>

\* A host's server dies and is started again: what it had in memory is lost, and its
\* turns have nobody to confirm their end.
HostRestarts(h) ==
  /\ (\E s \in holders : s.host = h) \/ (h = Home /\ turn = "runs")
  /\ holders' = {s \in holders : s.host # h}
  /\ turn' = IF h = Home /\ turn = "runs" THEN "stray" ELSE turn
  /\ UNCHANGED <<claimed, successors, recovered, submitters>>

-----------------------------------------------------------------------------
(* Recovery.                                                               *)

\* The operator's handoff of one live claim as it stands.
AuthorizeSuccessor ==
  /\ claimed.state = "active"
  /\ \E e \in Handoff, h \in Host, p \in {"claude", "omp"} :
       /\ ~successors[e].given /\ \A f \in Handoff : f < e => successors[f].given
       /\ successors' = [successors EXCEPT ![e] =
            [given |-> TRUE, host |-> h, principal |-> p, context |-> claimed.context,
             consumed |-> 0]]
  /\ UNCHANGED <<claimed, recovered, holders, turn, submitters>>

\* The session that claimed, outside of a turn, needs no authorization.
OwnHost(s) ==
  s.host = claimed.by.host /\ s.principal = claimed.by.principal /\ claimed.by.task = 0

\* The first authorization for this host and principal that is not used up.
Entitling(s) ==
  LET open == {e \in Handoff : /\ successors[e].given /\ successors[e].consumed = 0
                               /\ successors[e].host = s.host
                               /\ successors[e].principal = s.principal}
  IN {e \in open : \A f \in open : e <= f}

\* Mutant: any recorded end of the turn will do.
StopRecorded == claimed.by.task = 0 \/ claimed.settled # "no"

StopConfirmed == claimed.by.task = 0 \/ claimed.settled = "confirmed"

RecoveryOf(s, op) == {r \in recovered : r.op = op /\ r.principal = s.principal}

RecoverClaim(s, op) ==
  /\ claimed.state = "active" /\ RecoveryOf(s, op) = {}
  /\ StopConfirmed
  /\ \/ /\ OwnHost(s)
        /\ recovered' = recovered \union
             {[op |-> op, host |-> s.host, principal |-> s.principal,
               context |-> claimed.context, via |-> 0]}
        /\ UNCHANGED successors
     \/ /\ ~OwnHost(s)
        /\ \E e \in Entitling(s) :
             /\ successors[e].context = claimed.context
             /\ successors' = [successors EXCEPT ![e].consumed = op]
             /\ recovered' = recovered \union
                  {[op |-> op, host |-> s.host, principal |-> s.principal,
                    context |-> claimed.context, via |-> e]}
  /\ Installs(s)
  /\ UNCHANGED <<claimed, turn, submitters>>

\* An exact retry: of the same host, while the claim is live and unchanged.
ReplayRecovery(s, op) ==
  /\ \E r \in RecoveryOf(s, op) : r.host = s.host /\ r.context = claimed.context
  /\ claimed.state = "active"
  /\ holders' = holders \union {s}
  /\ UNCHANGED <<claimed, successors, recovered, turn, submitters>>

-----------------------------------------------------------------------------
(* Acts under the credential.                                              *)

\* A caller whose host and principal used an authorization acts as its successor.
Delegated(s) ==
  \E e \in Handoff : successors[e].given /\ successors[e].consumed # 0
                     /\ successors[e].host = s.host /\ successors[e].principal = s.principal

Acts(s) == s \in holders /\ claimed.state = "active"
           /\ (Delegated(s) \/ s.principal = claimed.by.principal)

\* A successor reports: it neither submits nor adopts output.
SubmitUnder(s) ==
  /\ Acts(s) /\ ~Delegated(s) /\ claimed.context < MaxContexts
  /\ claimed' = [claimed EXCEPT !.context = @ + 1]
  /\ submitters' = submitters \union {s}
  /\ UNCHANGED <<successors, recovered, holders, turn>>

CompareUnder(s) ==
  /\ Acts(s) /\ claimed.context < MaxContexts
  /\ claimed' = [claimed EXCEPT !.context = @ + 1]
  /\ UNCHANGED <<successors, recovered, holders, turn, submitters>>

\* A report or a decision; a block fences instead.
CloseUnder(s) ==
  /\ Acts(s)
  /\ \E state \in {"ended", "recovery"} : claimed' = [claimed EXCEPT !.state = state]
  /\ UNCHANGED <<successors, recovered, holders, turn, submitters>>

RecoveryNext ==
  \/ \E s \in Session :
       \/ s \in Claimants /\ BindClaim(s)
       \/ RetryClaim(s) \/ SubmitUnder(s) \/ CompareUnder(s) \/ CloseUnder(s)
       \/ \E op \in OperationId : RecoverClaim(s, op) \/ ReplayRecovery(s, op)
  \/ FenceBound \/ ReconcileBound \/ AuthorizeSuccessor
  \/ TurnFails \/ TurnCompletes \/ StrayProcessEnds
  \/ \E h \in Host : HostRestarts(h)

RecoverySpec == RecoveryInit /\ [][RecoveryNext]_recoveryVars

-----------------------------------------------------------------------------
\* However sessions die, retry and are succeeded, a credential is in the hands of the
\* session that claimed, or of a host and principal whose own authorization was used
\* up by one recovery, for the claim exactly as the operator saw it; of a claim of a
\* native turn, only when the turn's process is no more.  No successor ever submits.
RecoveriesAreAuthorized ==
  /\ RecoveryTypeOK
  /\ \A s \in holders :
       \/ s = claimed.by \/ OwnHost(s)
       \/ /\ \E r \in recovered : r.via # 0 /\ r.host = s.host /\ r.principal = s.principal
          /\ claimed.by.task # 0 => turn = "gone"
  /\ \A r \in recovered : r.via # 0 =>
       /\ successors[r.via] = [given |-> TRUE, host |-> r.host, principal |-> r.principal,
                               context |-> r.context, consumed |-> r.op]
       /\ \A q \in recovered : q.via = r.via => q = r
  /\ \A s \in submitters : s = claimed.by \/ OwnHost(s)
=============================================================================
