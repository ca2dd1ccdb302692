--------------------------- MODULE AutomationBudget ---------------------------
(***************************************************************************)
(* The operator's ceiling on newly admitted execution (automation_budget   *)
(* and its callers in bridge, review_runs and work_items).  The ledger is  *)
(* two tables that every server of the project shares.  Tasks, team steps  *)
(* and work attempts are admitted in a transaction.  A review run is       *)
(* admitted on a connection without one: its reads, the admission row and  *)
(* the counter are three steps, and another server may act in between.     *)
(***************************************************************************)
EXTENDS Integers, FiniteSets

CONSTANTS
  Server,
  Request,      \* review requests, named by their request key
  MaxGrants,    \* bound: grants ever opened
  MaxCeiling,   \* bound: the ceiling of a grant
  MaxUnits      \* bound: tasks, team steps and attempts

ASSUME BudgetBounds == MaxGrants \in Nat /\ MaxCeiling \in Nat \ {0} /\ MaxUnits \in Nat
\* "unit" names what is no review run, see Owner.
ASSUME OwnersAssumption == IsFiniteSet(Server) /\ IsFiniteSet(Request) /\ "unit" \notin Server

VARIABLES
  grants,      \* every grant: its ceiling, its spend, whether it is active
  admissions,  \* the admission of each owner: the grant it was spent from
  started,     \* the execution that was started, and under which grant
  admitting    \* a review start in each server, between two of its statements

budgetVars == <<grants, admissions, started, admitting>>

-----------------------------------------------------------------------------
Grant == 1..MaxGrants
Off == 0       \* no active grant: execution is not limited
\* A review run belongs to a server and a request, every other unit gets a new name.
Owner == (Server \X Request) \union {<<"unit", n>> : n \in 1..MaxUnits}

BudgetTypeOK ==
  /\ grants \in [Grant -> [ceiling : 0..MaxCeiling, used : 0..(MaxCeiling + MaxUnits + Cardinality(Owner)),
                           state : {"none", "active", "closed"}]]
  /\ \A a \in admissions : a.owner \in Owner /\ a.grant \in Grant
  /\ \A u \in started : u.owner \in Owner /\ u.grant \in Grant \union {Off}
  /\ admitting \in [Server -> [at : {"idle", "read", "inserted", "admitted"},
        request : Request, grant : Grant \union {Off}]]

BudgetInit ==
  /\ grants = [g \in Grant |-> [ceiling |-> 0, used |-> 0, state |-> "none"]]
  /\ admissions = {} /\ started = {}
  /\ admitting \in [Server -> {[at |-> "idle", request |-> r, grant |-> Off] : r \in Request}]
  /\ \A s, u \in Server : admitting[s].request = admitting[u].request

-----------------------------------------------------------------------------
ActiveGrant == {g \in Grant : grants[g].state = "active"}
Current == IF ActiveGrant = {} THEN Off ELSE CHOOSE g \in ActiveGrant : TRUE
Opened == {g \in Grant : grants[g].state # "none"}
Remains(g) == grants[g].ceiling - grants[g].used > 0
AdmissionOf(owner) == {a \in admissions : a.owner = owner}
Spent(g) == [grants EXCEPT ![g].used = @ + 1]

\* AutomationBudget.authorize: an active grant is replaced only without unfinished
\* admissions, and nothing finishes an admission (close has no caller).
Authorize(ceiling) ==
  /\ Cardinality(Opened) < MaxGrants
  /\ Current # Off => \A a \in admissions : a.grant # Current
  /\ LET next == Cardinality(Opened) + 1 IN
     grants' = [g \in Grant |->
       IF g = next THEN [ceiling |-> ceiling, used |-> 0, state |-> "active"]
       ELSE IF g = Current THEN [grants[g] EXCEPT !.state = "closed"] ELSE grants[g]]
  /\ UNCHANGED <<admissions, started, admitting>>

Extend ==
  /\ Current # Off /\ grants[Current].ceiling < MaxCeiling
  /\ grants' = [grants EXCEPT ![Current].ceiling = @ + 1]
  /\ UNCHANGED <<admissions, started, admitting>>

Disable ==
  /\ Current # Off
  /\ grants' = [grants EXCEPT ![Current].state = "closed"]
  /\ UNCHANGED <<admissions, started, admitting>>

\* Mutant: the last admission may be spent twice.
AffordableOnce(g) == grants[g].ceiling - grants[g].used >= 0

\* What a new owner needs of the active grant.
Affordable(g) == Remains(g)

\* Bridge.start and WorkItemStore._reserve: admit in a transaction, then start.  The
\* start may still be refused, and a team step that is tried again is a new owner.
StartUnit(n, begins) ==
  LET owner == <<"unit", n>> IN
  /\ \A m \in 1..n : m < n => (AdmissionOf(<<"unit", m>>) # {}
                                 \/ \E u \in started : u.owner = <<"unit", m>>)
  /\ AdmissionOf(owner) = {} /\ \A u \in started : u.owner # owner
  /\ \/ /\ Current # Off /\ Affordable(Current)
        /\ grants' = Spent(Current)
        /\ admissions' = admissions \union {[owner |-> owner, grant |-> Current]}
     \/ Current = Off /\ begins /\ UNCHANGED <<grants, admissions>>
  /\ started' = IF begins THEN started \union {[owner |-> owner, grant |-> Current]} ELSE started
  /\ UNCHANGED admitting

\* ReviewRuns.start: one at a time in a server; a request that has a run is a replay.
ReadBudget(s, r) ==
  /\ admitting[s].at = "idle" /\ \A u \in started : u.owner # <<s, r>>
  /\ \/ Current = Off \/ AdmissionOf(<<s, r>>) # {}
     \/ Current # Off /\ Affordable(Current)
  /\ admitting' = [admitting EXCEPT ![s] = [request |-> r, grant |-> Current,
       at |-> IF Current # Off /\ AdmissionOf(<<s, r>>) = {} THEN "read" ELSE "admitted"]]
  /\ UNCHANGED <<grants, admissions, started>>

InsertAdmission(s) ==
  /\ admitting[s].at = "read"
  /\ admissions' = admissions \union {[owner |-> <<s, admitting[s].request>>,
                                       grant |-> admitting[s].grant]}
  /\ admitting' = [admitting EXCEPT ![s].at = "inserted"]
  /\ UNCHANGED <<grants, started>>

CountAdmission(s) ==
  /\ admitting[s].at = "inserted"
  /\ grants' = Spent(admitting[s].grant)
  /\ admitting' = [admitting EXCEPT ![s].at = "admitted"]
  /\ UNCHANGED <<admissions, started>>

\* The run is written, or its corrective context, the driver or the slots refuse it.
StartReview(s) ==
  /\ admitting[s].at = "admitted"
  /\ \E begins \in BOOLEAN :
       started' = IF begins
                  THEN started \union {[owner |-> <<s, admitting[s].request>>,
                                        grant |-> admitting[s].grant]}
                  ELSE started
  /\ admitting' = [admitting EXCEPT ![s].at = "idle", ![s].grant = Off]
  /\ UNCHANGED <<grants, admissions>>

\* The server dies between two statements: what it had not counted is never counted.
LoseReview(s) ==
  /\ admitting[s].at # "idle"
  /\ admitting' = [admitting EXCEPT ![s].at = "idle", ![s].grant = Off]
  /\ UNCHANGED <<grants, admissions, started>>

BudgetNext ==
  \/ \E ceiling \in 1..MaxCeiling : Authorize(ceiling)
  \/ Extend \/ Disable
  \/ \E n \in 1..MaxUnits, begins \in BOOLEAN : StartUnit(n, begins)
  \/ \E s \in Server : InsertAdmission(s) \/ CountAdmission(s) \/ StartReview(s) \/ LoseReview(s)
                       \/ \E r \in Request : ReadBudget(s, r)

BudgetSpec == BudgetInit /\ [][BudgetNext]_budgetVars

-----------------------------------------------------------------------------
\* Nothing starts under a grant without an admission of its own, which is spent from one
\* grant for ever, and a replayed review never spends again.  Servers that admit at the
\* same time may together count more than the ceiling, by one review each and no more;
\* only a server that dies between two statements leaves an admission uncounted.  One
\* grant is active, however servers, operator and crashes interleave.
Admitted(g) == Cardinality({a \in admissions : a.grant = g})
GrantIsACeiling ==
  /\ BudgetTypeOK /\ Cardinality(ActiveGrant) <= 1
  /\ \A u \in started : u.grant # Off =>
       \E a \in AdmissionOf(u.owner) : a.grant <= u.grant
  /\ \A o \in Owner : Cardinality(AdmissionOf(o)) <= 1
  /\ \A g \in Grant : /\ grants[g].used <= Admitted(g)
                      /\ grants[g].used <= grants[g].ceiling + Cardinality(Server)
=============================================================================
