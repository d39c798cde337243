------------------------------- MODULE Budget -------------------------------
(***************************************************************************)
(* The broker's budget store (internal/broker/budget/db_sql.go) under the  *)
(* requests that use it (internal/broker/server/complete.go, embed.go):    *)
(* each reserves an estimate against a shard of the tenant's cap, calls a  *)
(* provider, and then reconciles the actual cost or releases its lease,    *)
(* while a sweeper takes back leases that expire.                          *)
(*                                                                         *)
(* One tenant.  Every database transaction is one step (SQLite: writeMu;   *)
(* Postgres: the row locks of UPDATE and DELETE ... RETURNING); a Reserve  *)
(* is one transaction per shard it tries.  Money is in whole units.        *)
(***************************************************************************)
EXTENDS Integers, FiniteSets, Functions

CONSTANTS Requests,      \* request ids (with the run id, the primary key)
          Attempts,      \* concurrent HTTP requests
          ShardCount,    \* shards of the tenant's budget
          Cap,           \* cap of each shard
          Estimate,      \* what each request reserves: its model and max_tokens
          Costs,         \* what a call may turn out to cost
          NoLease, NoRow

ASSUME BudgetAssumption ==
  /\ IsFiniteSet(Requests) /\ IsFiniteSet(Attempts)
  /\ ShardCount \in Nat \ {0}        \* NewManager clamps it to at least 1
  /\ Cap \in Nat
  /\ Estimate \in [Requests -> Nat \ {0}]   \* EstimateUSD is never 0
  /\ Costs \subseteq Nat

Shards == 0 .. ShardCount - 1
Estimates == {Estimate[r] : r \in Requests}

\* A row of llm_lease; "by" remembers the attempt that inserted it.
LeaseRow == [shard : Shards, reserved : Estimates, expired : BOOLEAN,
             by : Attempts]

ASSUME NoLeaseAssumption == NoLease \notin LeaseRow
ASSUME NoRowAssumption == NoRow \notin Costs

VARIABLES
  shard,    \* llm_budget_shard: reserved and spent of each shard
  lease,    \* llm_lease: by request id, NoLease when absent
  ledger,   \* llm_ledger: the cost charged, NoRow when absent
  att,      \* where each attempt has got to
  overran,  \* history: some call cost more than was reserved for it
  outlived  \* history: some request was still at work when its lease expired

budgetVars == <<shard, lease, ledger, att, overran, outlived>>
histories == <<overran, outlived>>

IdleAttempt == [pc |-> "idle"]

BudgetInit ==
  /\ shard = [s \in Shards |-> [reserved |-> 0, spent |-> 0]]
  /\ lease = [r \in Requests |-> NoLease]
  /\ ledger = [r \in Requests |-> NoRow]
  /\ att = [a \in Attempts |-> IdleAttempt]
  /\ overran = FALSE /\ outlived = FALSE

Leased == {r \in Requests : lease[r] # NoLease}

\* The attempt whose reservation a lease is.
Owns(a, r) ==
  /\ att[a].pc \in {"calling", "answered", "failed"}
  /\ att[a].req = r
  /\ lease[r] # NoLease /\ lease[r].by = a

InFlight(r) == \E a \in Attempts : Owns(a, r)

-----------------------------------------------------------------------------
(* Reserve (ReserveCAS): a random first shard, then round robin.           *)

\* A request arrives with an id: a fresh one, or one the caller sends again.
Start(a, r, first) ==
  /\ att[a].pc = "idle"
  /\ att' = [att EXCEPT ![a] = [pc |-> "reserving", req |-> r,
                                est |-> Estimate[r], first |-> first, tried |-> 0]]
  /\ UNCHANGED <<shard, lease, ledger, histories>>

Trying(a) == (att[a].first + att[a].tried) % ShardCount

\* The conditional UPDATE's WHERE clause.
Fits_IgnoresReserved(s, est) == shard[s].spent + est <= Cap
Fits(s, est) == shard[s].reserved + shard[s].spent + est <= Cap

\* The CAS wins and the lease row goes in, in one transaction.
ReserveWins(a) ==
  LET r == att[a].req  s == Trying(a) IN
  /\ att[a].pc = "reserving" /\ att[a].tried < ShardCount
  /\ Fits(s, att[a].est)
  /\ lease[r] = NoLease
  /\ shard' = [shard EXCEPT ![s].reserved = @ + att[a].est]
  /\ lease' = [lease EXCEPT ![r] = [shard |-> s, reserved |-> att[a].est,
                                    expired |-> FALSE, by |-> a]]
  /\ att' = [att EXCEPT ![a] = [pc |-> "calling", req |-> r,
                                est |-> att[a].est]]
  /\ UNCHANGED <<ledger, histories>>

\* The lease insert meets a row of the same request: the transaction rolls
\* back and the request fails with an error.
ReserveConflicts_KeepsIncrement(a) ==
  LET s == Trying(a) IN
  /\ att[a].pc = "reserving" /\ att[a].tried < ShardCount
  /\ Fits(s, att[a].est)
  /\ lease[att[a].req] # NoLease
  /\ shard' = [shard EXCEPT ![s].reserved = @ + att[a].est]
  /\ att' = [att EXCEPT ![a] = IdleAttempt]
  /\ UNCHANGED <<lease, ledger, histories>>
ReserveConflicts(a) ==
  /\ att[a].pc = "reserving" /\ att[a].tried < ShardCount
  /\ Fits(Trying(a), att[a].est)
  /\ lease[att[a].req] # NoLease
  /\ att' = [att EXCEPT ![a] = IdleAttempt]
  /\ UNCHANGED <<shard, lease, ledger, histories>>

\* The shard is full: on to the next one.
ReserveLoses(a) ==
  /\ att[a].pc = "reserving" /\ att[a].tried < ShardCount
  /\ ~Fits(Trying(a), att[a].est)
  /\ att' = [att EXCEPT ![a].tried = @ + 1]
  /\ UNCHANGED <<shard, lease, ledger, histories>>

\* Every shard refused (ErrBudgetExceeded), or the database did.
ReserveFails(a) ==
  /\ att[a].pc = "reserving"
  /\ att' = [att EXCEPT ![a] = IdleAttempt]
  /\ UNCHANGED <<shard, lease, ledger, histories>>

-----------------------------------------------------------------------------
(* The provider call and what follows it.                                  *)

CallAnswers(a, cost) ==
  /\ att[a].pc = "calling"
  /\ att' = [att EXCEPT ![a] = [pc |-> "answered", req |-> att[a].req,
                                est |-> att[a].est, cost |-> cost]]
  /\ overran' = (overran \/ cost > att[a].est)
  /\ UNCHANGED <<shard, lease, ledger, outlived>>

CallFails(a) ==
  /\ att[a].pc = "calling"
  /\ att' = [att EXCEPT ![a].pc = "failed"]
  /\ UNCHANGED <<shard, lease, ledger, histories>>

\* chargeSpent: the lease's reservation becomes the actual cost on its shard;
\* without a lease (swept) the cost goes to the tenant's lowest shard.
ChargeSpent_DropsSwept(r, cost) ==
  IF lease[r] = NoLease
    THEN shard
    ELSE [shard EXCEPT ![lease[r].shard] =
            [reserved |-> @.reserved - lease[r].reserved,
             spent |-> @.spent + cost]]
ChargeSpent_KeepsReserved(r, cost) ==
  LET s == IF lease[r] = NoLease THEN 0 ELSE lease[r].shard
  IN  [shard EXCEPT ![s].spent = @ + cost]
ChargeSpent(r, cost) ==
  IF lease[r] = NoLease
    THEN [shard EXCEPT ![0].spent = @ + cost]
    ELSE [shard EXCEPT ![lease[r].shard] =
            [reserved |-> @.reserved - lease[r].reserved,
             spent |-> @.spent + cost]]

\* Reconcile: the ledger row goes in and, only if it is new, the lease is
\* deleted and the cost charged.  A row already there ends it: nothing is
\* charged, and the lease stays where it is.
Reconcile(a) ==
  LET r == att[a].req IN
  /\ att[a].pc = "answered"
  /\ IF ledger[r] = NoRow
       THEN /\ ledger' = [ledger EXCEPT ![r] = att[a].cost]
            /\ shard' = ChargeSpent(r, att[a].cost)
            /\ lease' = [lease EXCEPT ![r] = NoLease]
       ELSE UNCHANGED <<ledger, shard, lease>>
  /\ att' = [att EXCEPT ![a] = IdleAttempt]
  /\ UNCHANGED histories

\* The same transaction, failing: logged, and the answer is still returned.
ReconcileFails(a) ==
  /\ att[a].pc = "answered"
  /\ att' = [att EXCEPT ![a] = IdleAttempt]
  /\ UNCHANGED <<shard, lease, ledger, histories>>

\* What each lease has reserved, and the leases that stand on a shard.
Reserved == [r \in Leased |-> lease[r].reserved]
On(s, rs) == {r \in rs : lease[r].shard = s}

\* Deleting the leases of a set of requests gives each shard back exactly what
\* they reserved there.
HandBack(rs) ==
  [s \in Shards |->
     [shard[s] EXCEPT !.reserved = @ - SumFunctionOnSet(Reserved, On(s, rs))]]

Drop_Keeps(rs) == lease
Drop(rs) == [r \in Requests |-> IF r \in rs THEN NoLease ELSE lease[r]]

Unledgered_Inverted(rs) == {r \in rs : lease[r] # NoLease /\ ledger[r] # NoRow}
\* Leases with a ledger row have been charged and are left alone.
Unledgered(rs) == {r \in rs : lease[r] # NoLease /\ ledger[r] = NoRow}

\* Release: the request failed, its lease is handed back at once.
Release_WithoutReserved(a) ==
  /\ att[a].pc = "failed"
  /\ lease' = Drop(Unledgered({att[a].req}))
  /\ att' = [att EXCEPT ![a] = IdleAttempt]
  /\ UNCHANGED <<shard, ledger, histories>>
Release(a) ==
  LET rs == Unledgered({att[a].req}) IN
  /\ att[a].pc = "failed"
  /\ shard' = HandBack(rs)
  /\ lease' = Drop(rs)
  /\ att' = [att EXCEPT ![a] = IdleAttempt]
  /\ UNCHANGED <<ledger, histories>>

ReleaseFails(a) ==
  /\ att[a].pc = "failed"
  /\ att' = [att EXCEPT ![a] = IdleAttempt]
  /\ UNCHANGED <<shard, lease, ledger, histories>>

-----------------------------------------------------------------------------
\* A lease's TTL runs out.  leaseTTL sizes it to outlive the request; the fixed
\* fallbackLeaseTTL, used when there is no call deadline, may not.
Expire(r) ==
  /\ lease[r] # NoLease /\ ~lease[r].expired
  /\ lease' = [lease EXCEPT ![r].expired = TRUE]
  /\ outlived' = (outlived \/ InFlight(r))
  /\ UNCHANGED <<shard, ledger, att, overran>>

\* One pass of the sweeper, a single transaction.
Victims_Fresh == Unledgered(Requests)
Victims == {r \in Unledgered(Requests) : lease[r].expired}

Sweep ==
  /\ Victims # {}
  /\ shard' = HandBack(Victims)
  /\ lease' = Drop(Victims)
  /\ UNCHANGED <<ledger, att, histories>>

\* The broker dies: every request with it.  The tables are on disk.
Crash ==
  /\ att' = [a \in Attempts |-> IdleAttempt]
  /\ UNCHANGED <<shard, lease, ledger, histories>>

AttemptStep(a) ==
  \/ ReserveWins(a) \/ ReserveConflicts(a) \/ ReserveLoses(a) \/ ReserveFails(a)
  \/ \E cost \in Costs : CallAnswers(a, cost)
  \/ CallFails(a)
  \/ Reconcile(a) \/ ReconcileFails(a)
  \/ Release(a) \/ ReleaseFails(a)

BudgetNext ==
  \/ \E a \in Attempts : AttemptStep(a)
  \/ \E a \in Attempts, r \in Requests, first \in Shards : Start(a, r, first)
  \/ \E r \in Requests : Expire(r)
  \/ Sweep
  \/ Crash

BudgetSpec == BudgetInit /\ [][BudgetNext]_budgetVars

\* Requests run to an end (every call and every statement has a deadline),
\* TTLs run out and the sweeper's ticker keeps firing.
BudgetFairness ==
  /\ \A a \in Attempts : WF_budgetVars(AttemptStep(a))
  /\ \A r \in Requests : WF_budgetVars(Expire(r))
  /\ WF_budgetVars(Sweep)

BudgetLiveSpec == BudgetSpec /\ BudgetFairness

-----------------------------------------------------------------------------
AttemptState ==
  [pc : {"idle"}]
  \cup [pc : {"reserving"}, req : Requests, est : Estimates,
        first : Shards, tried : Nat]
  \cup [pc : {"calling", "failed"}, req : Requests, est : Estimates]
  \cup [pc : {"answered"}, req : Requests, est : Estimates, cost : Costs]

LeasesOK   == lease \in [Requests -> {NoLease} \cup LeaseRow]
AttemptsOK == att \in [Attempts -> AttemptState]

\* The tables hold what their columns allow: no counter is negative.
BudgetTypeOK ==
  /\ shard \in [Shards -> [reserved : Nat, spent : Nat]]
  /\ LeasesOK
  /\ ledger \in [Requests -> {NoRow} \cup Costs]
  /\ AttemptsOK
  /\ overran \in BOOLEAN /\ outlived \in BOOLEAN

ReservedOn(s) == SumFunctionOnSet(Reserved, On(s, Leased))

\* The requests that have been charged.
Charged == {r \in Requests : ledger[r] # NoRow}

\* Nothing is reserved that no lease accounts for, whatever was reconciled,
\* released, swept, rolled back or lost in a crash (tryReserveShard's "must
\* not orphan the reserved increment").
ReservedIsLeases == \A s \in Shards : shard[s].reserved = ReservedOn(s)

\* What was spent is the sum of the ledger: no answer is charged twice, and
\* none that is in the ledger goes uncharged (chargeSpentFallback's "real cost
\* is never dropped").
SpentIsLedger ==
  SumFunctionOnSet([s \in Shards |-> shard[s].spent], Shards)
    = SumFunctionOnSet(ledger, Charged)

\* As long as estimates cover the costs and leases outlive their requests no
\* shard goes over its cap: the CAS is the only gate.
CapHeld ==
  ~overran /\ ~outlived =>
    \A s \in Shards : shard[s].reserved + shard[s].spent <= Cap

\* The books balance: what is reserved is leased, what is spent is in the
\* ledger, and the two together stay under the cap.
BooksExact == ReservedIsLeases /\ SpentIsLedger /\ CapHeld

\* A call in progress has its own reservation behind it: two requests with one
\* id are never in progress together, and nobody's release, reconcile or sweep
\* takes the lease from under the other.
CallIsCovered ==
  ~outlived =>
    \A a \in Attempts :
      att[a].pc \in {"calling", "answered", "failed"} =>
        /\ Owns(a, att[a].req)
        /\ lease[att[a].req].reserved = att[a].est

\* A lease nobody has charged is reconciled, released or swept in the end,
\* through crashes, failed statements and repeated ids.
UnchargedLeaseEnds ==
  \A r \in Requests :
    (lease[r] # NoLease) ~> (lease[r] = NoLease \/ ledger[r] # NoRow)

\* "It must be reconciled (charged) or expire and be swept" (Reservation): no
\* lease stands for ever.
LeaseEnds == \A r \in Requests : (lease[r] # NoLease) ~> (lease[r] = NoLease)
=============================================================================
