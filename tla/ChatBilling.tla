---------------------------- MODULE ChatBilling ----------------------------
(***************************************************************************)
(* What one user's chat requests may cost and how they are accounted for:  *)
(* Handler.Chat with withinBalance, admit and withinCostLimit              *)
(* (internal/ai/handler.go), and CreditAI, UpsertPlan and AssignPlan       *)
(* (internal/admin/handlers.go).                                           *)
(*                                                                         *)
(* Every request has a handler of its own; a step is one SQL statement or  *)
(* the call of the provider, and there is no transaction.  A check whose   *)
(* statement fails lets the request pass; a settlement statement that      *)
(* fails is ignored.  The rate limiter, the circuit breaker and the safety *)
(* filter only end requests early, so that not arriving, or failing at the *)
(* provider, stands for them.                                              *)
(***************************************************************************)
EXTENDS Integers, FiniteSets, Functions

CONSTANTS Requests,      \* requests of the user that can be in progress at once
          Minimums,      \* what withinBalance may ask for, by size of the body
          Costs,         \* what a call may cost, by its tokens and the prices
          MaxCost,       \* no call costs more
          Quotas,        \* what monthly_requests of the user's plan may be
          DefaultQuota,  \* monthlyQuota of the configuration, positive
          CostLimit,     \* monthlyCostLimit, positive; without a limit it is 0
          Amounts,       \* what an administrator credits
          MaxCredit,     \* bound on all credits together
          MaxMonth,      \* bound on the calendar
          MaxFaults      \* bound on failed statements and crashes

ASSUME ChatBillingAssumption ==
  /\ IsFiniteSet(Requests)
  /\ Minimums \subseteq Nat
  /\ MaxCost \in Nat /\ Costs \subseteq 0..MaxCost
  /\ Quotas \subseteq Nat /\ DefaultQuota \in Nat
  /\ CostLimit \in Nat \ {0}
  /\ Amounts \subseteq Nat \ {0}
  /\ MaxCredit \in Nat /\ MaxMonth \in Nat \ {0} /\ MaxFaults \in Nat

Months == 1..MaxMonth

VARIABLES
  month,      \* the current month (UTC)
  pc,         \* [Requests -> stage] the statement a request is at
  quota,      \* [Requests -> Nat] the plan's quota as admit read it
  owed,       \* [Requests -> Nat] the cost of the answered call
  due,        \* [Requests -> Months] the month the answered call is booked in
  planQuota,  \* monthly_requests of the user's plan
  count,      \* [Months -> Nat] ai_policies.request_count, 0 without a row
  cost,       \* [Months -> Nat] ai_policies.cost_micros
  wallet,     \* whether the user has a row in ai_wallets
  balance,    \* ai_wallets.balance_micros, 0 without a row
  usage,      \* the sum of ai_usage.cost_micros
  used,       \* the sum of the 'usage' entries of ai_ledger, sign reversed
  credited,   \* the sum of the 'credit' entries of ai_ledger
  crediting,  \* the credit in the wallet and not yet in the ledger, 0 if none
  granted,    \* history: all credits the wallet got
  bypassed,   \* history: checks passed because their statement failed
  faults      \* failed statements and crashes so far

policy == <<count, cost>>
purse  == <<wallet, balance>>
books  == <<usage, used, credited>>
admin  == <<planQuota, crediting, granted>>
request == <<pc, quota, owed, due>>
vars == <<month, pc, quota, owed, due, planQuota, count, cost, wallet, balance,
          usage, used, credited, crediting, granted, bypassed, faults>>

Settlement == {"usage", "wallet", "charge", "ledger", "policy"}
Stages == {"idle", "balance", "plan", "admit", "limit", "provider"} \cup Settlement

TypeOK ==
  /\ month \in Months
  /\ pc \in [Requests -> Stages]
  /\ quota \in [Requests -> Nat]
  /\ owed \in [Requests -> 0..MaxCost]
  /\ due \in [Requests -> Months]
  /\ planQuota \in Nat
  /\ count \in [Months -> Nat]
  /\ cost \in [Months -> Nat]
  /\ wallet \in BOOLEAN
  /\ balance \in Int
  /\ usage \in Nat /\ used \in Nat /\ credited \in Nat
  /\ crediting \in Nat /\ granted \in Nat
  /\ bypassed \in Nat
  /\ faults \in 0..MaxFaults

Init ==
  /\ month = 1
  /\ pc = [r \in Requests |-> "idle"]
  /\ quota = [r \in Requests |-> 0]
  /\ owed = [r \in Requests |-> 0]
  /\ due = [r \in Requests |-> 1]
  /\ planQuota \in Quotas
  /\ count = [m \in Months |-> 0]
  /\ cost = [m \in Months |-> 0]
  /\ wallet = FALSE
  /\ balance = 0
  /\ usage = 0 /\ used = 0 /\ credited = 0
  /\ crediting = 0 /\ granted = 0
  /\ bypassed = 0
  /\ faults = 0

Goto(r, stage) == pc' = [pc EXCEPT ![r] = stage]
Fault == faults < MaxFaults /\ faults' = faults + 1

-----------------------------------------------------------------------------
(* The checks before the call.                                             *)

Arrive(r) ==
  /\ pc[r] = "idle"
  /\ Goto(r, "balance")
  /\ UNCHANGED <<month, quota, owed, due, policy, purse, books, admin, bypassed, faults>>

CoversAnything(minimum) == TRUE
CoversMinimum(minimum) == ~wallet \/ balance >= minimum

\* withinBalance: a user without a wallet passes.
CheckBalance(r) ==
  /\ pc[r] = "balance"
  /\ \E minimum \in Minimums : Goto(r, IF CoversMinimum(minimum) THEN "plan" ELSE "idle")
  /\ UNCHANGED <<month, quota, owed, due, policy, purse, books, admin, bypassed, faults>>

\* withinBalance and withinCostLimit: the request passes if the SELECT fails.
CheckFails(r) ==
  /\ \/ pc[r] = "balance" /\ Goto(r, "plan")
     \/ pc[r] = "limit" /\ Goto(r, "provider")
  /\ Fault
  /\ bypassed' = bypassed + 1
  /\ UNCHANGED <<month, quota, owed, due, policy, purse, books, admin>>

\* admit: the plan's quota is read by a statement of its own; if that fails
\* the configured quota stands.
ReadQuota(r) ==
  /\ pc[r] = "plan"
  /\ Goto(r, "admit")
  /\ \/ quota' = [quota EXCEPT ![r] = planQuota] /\ UNCHANGED faults
     \/ quota' = [quota EXCEPT ![r] = DefaultQuota] /\ Fault
  /\ UNCHANGED <<month, owed, due, policy, purse, books, admin, bypassed>>

HasRoomOffByOne(r) == count[month] <= quota[r]

\* INSERT ... ON CONFLICT DO UPDATE ... WHERE request_count < quota: the month's
\* first request inserts the row whatever the quota.
HasRoom(r) == count[month] = 0 \/ count[month] < quota[r]

Admit(r) ==
  /\ pc[r] = "admit"
  /\ HasRoom(r)
  /\ count' = [count EXCEPT ![month] = @ + 1]
  /\ Goto(r, "limit")
  /\ UNCHANGED <<month, quota, owed, due, cost, purse, books, admin, bypassed, faults>>

Deny(r) ==
  /\ pc[r] = "admit"
  /\ ~HasRoom(r)
  /\ Goto(r, "idle")
  /\ UNCHANGED <<month, quota, owed, due, policy, purse, books, admin, bypassed, faults>>

\* admit: the upsert fails, committed or not, and the request is refused.
AdmitFails(r) ==
  /\ pc[r] = "admit"
  /\ Fault
  /\ \/ HasRoom(r) /\ count' = [count EXCEPT ![month] = @ + 1]
     \/ UNCHANGED count
  /\ Goto(r, "idle")
  /\ UNCHANGED <<month, quota, owed, due, cost, purse, books, admin, bypassed>>

UnderAnyLimit == TRUE
UnderLimit == cost[month] < CostLimit

\* withinCostLimit: without a row for the month nothing was spent.
CheckCost(r) ==
  /\ pc[r] = "limit"
  /\ Goto(r, IF UnderLimit THEN "provider" ELSE "idle")
  /\ UNCHANGED <<month, quota, owed, due, policy, purse, books, admin, bypassed, faults>>
-----------------------------------------------------------------------------
(* The call, and its settlement once it is answered.                       *)

\* The provider answers; the month and the cost are fixed before the first
\* settlement statement.
Answered(r) ==
  /\ pc[r] = "provider"
  /\ \E c \in Costs : owed' = [owed EXCEPT ![r] = c]
  /\ due' = [due EXCEPT ![r] = month]
  /\ Goto(r, "usage")
  /\ UNCHANGED <<month, quota, policy, purse, books, admin, bypassed, faults>>

\* All three attempts fail: 502, and the admission is not given back.
Unanswered(r) ==
  /\ pc[r] = "provider"
  /\ Goto(r, "idle")
  /\ UNCHANGED <<month, quota, owed, due, policy, purse, books, admin, bypassed, faults>>

NextStageWithoutWallet(r) ==
  CASE pc[r] = "usage"  -> IF owed[r] > 0 THEN "charge" ELSE "policy"
    [] pc[r] = "charge" -> "ledger"
    [] pc[r] = "ledger" -> "policy"
    [] OTHER            -> "idle"

\* The statement after the one at a stage; the wallet and the ledger are left
\* alone if the call cost nothing.
NextStage(r) ==
  CASE pc[r] = "usage"  -> IF owed[r] > 0 THEN "wallet" ELSE "policy"
    [] pc[r] = "wallet" -> "charge"
    [] pc[r] = "charge" -> "ledger"
    [] pc[r] = "ledger" -> "policy"
    [] OTHER            -> "idle"

InsertUsage(r) ==
  /\ pc[r] = "usage"
  /\ usage' = usage + owed[r]
  /\ Goto(r, NextStage(r))
  /\ UNCHANGED <<month, quota, owed, due, policy, purse, used, credited, admin,
                 bypassed, faults>>

OpenWallet(r) ==
  /\ pc[r] = "wallet"
  /\ wallet' = TRUE
  /\ Goto(r, NextStage(r))
  /\ UNCHANGED <<month, quota, owed, due, policy, balance, books, admin, bypassed, faults>>

AfterCharge(c) == IF wallet THEN balance - c ELSE balance

Charge(r) ==
  /\ pc[r] = "charge"
  /\ balance' = AfterCharge(owed[r])
  /\ Goto(r, NextStage(r))
  /\ UNCHANGED <<month, quota, owed, due, policy, wallet, books, admin, bypassed, faults>>

PostUsage(r) ==
  /\ pc[r] = "ledger"
  /\ used' = used + owed[r]
  /\ Goto(r, NextStage(r))
  /\ UNCHANGED <<month, quota, owed, due, policy, purse, usage, credited, admin,
                 bypassed, faults>>

Booked(m, c) == cost' = [cost EXCEPT ![m] = IF count[m] = 0 THEN @ ELSE @ + c]

\* The UPDATE of ai_policies finds no row in a month without an admission.
AddToPolicy(r) ==
  /\ pc[r] = "policy"
  /\ Booked(due[r], owed[r])
  /\ Goto(r, NextStage(r))
  /\ UNCHANGED <<month, quota, owed, due, count, purse, books, admin, bypassed, faults>>

\* A settlement statement fails; its error is ignored.
SettlementFails(r) ==
  /\ pc[r] \in Settlement
  /\ Fault
  /\ Goto(r, NextStage(r))
  /\ UNCHANGED <<month, quota, owed, due, policy, purse, books, admin, bypassed>>

-----------------------------------------------------------------------------
(* The administrators, the calendar and the server.                        *)

\* CreditAI: the wallet first ...
CreditWallet(a) ==
  /\ crediting = 0
  /\ granted + a <= MaxCredit
  /\ wallet' = TRUE
  /\ balance' = balance + a
  /\ crediting' = a
  /\ granted' = granted + a
  /\ UNCHANGED <<month, request, planQuota, policy, books, bypassed, faults>>

\* ... and the ledger by a second statement, which may fail.
PostCredit ==
  /\ crediting > 0
  /\ crediting' = 0
  /\ \/ credited' = credited + crediting /\ UNCHANGED faults
     \/ Fault /\ UNCHANGED credited
  /\ UNCHANGED <<month, request, planQuota, granted, policy, purse, usage, used, bypassed>>

\* UpsertPlan and AssignPlan change the quota that applies to the user.
SetPlan(q) ==
  /\ planQuota' = q
  /\ UNCHANGED <<month, request, crediting, granted, policy, purse, books, bypassed, faults>>

NextMonth ==
  /\ month < MaxMonth
  /\ month' = month + 1
  /\ UNCHANGED <<request, admin, policy, purse, books, bypassed, faults>>

\* The server stops: every handler is gone between two of its statements.
Crash ==
  /\ Fault
  /\ pc' = [r \in Requests |-> "idle"]
  /\ crediting' = 0
  /\ UNCHANGED <<month, quota, owed, due, planQuota, granted, policy, purse, books, bypassed>>

-----------------------------------------------------------------------------
RequestStep(r) ==
  \/ Arrive(r)
  \/ CheckBalance(r) \/ CheckFails(r)
  \/ ReadQuota(r) \/ Admit(r) \/ Deny(r) \/ AdmitFails(r)
  \/ CheckCost(r)
  \/ Answered(r) \/ Unanswered(r)
  \/ InsertUsage(r) \/ OpenWallet(r) \/ Charge(r) \/ PostUsage(r) \/ AddToPolicy(r)
  \/ SettlementFails(r)

Next ==
  \/ \E r \in Requests : RequestStep(r)
  \/ \E a \in Amounts : CreditWallet(a)
  \/ PostCredit
  \/ \E q \in Quotas : SetPlan(q)
  \/ NextMonth
  \/ Crash

Spec == Init /\ [][Next]_vars
-----------------------------------------------------------------------------
(* Properties.                                                             *)

Idle == crediting = 0 /\ \A r \in Requests : pc[r] = "idle"

\* The balance is read before the call and charged after it, so that requests
\* overtake each other's charge; still no wallet falls further below zero than
\* one call for each request in progress at once, and one for each check that
\* could not be made.
OverdraftBounded == balance >= -(MaxCost * (Cardinality(Requests) + bypassed))

\* So for the monthly cost limit, in the month of the check and in the next
\* one when the calls are answered after midnight: what is booked exceeds the
\* limit by less than that.
CostOvershootBounded ==
  \A m \in Months : cost[m] < CostLimit + MaxCost * (Cardinality(Requests) + bypassed)

PossibleQuotas == Quotas \cup (IF faults = 0 THEN {} ELSE {DefaultQuota})

\* However requests, changes of plan and months interleave, no month counts
\* more admissions than some quota of the plan allowed; a quota of zero admits
\* one, and the configured quota applies once the plan could not be read.
QuotaRespected ==
  \A m \in Months : \E q \in PossibleQuotas \cup {1} : count[m] <= q

\* What the months' rows account for together.
Accounted == SumFunctionOnSet(cost, Months)

\* When nothing failed and nothing is in progress the books agree: wallet and
\* ledger, ledger and usage, and usage and the months' rows, except that the
\* calls under way at a month's end, one for each slot, may be in no row.
BooksAgree ==
  Idle /\ faults = 0 =>
    /\ balance = credited - used
    /\ usage = used
    /\ usage - Accounted \in 0..MaxCost * Cardinality(Requests) * (month - 1)

-----------------------------------------------------------------------------
(* What makes the bounds inductive: the requests that passed a check still  *)
(* count against the bound until they have been charged or booked.         *)

\* How far a set of requests is from using up all slots and bypasses.
Exposure(S) == Cardinality(S) - Cardinality(Requests) - bypassed

UnchargedStages == {"plan", "admit", "limit", "provider", "usage", "wallet", "charge"}
Uncharged == {r \in Requests : pc[r] \in UnchargedStages}

OverdraftInv ==
  /\ ~wallet => balance = 0
  /\ balance >= MaxCost * Exposure(Uncharged)

\* The requests that may still be booked in month m.
Unbooked(m) ==
  {r \in Requests : \/ pc[r] = "provider" /\ month <= m
                    \/ pc[r] \in Settlement /\ due[r] = m}

CostInv ==
  /\ \A r \in Requests : pc[r] \in Settlement => due[r] <= month
  /\ \A m \in Months :
       /\ m > month => cost[m] = 0
       /\ cost[m] + MaxCost * Exposure(Unbooked(m)) < CostLimit

QuotaInv ==
  /\ planQuota \in Quotas
  /\ \A r \in Requests : pc[r] = "admit" => quota[r] \in PossibleQuotas
  /\ QuotaRespected

\* What the wallet was credited with, in the ledger or not yet.
Credits == credited + crediting

\* What the answered calls at some stages of their settlement cost.
Owing(stages) ==
  SumFunctionOnSet([r \in Requests |-> IF pc[r] \in stages THEN owed[r] ELSE 0], Requests)

\* What was used and is, or will be, in no row.
Unaccounted == usage - Accounted - Owing({"wallet", "charge", "ledger", "policy"})

\* The requests admitted in an earlier month that would find no row.
Rowless ==
  {r \in Requests : \/ pc[r] \in {"limit", "provider"} /\ count[month] = 0
                    \/ pc[r] \in Settlement /\ count[due[r]] = 0}

\* Calls got lost at most for the requests that were under way at some month's
\* end, those aside that may still find no row.
LostBounded ==
  Unaccounted + MaxCost * Cardinality(Rowless)
    <= MaxCost * (Cardinality(Requests) * (month - 1))

\* The books differ by what is being settled.
Balanced ==
  /\ \A m \in Months : m > month => count[m] = 0
  /\ \A r \in Requests : pc[r] = "charge" => wallet
  /\ balance = Credits - used - Owing({"ledger"})
  /\ usage = used + Owing({"wallet", "charge", "ledger"})
  /\ Unaccounted >= 0
  /\ LostBounded

BooksInv == faults = 0 => Balanced
=============================================================================
