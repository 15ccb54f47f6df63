------------------------- MODULE ChatBillingProofs -------------------------
(***************************************************************************)
(* Proofs about what stands between a user's chat requests and the AI      *)
(* provider: about ChatBilling, for any finite number of concurrent        *)
(* requests, any costs, quotas, months and faults, and about Gateway, for  *)
(* any requests, limits, times and errors.  The two share no variable.     *)
(***************************************************************************)
EXTENDS ChatBilling, Gateway, FoldTheorems

(***************************************************************************)
(* Types.                                                                  *)
(***************************************************************************)

\* Every stage of a handler is followed by a stage.
LEMMA NextStageTyped ==
  ASSUME NEW r \in Requests
  PROVE  NextStage(r) \in Stages
BY DEF NextStage, Stages, Settlement

\* Every step keeps the state well typed.
LEMMA TypeStep == TypeOK /\ [Next]_vars => TypeOK'
<1> SUFFICES ASSUME TypeOK, [Next]_vars PROVE TypeOK'
  OBVIOUS
<1> USE ChatBillingAssumption DEF TypeOK, Goto, policy, purse, books, admin, request
<1> Stages = {"idle", "balance", "plan", "admit", "limit", "provider",
              "usage", "wallet", "charge", "ledger", "policy"}
  BY DEF Stages, Settlement
<1>1. CASE UNCHANGED vars
  BY <1>1 DEF vars
<1>2. ASSUME NEW r \in Requests, Arrive(r) \/ CheckBalance(r) \/ Unanswered(r) PROVE TypeOK'
  BY <1>2 DEF Arrive, CheckBalance, Unanswered
<1>3. ASSUME NEW r \in Requests, CheckFails(r) PROVE TypeOK'
  BY <1>3 DEF CheckFails, Fault
<1>4. ASSUME NEW r \in Requests, ReadQuota(r) PROVE TypeOK'
  BY <1>4 DEF ReadQuota, Fault
<1>5. ASSUME NEW r \in Requests, Admit(r) \/ Deny(r) \/ AdmitFails(r) PROVE TypeOK'
  <2>1. count' \in [Months -> Nat]
    BY <1>5 DEF Admit, Deny, AdmitFails
  <2>2. pc' \in [Requests -> Stages]
    BY <1>5 DEF Admit, Deny, AdmitFails
  <2>3. faults' \in 0..MaxFaults
    BY <1>5 DEF Admit, Deny, AdmitFails, Fault
  <2> QED BY <1>5, <2>1, <2>2, <2>3 DEF Admit, Deny, AdmitFails
<1>7. ASSUME NEW r \in Requests, CheckCost(r) PROVE TypeOK'
  BY <1>7 DEF CheckCost
<1>8. ASSUME NEW r \in Requests, Answered(r) PROVE TypeOK'
  BY <1>8 DEF Answered
<1>6. ASSUME NEW r \in Requests, OpenWallet(r) PROVE TypeOK'
  BY <1>6, NextStageTyped DEF OpenWallet
<1>9. ASSUME NEW r \in Requests, InsertUsage(r) \/ PostUsage(r) PROVE TypeOK'
  <2>1. usage' \in Nat /\ used' \in Nat
    BY <1>9 DEF InsertUsage, PostUsage
  <2>2. pc' \in [Requests -> Stages]
    BY <1>9, NextStageTyped DEF InsertUsage, PostUsage
  <2> QED BY <1>9, <2>1, <2>2 DEF InsertUsage, PostUsage
<1>10. ASSUME NEW r \in Requests, Charge(r) PROVE TypeOK'
  BY <1>10, NextStageTyped DEF Charge, AfterCharge
<1>11. ASSUME NEW r \in Requests, AddToPolicy(r) PROVE TypeOK'
  BY <1>11, NextStageTyped DEF AddToPolicy, Booked
<1>12. ASSUME NEW r \in Requests, SettlementFails(r) PROVE TypeOK'
  BY <1>12, NextStageTyped DEF SettlementFails, Fault
<1>13. ASSUME NEW a \in Amounts, CreditWallet(a) PROVE TypeOK'
  BY <1>13 DEF CreditWallet
<1>14. CASE PostCredit
  BY <1>14 DEF PostCredit, Fault
<1>15. ASSUME NEW q \in Quotas, SetPlan(q) PROVE TypeOK'
  BY <1>15 DEF SetPlan
<1>16. CASE NextMonth
  BY <1>16 DEF NextMonth, Months
<1>17. CASE Crash
  BY <1>17 DEF Crash, Fault
<1> QED
  BY <1>1, <1>2, <1>3, <1>4, <1>5, <1>6, <1>7, <1>8, <1>9, <1>10, <1>11, <1>12,
     <1>13, <1>14, <1>15, <1>16, <1>17
     DEF Next, RequestStep

\* Types: counters and costs stay natural, only the balance can be negative.
THEOREM TypeInvariance == Spec => []TypeOK
<1>1. Init => TypeOK
  <2> SUFFICES ASSUME Init PROVE TypeOK
    OBVIOUS
  <2>1. 1 \in Months /\ 0 \in 0..MaxCost /\ 0 \in 0..MaxFaults /\ "idle" \in Stages
    BY ChatBillingAssumption DEF Months, Stages
  <2>2. planQuota \in Nat
    BY ChatBillingAssumption DEF Init
  <2>3. /\ pc \in [Requests -> Stages]
        /\ quota \in [Requests -> Nat] /\ owed \in [Requests -> 0..MaxCost]
        /\ due \in [Requests -> Months]
    BY <2>1 DEF Init
  <2>4. /\ count \in [Months -> Nat] /\ cost \in [Months -> Nat]
        /\ wallet \in BOOLEAN
    BY DEF Init
  <2>5. /\ month \in Months /\ balance \in Int /\ usage \in Nat /\ used \in Nat
        /\ credited \in Nat /\ crediting \in Nat /\ granted \in Nat
        /\ bypassed \in Nat /\ faults \in 0..MaxFaults
    BY <2>1 DEF Init
  <2> QED BY <2>2, <2>3, <2>4, <2>5 DEF TypeOK
<1> QED BY <1>1, TypeStep, PTL DEF Spec

(***************************************************************************)
(* Arithmetic and cardinalities.                                           *)
(***************************************************************************)

\* A larger exposure allows no smaller deficit: scaling by the cost of a call.
LEMMA ScaleMonotone ==
  ASSUME NEW c \in Nat, NEW a \in Int, NEW b \in Int, a <= b
  PROVE  c * a <= c * b
<1>1. b - a \in Nat
  OBVIOUS
<1>2. c * (b - a) >= 0
  BY <1>1
<1>3. c * (b - a) = c * b - c * a
  OBVIOUS
<1> QED BY <1>2, <1>3

\* One unit of exposure is worth the cost of one call.
LEMMA ScaleStep ==
  ASSUME NEW c \in Nat, NEW a \in Int, NEW b \in Int, a <= b - 1
  PROVE  c * a <= c * b - c
<1>1. c * a <= c * (b - 1)
  BY ScaleMonotone
<1>2. c * (b - 1) = c * b - c
  OBVIOUS
<1> QED BY <1>1, <1>2

\* Sets of requests are finite, and a member more or less counts for one.
LEMMA SetsOfRequests ==
  ASSUME NEW S \in SUBSET Requests, NEW T \in SUBSET Requests, NEW r
  PROVE  /\ Cardinality(S) \in Nat /\ Cardinality(Requests) \in Nat
         /\ Cardinality(S) <= Cardinality(Requests)
         /\ T \subseteq S => Cardinality(T) <= Cardinality(S)
         /\ T \subseteq S \cup {r} => Cardinality(T) <= Cardinality(S) + 1
         /\ r \in S /\ T \subseteq S \ {r} => Cardinality(T) <= Cardinality(S) - 1
<1>1. IsFiniteSet(Requests) /\ IsFiniteSet(S)
  BY ChatBillingAssumption, FS_Subset
<1>2. Cardinality(S) \in Nat /\ Cardinality(Requests) \in Nat
  BY <1>1, FS_CardinalityType
<1>3. Cardinality(S) <= Cardinality(Requests)
  BY <1>1, FS_Subset
<1>4. T \subseteq S => Cardinality(T) <= Cardinality(S)
  BY <1>1, FS_Subset
<1>5. ASSUME T \subseteq S \cup {r} PROVE Cardinality(T) <= Cardinality(S) + 1
  <2>1. /\ IsFiniteSet(S \cup {r})
        /\ Cardinality(S \cup {r}) = IF r \in S THEN Cardinality(S) ELSE Cardinality(S) + 1
    BY <1>1, FS_AddElement
  <2>2. Cardinality(T) \in Nat /\ Cardinality(S \cup {r}) \in Nat
    BY <1>1, <2>1, FS_Subset, FS_CardinalityType
  <2>3. Cardinality(T) <= Cardinality(S \cup {r})
    BY <1>5, <2>1, FS_Subset
  <2> QED BY <1>2, <2>1, <2>2, <2>3
<1>6. ASSUME r \in S, T \subseteq S \ {r} PROVE Cardinality(T) <= Cardinality(S) - 1
  <2>1. IsFiniteSet(S \ {r}) /\ Cardinality(S \ {r}) = Cardinality(S) - 1
    BY <1>1, <1>6, FS_RemoveElement
  <2>2. Cardinality(T) <= Cardinality(S \ {r})
    BY <1>6, <2>1, FS_Subset
  <2> QED BY <2>1, <2>2
<1> QED BY <1>2, <1>3, <1>4, <1>5, <1>6

(***************************************************************************)
(* The wallet: how far below zero it can get.                              *)
(***************************************************************************)

\* The balance may fall by one call for every unit of exposure that goes.
LEMMA OverdraftKept ==
  ASSUME TypeOK, TypeOK', OverdraftInv,
         \/ /\ Exposure(Uncharged)' <= Exposure(Uncharged)
            /\ balance' >= balance
         \/ /\ Exposure(Uncharged)' <= Exposure(Uncharged) - 1
            /\ balance' >= balance - MaxCost
         \/ balance' >= 0 /\ bypassed' >= 0
  PROVE  balance' >= MaxCost * Exposure(Uncharged)'
<1>1. Uncharged \in SUBSET Requests /\ Uncharged' \in SUBSET Requests
  BY DEF Uncharged
<1>2. /\ Cardinality(Uncharged) \in Nat /\ Cardinality(Requests) \in Nat
      /\ Cardinality(Uncharged)' \in Nat
      /\ Cardinality(Uncharged)' <= Cardinality(Requests)
  BY <1>1, SetsOfRequests
<1>3. Exposure(Uncharged) \in Int /\ Exposure(Uncharged)' \in Int
  BY <1>2 DEF Exposure, TypeOK
<1>4. MaxCost \in Nat /\ balance \in Int /\ balance' \in Int
  BY ChatBillingAssumption DEF TypeOK
<1>5. balance >= MaxCost * Exposure(Uncharged)
  BY DEF OverdraftInv
<1>6. MaxCost * Exposure(Uncharged) \in Int /\ MaxCost * Exposure(Uncharged)' \in Int
  BY <1>3, <1>4
<1>7. CASE Exposure(Uncharged)' <= Exposure(Uncharged) /\ balance' >= balance
  <2>1. MaxCost * Exposure(Uncharged)' <= MaxCost * Exposure(Uncharged)
    BY <1>3, <1>4, <1>7, ScaleMonotone
  <2> QED BY <1>4, <1>5, <1>6, <1>7, <2>1
<1>8. CASE /\ Exposure(Uncharged)' <= Exposure(Uncharged) - 1
           /\ balance' >= balance - MaxCost
  <2>1. MaxCost * Exposure(Uncharged)' <= MaxCost * Exposure(Uncharged) - MaxCost
    BY <1>3, <1>4, <1>8, ScaleStep
  <2> QED BY <1>4, <1>5, <1>6, <1>8, <2>1
<1>9. CASE balance' >= 0 /\ bypassed' >= 0
  <2>1. Exposure(Uncharged)' <= 0
    BY <1>2, <1>9 DEF Exposure, TypeOK
  <2>2. MaxCost * Exposure(Uncharged)' <= MaxCost * 0
    BY <1>3, <1>4, <2>1, ScaleMonotone
  <2> QED BY <1>4, <1>6, <1>9, <2>2
<1> QED BY <1>7, <1>8, <1>9

\* Exposure does not grow when the set shrinks and nothing new is bypassed.
LEMMA ExposureKept ==
  ASSUME TypeOK, TypeOK', Uncharged' \subseteq Uncharged, bypassed' = bypassed
  PROVE  Exposure(Uncharged)' <= Exposure(Uncharged)
<1>1. Uncharged \in SUBSET Requests /\ Uncharged' \in SUBSET Requests
  BY DEF Uncharged
<1>2. /\ Cardinality(Uncharged) \in Nat /\ Cardinality(Requests) \in Nat
      /\ Cardinality(Uncharged)' \in Nat
      /\ Cardinality(Uncharged)' <= Cardinality(Uncharged)
  BY <1>1, SetsOfRequests
<1> QED BY <1>2 DEF Exposure, TypeOK

\* A request that moves on joins the uncharged ones only from among them.
LEMMA MoveKeepsUncharged ==
  ASSUME TypeOK, NEW r \in Requests, NEW stage, Goto(r, stage),
         stage \in UnchargedStages => pc[r] \in UnchargedStages
  PROVE  Uncharged' \subseteq Uncharged
BY DEF TypeOK, Goto, Uncharged

\* Every step keeps the bound on the balance.
LEMMA OverdraftStep ==
  ASSUME TypeOK, OverdraftInv, [Next]_vars
  PROVE  OverdraftInv'
<1> TypeOK'
  BY TypeStep
<1> USE DEF purse
<1>1. ASSUME UNCHANGED bypassed, wallet => wallet', balance' >= balance,
             ~wallet' => balance' = balance, Uncharged' \subseteq Uncharged
      PROVE  OverdraftInv'
  <2>1. balance' >= MaxCost * Exposure(Uncharged)'
    BY <1>1, ExposureKept, OverdraftKept
  <2> QED BY <1>1, <2>1 DEF OverdraftInv
<1>2. ASSUME UNCHANGED <<wallet, balance, bypassed>>, Uncharged' \subseteq Uncharged
      PROVE  OverdraftInv'
  BY <1>1, <1>2 DEF TypeOK
<1>3. CASE UNCHANGED vars
  BY <1>2, <1>3 DEF vars, Uncharged
<1>4. ASSUME NEW r \in Requests, NEW stage, Goto(r, stage), UNCHANGED <<purse, bypassed>>,
             stage \in UnchargedStages => pc[r] \in UnchargedStages
      PROVE  OverdraftInv'
  BY <1>2, <1>4, MoveKeepsUncharged
<1>5. ASSUME NEW r \in Requests, Arrive(r) \/ Deny(r) \/ AdmitFails(r) \/ Unanswered(r)
      PROVE  OverdraftInv'
  BY <1>4, <1>5 DEF Arrive, Deny, AdmitFails, Unanswered, UnchargedStages
<1>6. ASSUME NEW r \in Requests, CheckBalance(r) PROVE OverdraftInv'
  <2>1. CASE Goto(r, "idle")
    BY <1>4, <1>6, <2>1 DEF CheckBalance, UnchargedStages
  <2>2. CASE \E minimum \in Minimums : CoversMinimum(minimum)
    <3>1. balance >= 0
      BY <2>2, ChatBillingAssumption DEF CoversMinimum, OverdraftInv, TypeOK
    <3>2. UNCHANGED <<wallet, balance, bypassed>> /\ bypassed \in Nat
      BY <1>6 DEF CheckBalance, TypeOK
    <3>3. balance' >= 0 /\ bypassed' >= 0
      BY <3>1, <3>2
    <3>4. balance' >= MaxCost * Exposure(Uncharged)'
      BY <3>3, OverdraftKept
    <3> QED BY <3>2, <3>4 DEF OverdraftInv
  <2> QED BY <1>6, <2>1, <2>2 DEF CheckBalance
<1>7. ASSUME NEW r \in Requests, CheckFails(r) PROVE OverdraftInv'
  <2>1. Uncharged \in SUBSET Requests /\ Uncharged' \in SUBSET Requests
    BY DEF Uncharged
  <2>2. Uncharged' \subseteq Uncharged \cup {r}
    BY <1>7 DEF CheckFails, Goto, Uncharged, TypeOK
  <2>3. /\ Cardinality(Uncharged) \in Nat /\ Cardinality(Requests) \in Nat
        /\ Cardinality(Uncharged)' \in Nat
        /\ Cardinality(Uncharged)' <= Cardinality(Uncharged) + 1
    BY <2>1, <2>2, SetsOfRequests
  <2>4. bypassed' = bypassed + 1 /\ UNCHANGED <<wallet, balance>>
    BY <1>7 DEF CheckFails
  <2>5. Exposure(Uncharged)' <= Exposure(Uncharged) /\ balance' >= balance
    BY <2>3, <2>4 DEF Exposure, TypeOK
  <2> QED BY <2>4, <2>5, OverdraftKept DEF OverdraftInv
<1>8. ASSUME NEW r \in Requests,
             ReadQuota(r) \/ Admit(r) \/ CheckCost(r) \/ Answered(r)
      PROVE  OverdraftInv'
  BY <1>4, <1>8 DEF ReadQuota, Admit, CheckCost, Answered, UnchargedStages
<1>9. ASSUME NEW r \in Requests,
             InsertUsage(r) \/ PostUsage(r) \/ AddToPolicy(r) \/ SettlementFails(r)
      PROVE  OverdraftInv'
  <2>1. /\ Goto(r, NextStage(r)) /\ UNCHANGED <<purse, bypassed>>
        /\ pc[r] \in Settlement
    BY <1>9 DEF InsertUsage, PostUsage, AddToPolicy, SettlementFails, Settlement
  <2>2. NextStage(r) \in UnchargedStages => pc[r] \in UnchargedStages
    BY <2>1 DEF NextStage, UnchargedStages, Settlement
  <2> QED BY <1>4, <2>1, <2>2
<1>10. ASSUME NEW r \in Requests, OpenWallet(r) PROVE OverdraftInv'
  <2>1. Goto(r, "charge") /\ pc[r] = "wallet"
    BY <1>10 DEF OpenWallet, NextStage
  <2>2. Uncharged' \subseteq Uncharged
    BY <2>1, MoveKeepsUncharged DEF UnchargedStages
  <2> QED BY <1>1, <1>10, <2>2 DEF OpenWallet, TypeOK
<1>11. ASSUME NEW r \in Requests, Charge(r) PROVE OverdraftInv'
  <2>1. Uncharged \in SUBSET Requests /\ Uncharged' \in SUBSET Requests
    BY DEF Uncharged
  <2>2. r \in Uncharged /\ Uncharged' \subseteq Uncharged \ {r}
    BY <1>11 DEF Charge, Goto, NextStage, Uncharged, UnchargedStages, TypeOK
  <2>3. /\ Cardinality(Uncharged) \in Nat /\ Cardinality(Requests) \in Nat
        /\ Cardinality(Uncharged)' \in Nat
        /\ Cardinality(Uncharged)' <= Cardinality(Uncharged) - 1
    BY <2>1, <2>2, SetsOfRequests
  <2>4. bypassed' = bypassed /\ wallet' = wallet /\ balance' = AfterCharge(owed[r])
    BY <1>11 DEF Charge
  <2>5. owed[r] <= MaxCost /\ owed[r] \in Nat /\ MaxCost \in Nat /\ balance \in Int
    BY ChatBillingAssumption DEF TypeOK
  <2>6. balance' >= balance - MaxCost
    BY <2>4, <2>5 DEF AfterCharge
  <2>7. Exposure(Uncharged)' <= Exposure(Uncharged) - 1
    BY <2>3, <2>4 DEF Exposure, TypeOK
  <2>8. balance' >= MaxCost * Exposure(Uncharged)'
    BY <2>6, <2>7, OverdraftKept
  <2>9. ~wallet' => balance' = 0
    BY <2>4 DEF AfterCharge, OverdraftInv
  <2> QED BY <2>8, <2>9 DEF OverdraftInv
<1>12. ASSUME NEW a \in Amounts, CreditWallet(a) PROVE OverdraftInv'
  <2>1. Uncharged' \subseteq Uncharged
    BY <1>12 DEF CreditWallet, request, Uncharged
  <2>2. a \in Nat /\ balance \in Int
    BY ChatBillingAssumption DEF TypeOK
  <2>3. wallet' /\ balance' >= balance /\ bypassed' = bypassed
    BY <1>12, <2>2 DEF CreditWallet
  <2> QED BY <1>1, <2>1, <2>3
<1>13. CASE PostCredit \/ NextMonth \/ \E q \in Quotas : SetPlan(q)
  BY <1>2, <1>13 DEF PostCredit, NextMonth, SetPlan, request, Uncharged
<1>14. CASE Crash
  BY <1>2, <1>14 DEF Crash, Uncharged, UnchargedStages
<1> QED
  BY <1>3, <1>5, <1>6, <1>7, <1>8, <1>9, <1>10, <1>11, <1>12, <1>13, <1>14
     DEF Next, RequestStep

\* The wallet never falls further below zero than one call per request that
\* can be in progress at once, and one per check that could not be made.
THEOREM Overdraft == Spec => []OverdraftBounded
<1>1. Init => OverdraftInv
  <2> SUFFICES ASSUME Init PROVE OverdraftInv
    OBVIOUS
  <2>1. Uncharged = {} /\ balance = 0 /\ bypassed = 0
    BY DEF Init, Uncharged, UnchargedStages
  <2>2. Cardinality(Requests) \in Nat /\ Cardinality({}) = 0
    BY ChatBillingAssumption, FS_CardinalityType, FS_EmptySet
  <2>3. Exposure({}) \in Int /\ Exposure({}) <= 0
    BY <2>1, <2>2 DEF Exposure
  <2>4. MaxCost * Exposure({}) <= MaxCost * 0
    BY <2>3, ChatBillingAssumption, ScaleMonotone
  <2>5. MaxCost * 0 = 0 /\ MaxCost * Exposure({}) \in Int
    BY <2>3, ChatBillingAssumption
  <2> QED BY <2>1, <2>4, <2>5 DEF OverdraftInv
<1>2. TypeOK /\ OverdraftInv => OverdraftBounded
  <2> SUFFICES ASSUME TypeOK, OverdraftInv PROVE OverdraftBounded
    OBVIOUS
  <2> DEFINE N == Cardinality(Requests)
  <2>1. Uncharged \in SUBSET Requests
    BY DEF Uncharged
  <2>2. /\ Cardinality(Uncharged) \in Nat /\ N \in Nat /\ bypassed \in Nat
        /\ MaxCost \in Nat /\ balance \in Int
    BY <2>1, SetsOfRequests, ChatBillingAssumption DEF TypeOK
  <2>3. Exposure(Uncharged) \in Int /\ -(N + bypassed) <= Exposure(Uncharged)
    BY <2>2 DEF Exposure
  <2>4. MaxCost * (-(N + bypassed)) <= MaxCost * Exposure(Uncharged)
    BY <2>2, <2>3, ScaleMonotone
  <2>5. MaxCost * (-(N + bypassed)) = -(MaxCost * (N + bypassed))
    BY <2>2
  <2>6. balance >= MaxCost * Exposure(Uncharged)
    BY DEF OverdraftInv
  <2>7. MaxCost * Exposure(Uncharged) \in Int /\ MaxCost * (N + bypassed) \in Int
    BY <2>2, <2>3
  <2> QED BY <2>2, <2>4, <2>5, <2>6, <2>7 DEF OverdraftBounded
<1>3. TypeOK /\ OverdraftInv /\ [Next]_vars => OverdraftInv'
  BY OverdraftStep
<1> QED BY <1>1, <1>2, <1>3, TypeInvariance, PTL DEF Spec

(***************************************************************************)
(* The monthly cost limit: how far it can be overshot.                     *)
(***************************************************************************)

\* What is booked in a month may grow by one call for every unit of exposure
\* that goes.
LEMMA OvershootKept ==
  ASSUME TypeOK, TypeOK', NEW m \in Months,
         cost[m] + MaxCost * Exposure(Unbooked(m)) < CostLimit,
         \/ /\ Exposure(Unbooked(m))' <= Exposure(Unbooked(m))
            /\ cost'[m] <= cost[m]
         \/ /\ Exposure(Unbooked(m))' <= Exposure(Unbooked(m)) - 1
            /\ cost'[m] <= cost[m] + MaxCost
         \/ cost'[m] < CostLimit
  PROVE  cost'[m] + MaxCost * Exposure(Unbooked(m))' < CostLimit
<1> DEFINE E == Exposure(Unbooked(m))
           F == Exposure(Unbooked(m))'
<1>1. Unbooked(m) \in SUBSET Requests /\ Unbooked(m)' \in SUBSET Requests
  BY DEF Unbooked
<1>2. /\ Cardinality(Unbooked(m)) \in Nat /\ Cardinality(Requests) \in Nat
      /\ Cardinality(Unbooked(m))' \in Nat
      /\ Cardinality(Unbooked(m))' <= Cardinality(Requests)
  BY <1>1, SetsOfRequests
<1>3. E \in Int /\ F \in Int /\ F <= 0
  BY <1>2 DEF Exposure, TypeOK
<1>4. MaxCost \in Nat /\ CostLimit \in Nat /\ cost[m] \in Nat /\ cost'[m] \in Nat
  BY ChatBillingAssumption DEF TypeOK
<1>5. MaxCost * E \in Int /\ MaxCost * F \in Int
  BY <1>3, <1>4
<1>6. CASE F <= E /\ cost'[m] <= cost[m]
  <2>1. MaxCost * F <= MaxCost * E
    BY <1>3, <1>4, <1>6, ScaleMonotone
  <2> QED BY <1>4, <1>5, <1>6, <2>1
<1>7. CASE F <= E - 1 /\ cost'[m] <= cost[m] + MaxCost
  <2>1. MaxCost * F <= MaxCost * E - MaxCost
    BY <1>3, <1>4, <1>7, ScaleStep
  <2> QED BY <1>4, <1>5, <1>7, <2>1
<1>8. CASE cost'[m] < CostLimit
  <2>1. MaxCost * F <= MaxCost * 0
    BY <1>3, <1>4, ScaleMonotone
  <2> QED BY <1>4, <1>5, <1>8, <2>1
<1> QED BY <1>6, <1>7, <1>8

\* Exposure follows the set of requests that may still be booked.
LEMMA ExposureFollows ==
  ASSUME TypeOK, TypeOK', NEW m \in Months, NEW r
  PROVE  /\ Unbooked(m)' \subseteq Unbooked(m) \cup {r} /\ bypassed' = bypassed + 1
              => Exposure(Unbooked(m))' <= Exposure(Unbooked(m))
         /\ r \in Unbooked(m) /\ Unbooked(m)' \subseteq Unbooked(m) \ {r} /\ bypassed' = bypassed
              => Exposure(Unbooked(m))' <= Exposure(Unbooked(m)) - 1
<1>1. Unbooked(m) \in SUBSET Requests /\ Unbooked(m)' \in SUBSET Requests
  BY DEF Unbooked
<1>2. /\ Cardinality(Unbooked(m)) \in Nat /\ Cardinality(Requests) \in Nat
      /\ Cardinality(Unbooked(m))' \in Nat
      /\ Unbooked(m)' \subseteq Unbooked(m) \cup {r}
           => Cardinality(Unbooked(m))' <= Cardinality(Unbooked(m)) + 1
      /\ r \in Unbooked(m) /\ Unbooked(m)' \subseteq Unbooked(m) \ {r}
           => Cardinality(Unbooked(m))' <= Cardinality(Unbooked(m)) - 1
  BY <1>1, SetsOfRequests
<1>3. bypassed \in Nat /\ bypassed' \in Nat
  BY DEF TypeOK
<1> QED BY <1>2, <1>3 DEF Exposure

\* The same for the requests that may still be booked in a month.
LEMMA ExposureShrinks ==
  ASSUME TypeOK, TypeOK', NEW m \in Months,
         Unbooked(m)' \subseteq Unbooked(m), bypassed' = bypassed
  PROVE  Exposure(Unbooked(m))' <= Exposure(Unbooked(m))
<1>1. Unbooked(m) \in SUBSET Requests /\ Unbooked(m)' \in SUBSET Requests
  BY DEF Unbooked
<1>2. /\ Cardinality(Unbooked(m)) \in Nat /\ Cardinality(Requests) \in Nat
      /\ Cardinality(Unbooked(m))' \in Nat
      /\ Cardinality(Unbooked(m))' <= Cardinality(Unbooked(m))
  BY <1>1, SetsOfRequests
<1> QED BY <1>2 DEF Exposure, TypeOK

\* Where nothing is booked and nobody gets past a check, the bounds hold on.
LEMMA CostUndisturbed ==
  ASSUME TypeOK, TypeOK', CostInv, UNCHANGED <<cost, bypassed>>, month' >= month,
         \A r \in Requests : pc'[r] \in Settlement => due'[r] <= month',
         \A m \in Months : Unbooked(m)' \subseteq Unbooked(m)
  PROVE  CostInv'
<1> SUFFICES ASSUME NEW m \in Months
             PROVE  /\ m > month' => cost'[m] = 0
                    /\ cost'[m] + MaxCost * Exposure(Unbooked(m))' < CostLimit
  BY DEF CostInv
<1>1. m > month' => cost'[m] = 0
  BY DEF CostInv, TypeOK, Months
<1>2. Exposure(Unbooked(m))' <= Exposure(Unbooked(m))
  BY ExposureShrinks
<1>3. cost[m] + MaxCost * Exposure(Unbooked(m)) < CostLimit /\ cost'[m] <= cost[m]
  BY DEF CostInv, TypeOK
<1> QED BY <1>1, <1>2, <1>3, OvershootKept

\* A request that moves on within its part of the handler.
LEMMA MoveKeepsUnbooked ==
  ASSUME TypeOK, TypeOK', CostInv, NEW r \in Requests, NEW stage, Goto(r, stage),
         UNCHANGED <<month, due, cost, bypassed>>,
         stage = "provider" => pc[r] = "provider",
         stage \in Settlement => pc[r] \in Settlement
  PROVE  CostInv'
<1>1. \A m \in Months : Unbooked(m)' \subseteq Unbooked(m)
  BY DEF TypeOK, Goto, Unbooked, Settlement
<1>2. \A q \in Requests : pc'[q] \in Settlement => due'[q] <= month'
  BY DEF TypeOK, Goto, CostInv
<1>3. month' >= month
  BY DEF TypeOK, Months
<1> QED BY <1>1, <1>2, <1>3, CostUndisturbed

\* Every step keeps the bounds on the months' costs.
LEMMA CostStep ==
  ASSUME TypeOK, CostInv, [Next]_vars
  PROVE  CostInv'
<1> TypeOK'
  BY TypeStep
<1> USE DEF policy
<1>1. month \in Int /\ Months \subseteq Int
  BY DEF TypeOK, Months
<1>2. CASE UNCHANGED vars
  <2>1. \A m \in Months : Unbooked(m)' \subseteq Unbooked(m)
    BY <1>2 DEF vars, Unbooked
  <2>2. UNCHANGED <<pc, due, month, cost, bypassed>>
    BY <1>2 DEF vars
  <2> QED BY <1>1, <2>1, <2>2, CostUndisturbed DEF CostInv
<1>3. ASSUME NEW r \in Requests,
             Arrive(r) \/ CheckBalance(r) \/ ReadQuota(r) \/ Admit(r) \/ Deny(r)
               \/ AdmitFails(r) \/ Unanswered(r)
      PROVE  CostInv'
  <2>1. /\ UNCHANGED <<month, due, cost, bypassed>>
        /\ \E stage \in {"balance", "plan", "idle", "admit", "limit"} : Goto(r, stage)
    BY <1>3 DEF Arrive, CheckBalance, ReadQuota, Admit, Deny, AdmitFails, Unanswered
  <2> QED BY <2>1, MoveKeepsUnbooked DEF Settlement
<1>4. ASSUME NEW r \in Requests, CheckFails(r) PROVE CostInv'
  <2>1. UNCHANGED <<month, due, cost>> /\ bypassed' = bypassed + 1
    BY <1>4 DEF CheckFails
  <2>2. \A q \in Requests : pc'[q] \in Settlement => due'[q] <= month'
    BY <1>4, <2>1 DEF CheckFails, Goto, TypeOK, CostInv, Settlement
  <2>3. ASSUME NEW m \in Months
        PROVE  /\ m > month' => cost'[m] = 0
               /\ cost'[m] + MaxCost * Exposure(Unbooked(m))' < CostLimit
    <3>1. Unbooked(m)' \subseteq Unbooked(m) \cup {r}
      BY <1>4, <2>1 DEF CheckFails, Goto, TypeOK, Unbooked, Settlement
    <3>2. Exposure(Unbooked(m))' <= Exposure(Unbooked(m))
      BY <2>1, <3>1, ExposureFollows
    <3>3. cost[m] + MaxCost * Exposure(Unbooked(m)) < CostLimit /\ cost'[m] <= cost[m]
      BY <2>1 DEF CostInv, TypeOK
    <3>4. m > month' => cost'[m] = 0
      BY <2>1 DEF CostInv
    <3> QED BY <3>2, <3>3, <3>4, OvershootKept
  <2> QED BY <2>2, <2>3 DEF CostInv
<1>5. ASSUME NEW r \in Requests, CheckCost(r) PROVE CostInv'
  <2>1. UNCHANGED <<month, due, cost, bypassed>>
    BY <1>5 DEF CheckCost
  <2>2. CASE ~UnderLimit
    BY <1>5, <2>1, <2>2, MoveKeepsUnbooked DEF CheckCost, Settlement
  <2>3. CASE UnderLimit
    <3>1. \A q \in Requests : pc'[q] \in Settlement => due'[q] <= month'
      BY <1>5, <2>1, <2>3 DEF CheckCost, Goto, TypeOK, CostInv, Settlement
    <3>2. ASSUME NEW m \in Months
          PROVE  /\ m > month' => cost'[m] = 0
                 /\ cost'[m] + MaxCost * Exposure(Unbooked(m))' < CostLimit
      <4>1. cost'[m] = cost[m] /\ (m > month => cost[m] = 0)
        BY <2>1 DEF CostInv
      <4>2. cost[m] + MaxCost * Exposure(Unbooked(m)) < CostLimit
        BY DEF CostInv
      <4>3. CASE m >= month
        <5>1. cost'[m] < CostLimit
          BY <1>1, <2>3, <4>1, <4>3, ChatBillingAssumption DEF UnderLimit
        <5> QED BY <2>1, <4>1, <4>2, <5>1, OvershootKept
      <4>4. CASE ~(m >= month)
        <5>1. Unbooked(m)' \subseteq Unbooked(m)
          BY <1>5, <2>1, <2>3, <4>4 DEF CheckCost, Goto, TypeOK, Unbooked, Settlement
        <5>2. Exposure(Unbooked(m))' <= Exposure(Unbooked(m)) /\ cost'[m] <= cost[m]
          BY <2>1, <4>1, <5>1, ExposureShrinks DEF TypeOK
        <5> QED BY <2>1, <4>1, <4>2, <5>2, OvershootKept
      <4> QED BY <4>3, <4>4
    <3> QED BY <3>1, <3>2 DEF CostInv
  <2> QED BY <2>2, <2>3
<1>6. ASSUME NEW r \in Requests, Answered(r) PROVE CostInv'
  <2>1. UNCHANGED <<month, cost, bypassed>>
    BY <1>6 DEF Answered
  <2>2. \A q \in Requests : pc'[q] \in Settlement => due'[q] <= month'
    BY <1>1, <1>6 DEF Answered, Goto, TypeOK, CostInv
  <2>3. \A m \in Months : Unbooked(m)' \subseteq Unbooked(m)
    BY <1>1, <1>6 DEF Answered, Goto, TypeOK, Unbooked, Settlement
  <2>4. month' >= month
    BY <1>1, <2>1
  <2> QED BY <2>1, <2>2, <2>3, <2>4, CostUndisturbed
<1>7. ASSUME NEW r \in Requests,
             InsertUsage(r) \/ OpenWallet(r) \/ Charge(r) \/ PostUsage(r) \/ SettlementFails(r)
      PROVE  CostInv'
  <2>1. /\ UNCHANGED <<month, due, cost, bypassed>>
        /\ pc[r] \in Settlement
        /\ Goto(r, NextStage(r))
    BY <1>7 DEF InsertUsage, OpenWallet, Charge, PostUsage, SettlementFails, Settlement
  <2>2. NextStage(r) # "provider"
    BY DEF NextStage
  <2> QED BY <2>1, <2>2, MoveKeepsUnbooked
<1>8. ASSUME NEW r \in Requests, AddToPolicy(r) PROVE CostInv'
  <2>1. /\ UNCHANGED <<month, due, bypassed>>
        /\ pc[r] = "policy" /\ due[r] \in Months /\ due[r] <= month
        /\ Goto(r, "idle")
    BY <1>8 DEF AddToPolicy, NextStage, TypeOK, CostInv, Settlement
  <2>2. /\ \A m \in Months \ {due[r]} : cost'[m] = cost[m]
        /\ cost'[due[r]] <= cost[due[r]] + owed[r]
    BY <1>8, <2>1 DEF AddToPolicy, Booked, TypeOK
  <2>3. owed[r] \in Nat /\ owed[r] <= MaxCost /\ MaxCost \in Nat
    BY ChatBillingAssumption DEF TypeOK
  <2>4. \A q \in Requests : pc'[q] \in Settlement => due'[q] <= month'
    BY <2>1 DEF Goto, TypeOK, CostInv, Settlement
  <2>5. ASSUME NEW m \in Months
        PROVE  /\ m > month' => cost'[m] = 0
               /\ cost'[m] + MaxCost * Exposure(Unbooked(m))' < CostLimit
    <3>1. cost[m] + MaxCost * Exposure(Unbooked(m)) < CostLimit
      BY DEF CostInv
    <3>2. CASE m = due[r]
      <4>1. r \in Unbooked(m) /\ Unbooked(m)' \subseteq Unbooked(m) \ {r}
        BY <2>1, <3>2 DEF Goto, TypeOK, Unbooked, Settlement
      <4>2. Exposure(Unbooked(m))' <= Exposure(Unbooked(m)) - 1
        BY <2>1, <4>1, ExposureFollows
      <4>3. cost'[m] <= cost[m] + MaxCost
        BY <2>2, <2>3, <3>2 DEF TypeOK
      <4>4. ~(m > month')
        BY <1>1, <2>1, <3>2
      <4> QED BY <3>1, <4>2, <4>3, <4>4, OvershootKept
    <3>3. CASE m # due[r]
      <4>1. Unbooked(m)' \subseteq Unbooked(m)
        BY <2>1 DEF Goto, TypeOK, Unbooked, Settlement
      <4>2. Exposure(Unbooked(m))' <= Exposure(Unbooked(m)) /\ cost'[m] <= cost[m]
        BY <2>1, <2>2, <3>3, <4>1, ExposureShrinks DEF TypeOK
      <4>3. m > month' => cost'[m] = 0
        BY <2>1, <2>2, <3>3 DEF CostInv
      <4> QED BY <3>1, <4>2, <4>3, OvershootKept
    <3> QED BY <3>2, <3>3
  <2> QED BY <2>4, <2>5 DEF CostInv
<1>9. CASE \/ PostCredit \/ NextMonth
           \/ \E a \in Amounts : CreditWallet(a)
           \/ \E q \in Quotas : SetPlan(q)
  <2>1. /\ UNCHANGED <<pc, due, cost, bypassed>>
        /\ month' = month \/ month' = month + 1
    BY <1>9 DEF PostCredit, NextMonth, CreditWallet, SetPlan, request
  <2>2. \A q \in Requests : pc'[q] \in Settlement => due'[q] <= month'
    <3> TAKE q \in Requests
    <3>1. due[q] \in Int /\ (pc[q] \in Settlement => due[q] <= month)
      BY DEF TypeOK, CostInv, Months
    <3> QED BY <1>1, <2>1, <3>1
  <2>3. \A m \in Months : Unbooked(m)' \subseteq Unbooked(m)
    <3> TAKE m \in Months
    <3>1. month' <= m => month <= m
      BY <1>1, <2>1 DEF Months
    <3>2. pc' = pc /\ due' = due
      BY <2>1
    <3> QED BY <3>1, <3>2 DEF Unbooked
  <2> QED BY <1>1, <2>1, <2>2, <2>3, CostUndisturbed
<1>10. CASE Crash
  <2>1. UNCHANGED <<month, due, cost, bypassed>> /\ \A q \in Requests : pc'[q] = "idle"
    BY <1>10 DEF Crash
  <2>2. /\ \A q \in Requests : pc'[q] \in Settlement => due'[q] <= month'
        /\ \A m \in Months : Unbooked(m)' \subseteq Unbooked(m)
    BY <2>1 DEF Unbooked, Settlement
  <2>3. month' >= month
    BY <1>1, <2>1
  <2> QED BY <2>1, <2>2, <2>3, CostUndisturbed
<1> QED
  BY <1>2, <1>3, <1>4, <1>5, <1>6, <1>7, <1>8, <1>9, <1>10 DEF Next, RequestStep

\* No month's costs exceed the limit by as much as one call per request that
\* can be in progress at once and one per check that could not be made.
THEOREM Overshoot == Spec => []CostOvershootBounded
<1>1. TypeOK /\ Init => CostInv
  <2> SUFFICES ASSUME TypeOK, Init PROVE CostInv
    OBVIOUS
  <2>1. \A r \in Requests : pc[r] \notin Settlement
    BY DEF Init, Settlement
  <2>2. ASSUME NEW m \in Months
        PROVE  cost[m] = 0 /\ MaxCost * Exposure(Unbooked(m)) <= 0
    <3>1. Unbooked(m) = {} /\ bypassed = 0 /\ cost[m] = 0
      BY DEF Init, Unbooked, Settlement
    <3>2. Cardinality(Requests) \in Nat /\ Cardinality({}) = 0
      BY ChatBillingAssumption, FS_CardinalityType, FS_EmptySet
    <3>3. Exposure({}) \in Int /\ Exposure({}) <= 0
      BY <3>1, <3>2 DEF Exposure
    <3>4. MaxCost * Exposure({}) <= MaxCost * 0 /\ MaxCost * 0 = 0
      BY <3>3, ChatBillingAssumption, ScaleMonotone
    <3> QED BY <3>1, <3>4
  <2>3. ASSUME NEW m \in Months
        PROVE  cost[m] + MaxCost * Exposure(Unbooked(m)) < CostLimit
    <3>1. Unbooked(m) \in SUBSET Requests
      BY DEF Unbooked
    <3>2. Exposure(Unbooked(m)) \in Int
      BY <3>1, SetsOfRequests DEF Exposure, TypeOK
    <3>3. MaxCost * Exposure(Unbooked(m)) \in Int
      BY <3>2, ChatBillingAssumption
    <3> QED BY <2>2, <3>3, ChatBillingAssumption
  <2> QED BY <2>1, <2>2, <2>3 DEF CostInv
<1>2. TypeOK /\ CostInv => CostOvershootBounded
  <2> SUFFICES ASSUME TypeOK, CostInv, NEW m \in Months
               PROVE  cost[m] < CostLimit + MaxCost * (Cardinality(Requests) + bypassed)
    BY DEF CostOvershootBounded
  <2> DEFINE N == Cardinality(Requests)
  <2>1. Unbooked(m) \in SUBSET Requests
    BY DEF Unbooked
  <2>2. /\ Cardinality(Unbooked(m)) \in Nat /\ N \in Nat /\ bypassed \in Nat
        /\ MaxCost \in Nat /\ CostLimit \in Nat /\ cost[m] \in Nat
    BY <2>1, SetsOfRequests, ChatBillingAssumption DEF TypeOK
  <2>3. Exposure(Unbooked(m)) \in Int /\ -(N + bypassed) <= Exposure(Unbooked(m))
    BY <2>2 DEF Exposure
  <2>4. MaxCost * (-(N + bypassed)) <= MaxCost * Exposure(Unbooked(m))
    BY <2>2, <2>3, ScaleMonotone
  <2>5. MaxCost * (-(N + bypassed)) = -(MaxCost * (N + bypassed))
    BY <2>2
  <2>6. cost[m] + MaxCost * Exposure(Unbooked(m)) < CostLimit
    BY DEF CostInv
  <2>7. MaxCost * Exposure(Unbooked(m)) \in Int /\ MaxCost * (N + bypassed) \in Int
    BY <2>2, <2>3
  <2> QED BY <2>2, <2>4, <2>5, <2>6, <2>7
<1>3. TypeOK /\ CostInv /\ [Next]_vars => CostInv'
  BY CostStep
<1> QED BY <1>1, <1>2, <1>3, TypeInvariance, PTL DEF Spec

(***************************************************************************)
(* The monthly quota.                                                      *)
(***************************************************************************)

\* Once the configured quota may apply it stays possible.
LEMMA PossibleQuotasGrow ==
  ASSUME TypeOK, UNCHANGED faults \/ Fault
  PROVE  PossibleQuotas \subseteq PossibleQuotas' /\ PossibleQuotas \subseteq Nat
BY ChatBillingAssumption DEF PossibleQuotas, Fault, TypeOK

\* Every step keeps the admissions within a quota of the plan.
LEMMA QuotaStep ==
  ASSUME TypeOK, QuotaInv, [Next]_vars
  PROVE  QuotaInv'
<1> TypeOK'
  BY TypeStep
<1> USE DEF policy, admin
<1>1. ASSUME UNCHANGED faults \/ Fault, UNCHANGED <<planQuota, quota, count>>,
             \A r \in Requests : pc'[r] = "admit" => pc[r] = "admit"
      PROVE  QuotaInv'
  BY <1>1, PossibleQuotasGrow DEF QuotaInv, QuotaRespected
<1>2. CASE UNCHANGED vars
  BY <1>1, <1>2 DEF vars
<1>3. ASSUME NEW r \in Requests, NEW stage, Goto(r, stage), stage # "admit",
             UNCHANGED faults \/ Fault, UNCHANGED <<planQuota, quota, count>>
      PROVE  QuotaInv'
  <2>1. \A q \in Requests : pc'[q] = "admit" => pc[q] = "admit"
    BY <1>3 DEF Goto, TypeOK
  <2> QED BY <1>1, <1>3, <2>1
<1>4. ASSUME NEW r \in Requests, Arrive(r) \/ CheckBalance(r) \/ Deny(r) \/ CheckCost(r)
      PROVE  QuotaInv'
  BY <1>3, <1>4 DEF Arrive, CheckBalance, Deny, CheckCost
<1>5. ASSUME NEW r \in Requests, CheckFails(r) \/ Answered(r) \/ Unanswered(r)
      PROVE  QuotaInv'
  BY <1>3, <1>5 DEF CheckFails, Answered, Unanswered
<1>6. ASSUME NEW r \in Requests,
             \/ InsertUsage(r) \/ OpenWallet(r) \/ Charge(r) \/ PostUsage(r)
             \/ AddToPolicy(r) \/ SettlementFails(r)
      PROVE  QuotaInv'
  <2>1. NextStage(r) # "admit"
    BY DEF NextStage
  <2> QED
    BY <1>3, <1>6, <2>1
       DEF InsertUsage, OpenWallet, Charge, PostUsage, AddToPolicy, SettlementFails
<1>7. ASSUME NEW r \in Requests, ReadQuota(r) PROVE QuotaInv'
  <2>1. /\ UNCHANGED <<planQuota, count>>
        /\ UNCHANGED faults \/ Fault
        /\ \A q \in Requests \ {r} : quota'[q] = quota[q] /\ pc'[q] = pc[q]
    BY <1>7 DEF ReadQuota, Goto, TypeOK
  <2>2. quota'[r] \in PossibleQuotas'
    BY <1>7, PossibleQuotasGrow, ChatBillingAssumption
       DEF ReadQuota, Fault, PossibleQuotas, QuotaInv, TypeOK
  <2> QED BY <2>1, <2>2, PossibleQuotasGrow DEF QuotaInv, QuotaRespected
<1>8. ASSUME NEW r \in Requests, Admit(r) \/ AdmitFails(r) PROVE QuotaInv'
  <2>1. /\ UNCHANGED <<planQuota, quota, month>>
        /\ UNCHANGED faults \/ Fault
        /\ pc[r] = "admit"
        /\ \A q \in Requests : pc'[q] = "admit" => pc[q] = "admit"
    BY <1>8 DEF Admit, AdmitFails, Goto, TypeOK
  <2>2. CASE UNCHANGED count
    BY <1>1, <2>1, <2>2
  <2>3. CASE HasRoom(r) /\ count' = [count EXCEPT ![month] = @ + 1]
    <3>1. month \in Months /\ count[month] \in Nat /\ quota[r] \in PossibleQuotas
      BY <2>1 DEF TypeOK, QuotaInv
    <3>2. /\ count'[month] = count[month] + 1
          /\ \A m \in Months \ {month} : count'[m] = count[m]
      BY <2>3, <3>1 DEF TypeOK
    <3>3. count[month] + 1 <= 1 \/ count[month] + 1 <= quota[r]
      BY <2>3, <3>1, PossibleQuotasGrow, <2>1 DEF HasRoom
    <3>4. QuotaRespected'
      BY <2>1, <3>1, <3>2, <3>3, PossibleQuotasGrow DEF QuotaRespected, QuotaInv
    <3> QED BY <2>1, <3>4, PossibleQuotasGrow DEF QuotaInv
  <2> QED BY <1>8, <2>2, <2>3 DEF Admit, AdmitFails
<1>9. CASE PostCredit \/ NextMonth \/ Crash \/ \E a \in Amounts : CreditWallet(a)
  BY <1>1, <1>9 DEF PostCredit, NextMonth, Crash, CreditWallet, request
<1>10. ASSUME NEW q \in Quotas, SetPlan(q) PROVE QuotaInv'
  <2>1. UNCHANGED <<pc, quota, count, faults>> /\ planQuota' \in Quotas
    BY <1>10 DEF SetPlan, request
  <2> QED BY <2>1, PossibleQuotasGrow DEF QuotaInv, QuotaRespected
<1> QED
  BY <1>2, <1>4, <1>5, <1>6, <1>7, <1>8, <1>9, <1>10 DEF Next, RequestStep

\* No month counts more admissions than some quota of the plan allowed, or one.
THEOREM Quota == Spec => []QuotaRespected
<1>1. Init => QuotaInv
  BY DEF Init, QuotaInv, QuotaRespected, PossibleQuotas
<1>2. QuotaInv => QuotaRespected
  BY DEF QuotaInv
<1>3. TypeOK /\ QuotaInv /\ [Next]_vars => QuotaInv'
  BY QuotaStep
<1> QED BY <1>1, <1>2, <1>3, TypeInvariance, PTL DEF Spec

(***************************************************************************)
(* The books.                                                              *)
(***************************************************************************)

\* What is owed at some stages, and how one request changes it.
LEMMA OwingStep ==
  ASSUME TypeOK, TypeOK', NEW r \in Requests, NEW stages,
         \A q \in Requests \ {r} : pc'[q] = pc[q] /\ owed'[q] = owed[q]
  PROVE  /\ Owing(stages) \in Nat /\ Owing(stages)' \in Nat
         /\ Owing(stages)' = Owing(stages) + (IF pc'[r] \in stages THEN owed'[r] ELSE 0)
                                           - (IF pc[r] \in stages THEN owed[r] ELSE 0)
<1> DEFINE f == [q \in Requests |-> IF pc[q] \in stages THEN owed[q] ELSE 0]
           g == [q \in Requests |-> IF pc'[q] \in stages THEN owed'[q] ELSE 0]
<1>1. IsFiniteSet(Requests) /\ owed \in [Requests -> Nat] /\ owed' \in [Requests -> Nat]
  BY ChatBillingAssumption DEF TypeOK
<1>2. /\ \A q \in Requests : f[q] \in Nat /\ g[q] \in Nat
      /\ \A q \in Requests \ {r} : g[q] = f[q]
      /\ f[r] = IF pc[r] \in stages THEN owed[r] ELSE 0
      /\ g[r] = IF pc'[r] \in stages THEN owed'[r] ELSE 0
  BY <1>1
<1>3. Owing(stages) = SumFunctionOnSet(f, Requests)
      /\ Owing(stages)' = SumFunctionOnSet(g, Requests)
  BY DEF Owing
<1> HIDE DEF f, g
<1>4. SumFunctionOnSet(f, Requests) \in Nat /\ SumFunctionOnSet(g, Requests) \in Nat
  BY <1>1, <1>2, SumPart
<1>5. SumFunctionOnSet(g, Requests) = SumFunctionOnSet(f, Requests) + g[r] - f[r]
  <2>1. \A q \in Requests : f[q] \in Int
    BY <1>2
  <2>2. g[r] \in Int
    BY <1>2
  <2> QED BY <1>1, <1>2, <2>1, <2>2, SumUpdate
<1> QED BY <1>2, <1>3, <1>4, <1>5

\* The calendar is finite.
LEMMA CalendarTyped == IsFiniteSet(Months) /\ Months \subseteq Nat
<1>1. MaxMonth \in Nat /\ 1 \in Int /\ MaxMonth \in Int
  BY ChatBillingAssumption
<1> QED BY <1>1, FS_Interval DEF Months

\* What is owed is a natural number, and so is what the rows account for.
LEMMA SumsTyped ==
  ASSUME TypeOK
  PROVE  /\ \A stages : Owing(stages) \in Nat
         /\ Accounted \in Nat /\ Unaccounted \in Int
<1>1. ASSUME NEW stages PROVE Owing(stages) \in Nat
  <2> DEFINE f == [q \in Requests |-> IF pc[q] \in stages THEN owed[q] ELSE 0]
  <2>1. IsFiniteSet(Requests) /\ \A q \in Requests : f[q] \in Nat
    BY ChatBillingAssumption DEF TypeOK
  <2>2. Owing(stages) = SumFunctionOnSet(f, Requests)
    BY DEF Owing
  <2> HIDE DEF f
  <2> QED BY <2>1, <2>2, SumPart
<1>2. Accounted \in Nat
  <2>1. IsFiniteSet(Months) /\ \A m \in Months : cost[m] \in Nat
    BY CalendarTyped DEF TypeOK
  <2> QED BY <2>1, SumPart DEF Accounted
<1>3. Unaccounted \in Int
  <2>1. Owing({"wallet", "charge", "ledger", "policy"}) \in Nat /\ usage \in Nat
    BY <1>1 DEF TypeOK
  <2> QED BY <1>2, <2>1 DEF Unaccounted
<1> QED BY <1>1, <1>2, <1>3

\* A call may get lost for every request that is no longer without a row.
LEMMA LostKept ==
  ASSUME TypeOK, TypeOK', LostBounded, month' = month,
         \/ Rowless' \subseteq Rowless /\ Unaccounted' = Unaccounted
         \/ \E r \in Rowless : /\ Rowless' \subseteq Rowless \ {r}
                               /\ Unaccounted' = Unaccounted + owed[r]
  PROVE  LostBounded'
<1> DEFINE C == Cardinality(Rowless)
           D == Cardinality(Rowless)'
           K == MaxCost * (Cardinality(Requests) * (month - 1))
<1>1. Rowless \in SUBSET Requests /\ Rowless' \in SUBSET Requests
  BY DEF Rowless
<1>2. C \in Nat /\ D \in Nat /\ Cardinality(Requests) \in Nat
  BY <1>1, SetsOfRequests
<1>3. MaxCost \in Nat /\ month \in Nat /\ Unaccounted \in Int
  BY SumsTyped, CalendarTyped, ChatBillingAssumption DEF TypeOK
<1>4. K \in Int /\ MaxCost * C \in Int /\ MaxCost * D \in Int
  <2>1. Cardinality(Requests) * (month - 1) \in Int
    BY <1>2, <1>3
  <2> HIDE DEF C, D
  <2> QED BY <1>2, <1>3, <2>1
<1>5. Unaccounted + MaxCost * C <= K
  BY DEF LostBounded
<1>6. Unaccounted' + MaxCost * D <= K
  <2>1. CASE Rowless' \subseteq Rowless /\ Unaccounted' = Unaccounted
    <3>1. D <= C
      BY <1>1, <2>1, SetsOfRequests
    <3>2. MaxCost * D <= MaxCost * C
      BY <1>2, <1>3, <3>1, ScaleMonotone
    <3> HIDE DEF C, D, K
    <3> QED BY <1>3, <1>4, <1>5, <2>1, <3>2
  <2>2. ASSUME NEW r \in Rowless, Rowless' \subseteq Rowless \ {r},
               Unaccounted' = Unaccounted + owed[r]
        PROVE  Unaccounted' + MaxCost * D <= K
    <3>1. D <= C - 1
      BY <1>1, <2>2, SetsOfRequests
    <3>2. MaxCost * D <= MaxCost * C - MaxCost
      BY <1>2, <1>3, <3>1, ScaleStep
    <3>3. owed[r] \in Nat /\ owed[r] <= MaxCost
      BY <1>1 DEF TypeOK
    <3> HIDE DEF C, D, K
    <3> QED BY <1>3, <1>4, <1>5, <2>2, <3>2, <3>3
  <2> QED BY <2>1, <2>2
<1> QED BY <1>6 DEF LostBounded

\* When the month ends, every request in progress may yet get lost.
LEMMA LostAtMonthsEnd ==
  ASSUME TypeOK, TypeOK', LostBounded, month' = month + 1, Unaccounted' = Unaccounted
  PROVE  LostBounded'
<1> DEFINE C == Cardinality(Rowless)
           D == Cardinality(Rowless)'
           N == Cardinality(Requests)
<1>1. Rowless \in SUBSET Requests /\ Rowless' \in SUBSET Requests
  BY DEF Rowless
<1>2. C \in Nat /\ D \in Nat /\ N \in Nat /\ D <= N
  BY <1>1, SetsOfRequests
<1>3. MaxCost \in Nat /\ month \in Nat /\ Unaccounted \in Int
  BY SumsTyped, CalendarTyped, ChatBillingAssumption DEF TypeOK
<1>4. Unaccounted + MaxCost * C <= MaxCost * (N * (month - 1))
  BY DEF LostBounded
<1> SUFFICES Unaccounted + MaxCost * D <= MaxCost * (N * ((month + 1) - 1))
  BY DEF LostBounded
<1> HIDE DEF C, D, N
<1>5. MaxCost * D <= MaxCost * N /\ MaxCost * C >= 0
  BY <1>2, <1>3, ScaleMonotone
<1>6. N * (month - 1) \in Int /\ N * ((month + 1) - 1) = N * (month - 1) + N
  BY <1>2, <1>3
<1>7. \A x \in Int : MaxCost * (x + N) = MaxCost * x + MaxCost * N /\ MaxCost * x \in Int
  BY <1>2, <1>3
<1>8. MaxCost * (N * (month - 1) + N) = MaxCost * (N * (month - 1)) + MaxCost * N
  BY <1>6, <1>7
<1>9. /\ MaxCost * C \in Int /\ MaxCost * D \in Int /\ MaxCost * N \in Int
      /\ MaxCost * (N * (month - 1)) \in Int
  BY <1>2, <1>3, <1>6, <1>7
<1> QED BY <1>3, <1>4, <1>5, <1>6, <1>8, <1>9

\* A booking adds to what the rows account for, if the month has a row.
LEMMA BookedSum ==
  ASSUME TypeOK, NEW r \in Requests, Booked(due[r], owed[r])
  PROVE  Accounted' = Accounted + (IF count[due[r]] = 0 THEN 0 ELSE owed[r])
<1> DEFINE d == due[r]
<1>1. d \in Months /\ IsFiniteSet(Months) /\ owed[r] \in Nat /\ cost[d] \in Nat
  <2>1. due[r] \in Months /\ owed[r] \in Nat /\ cost \in [Months -> Nat]
    BY DEF TypeOK
  <2> QED BY <2>1, CalendarTyped
<1>2. /\ \A m \in Months : cost[m] \in Int
      /\ \A m \in Months \ {d} : cost'[m] = cost[m]
      /\ cost'[d] = cost[d] + (IF count[d] = 0 THEN 0 ELSE owed[r])
      /\ cost'[d] \in Int
  BY <1>1 DEF Booked, TypeOK
<1> HIDE DEF d
<1>3. /\ SumFunctionOnSet(cost, Months) \in Int
      /\ SumFunctionOnSet(cost', Months) = SumFunctionOnSet(cost, Months) + cost'[d] - cost[d]
  BY <1>1, <1>2, SumUpdate
<1> QED BY <1>1, <1>2, <1>3 DEF Accounted, d

\* Nothing changes in what is being settled.
OwingKept ==
  /\ Owing({"ledger"})' = Owing({"ledger"})
  /\ Owing({"wallet", "charge", "ledger"})' = Owing({"wallet", "charge", "ledger"})
  /\ Owing({"wallet", "charge", "ledger", "policy"})'
       = Owing({"wallet", "charge", "ledger", "policy"})

\* The books stay balanced where what is owed, used and credited stays.
LEMMA BooksUndisturbed ==
  ASSUME TypeOK, TypeOK', Balanced, UNCHANGED <<month, balance, usage, cost, used>>,
         Credits' = Credits,
         \A m \in Months : m > month => count'[m] = count[m],
         \A r \in Requests : pc'[r] = "charge" => pc[r] = "charge" \/ wallet',
         wallet => wallet', OwingKept, Rowless' \subseteq Rowless
  PROVE  Balanced'
<1>1. Unaccounted' = Unaccounted
  BY DEF Unaccounted, Accounted, OwingKept
<1>2. LostBounded'
  BY <1>1, LostKept DEF Balanced
<1>3. balance' = Credits' - used' - Owing({"ledger"})'
  BY DEF Balanced, OwingKept
<1>4. usage' = used' + Owing({"wallet", "charge", "ledger"})' /\ Unaccounted' >= 0
  BY <1>1 DEF Balanced, OwingKept
<1> QED BY <1>2, <1>3, <1>4 DEF Balanced

\* A request that is not in its settlement owes nothing.
LEMMA OwingElsewhere ==
  ASSUME TypeOK, TypeOK', NEW r \in Requests, NEW stage, Goto(r, stage),
         \A q \in Requests \ {r} : owed'[q] = owed[q],
         pc[r] \notin Settlement \ {"usage"}, stage \notin Settlement \ {"usage"}
  PROVE  OwingKept
<1>1. \A q \in Requests \ {r} : pc'[q] = pc[q] /\ owed'[q] = owed[q]
  BY DEF Goto, TypeOK
<1>2. ASSUME NEW stages \in SUBSET (Settlement \ {"usage"})
      PROVE  Owing(stages)' = Owing(stages)
  <2>1. pc'[r] \notin stages /\ pc[r] \notin stages
    BY DEF Goto, TypeOK
  <2>2. /\ Owing(stages) \in Nat
        /\ Owing(stages)' = Owing(stages) + (IF pc'[r] \in stages THEN owed'[r] ELSE 0)
                                          - (IF pc[r] \in stages THEN owed[r] ELSE 0)
    BY <1>1, OwingStep
  <2> QED BY <2>1, <2>2
<1> QED BY <1>2 DEF OwingKept, Settlement

\* Nobody is without a row who was not, unless the month's row is gone.
LEMMA RowlessShrinks ==
  ASSUME TypeOK, NEW r \in Requests, NEW stage, Goto(r, stage), month' = month,
         \A m \in Months : count'[m] >= count[m], TypeOK',
         \A q \in Requests \ {r} : due'[q] = due[q],
         stage \in {"limit", "provider"} => r \in Rowless \/ count'[month] > 0,
         stage \in Settlement => r \in Rowless \/ count'[due'[r]] > 0
  PROVE  Rowless' \subseteq Rowless
<1> SUFFICES ASSUME NEW q \in Rowless' PROVE q \in Rowless
  OBVIOUS
<1>1. q \in Requests /\ pc' = [pc EXCEPT ![r] = stage] /\ pc \in [Requests -> Stages]
  BY DEF Rowless, Goto, TypeOK
<1>2. \A m \in Months : count[m] \in Nat /\ count'[m] \in Nat /\ (count'[m] = 0 => count[m] = 0)
  BY DEF TypeOK
<1>3. month \in Months /\ due'[q] \in Months
  BY <1>1 DEF TypeOK
<1>4. CASE q = r
  BY <1>1, <1>2, <1>3, <1>4 DEF Rowless
<1>5. CASE q # r
  <2>1. pc'[q] = pc[q] /\ due'[q] = due[q]
    BY <1>1, <1>5
  <2> QED BY <1>1, <1>2, <1>3, <2>1 DEF Rowless
<1> QED BY <1>4, <1>5

\* Every step without a fault keeps the books balanced.
LEMMA BooksStep ==
  ASSUME TypeOK, Balanced, [Next]_vars, faults = 0, faults' = 0
  PROVE  Balanced'
<1> TypeOK'
  BY TypeStep
<1> USE DEF purse, policy, books, admin
<1>1. ~Fault
  BY DEF Fault
<1>2. /\ month \in Months /\ count \in [Months -> Nat] /\ Months \subseteq Nat
      /\ \A m \in Months : count[m] \in Nat
  BY CalendarTyped DEF TypeOK
<1>3. CASE UNCHANGED vars
  <2>1. OwingKept /\ Credits' = Credits /\ Rowless' \subseteq Rowless
    BY <1>3 DEF vars, OwingKept, Owing, Credits, Rowless
  <2> QED BY <1>3, <2>1, BooksUndisturbed DEF vars
<1>4. ASSUME NEW r \in Requests, NEW stage, Goto(r, stage), UNCHANGED <<month, owed, due, count>>,
             UNCHANGED <<balance, usage, cost, used, credited, crediting>>, wallet => wallet',
             stage = "charge" => wallet', OwingKept,
             stage = "limit" => pc[r] = "limit",
             stage = "provider" => pc[r] \in {"limit", "provider"},
             stage \in Settlement => pc[r] \in Settlement
      PROVE  Balanced'
  <2>1. Credits' = Credits
    BY <1>4 DEF Credits
  <2>2. \A q \in Requests : pc'[q] = "charge" => pc[q] = "charge" \/ wallet'
    BY <1>4 DEF Goto, TypeOK
  <2>3. due[r] \in Months
    BY DEF TypeOK
  <2>4. (stage \in {"limit", "provider"} => r \in Rowless \/ count'[month] > 0)
        /\ (stage \in Settlement => r \in Rowless \/ count'[due'[r]] > 0)
    BY <1>2, <1>4, <2>3 DEF Rowless
  <2>5. \A m \in Months : count'[m] >= count[m]
    BY <1>2, <1>4
  <2>6. Rowless' \subseteq Rowless
    BY <1>4, <2>4, <2>5, RowlessShrinks
  <2> QED BY <1>4, <2>1, <2>2, <2>6, BooksUndisturbed
<1>5. ASSUME NEW r \in Requests,
             \/ Arrive(r) \/ CheckBalance(r) \/ ReadQuota(r) \/ Deny(r)
             \/ CheckCost(r) \/ Unanswered(r)
      PROVE  Balanced'
  <2>1. /\ UNCHANGED <<month, owed, due, count, wallet>>
        /\ UNCHANGED <<balance, usage, cost, used, credited, crediting>>
    BY <1>5 DEF Arrive, CheckBalance, ReadQuota, Deny, CheckCost, Unanswered
  <2>2. PICK stage \in {"balance", "plan", "admit", "idle", "provider"} :
          Goto(r, stage) /\ (stage = "provider" => pc[r] = "limit")
    BY <1>5 DEF Arrive, CheckBalance, ReadQuota, Deny, CheckCost, Unanswered
  <2>3. pc[r] \notin Settlement
    BY <1>5 DEF Arrive, CheckBalance, ReadQuota, Deny, CheckCost, Unanswered, Settlement
  <2>4. stage \notin Settlement
    BY DEF Settlement
  <2>5. OwingKept
    BY <2>1, <2>2, <2>3, <2>4, OwingElsewhere
  <2> QED BY <1>4, <2>1, <2>2, <2>4, <2>5
<1>6. ASSUME NEW r \in Requests, CheckFails(r) \/ AdmitFails(r) \/ SettlementFails(r)
      PROVE  Balanced'
  BY <1>1, <1>6 DEF CheckFails, AdmitFails, SettlementFails
<1>7. ASSUME NEW r \in Requests, Admit(r) PROVE Balanced'
  <2>1. /\ UNCHANGED <<month, owed, due, wallet>>
        /\ UNCHANGED <<balance, usage, cost, used, credited, crediting>>
        /\ pc[r] = "admit" /\ Goto(r, "limit")
    BY <1>7 DEF Admit
  <2>2. OwingKept
    BY <2>1, OwingElsewhere DEF Settlement
  <2>3. /\ count'[month] > 0 /\ \A m \in Months : count'[m] >= count[m]
        /\ \A m \in Months : m > month => count'[m] = count[m]
    BY <1>2, <1>7 DEF Admit
  <2>4. Rowless' \subseteq Rowless
    BY <2>1, <2>3, RowlessShrinks DEF Settlement
  <2>5. \A q \in Requests : pc'[q] = "charge" => pc[q] = "charge"
    BY <2>1 DEF Goto, TypeOK
  <2>6. Credits' = Credits
    BY <2>1 DEF Credits
  <2> QED BY <2>1, <2>2, <2>3, <2>4, <2>5, <2>6, BooksUndisturbed
<1>8. ASSUME NEW r \in Requests, Answered(r) PROVE Balanced'
  <2>1. /\ UNCHANGED <<month, count, wallet>>
        /\ UNCHANGED <<balance, usage, cost, used, credited, crediting>>
        /\ \A q \in Requests \ {r} : owed'[q] = owed[q] /\ due'[q] = due[q]
        /\ pc[r] = "provider" /\ Goto(r, "usage") /\ due'[r] = month
    BY <1>8 DEF Answered, TypeOK
  <2>2. OwingKept
    BY <2>1, OwingElsewhere DEF Settlement
  <2>3. r \in Rowless \/ count'[month] > 0
    BY <1>2, <2>1 DEF Rowless
  <2>4. \A m \in Months : count'[m] >= count[m]
    <3>1. count' = count
      BY <2>1
    <3> QED BY <1>2, <3>1
  <2>5. Rowless' \subseteq Rowless
    BY <2>1, <2>3, <2>4, RowlessShrinks
  <2>6. \A q \in Requests : pc'[q] = "charge" => pc[q] = "charge"
    BY <2>1 DEF Goto, TypeOK
  <2>7. Credits' = Credits
    BY <2>1 DEF Credits
  <2> QED BY <2>1, <2>2, <2>5, <2>6, <2>7, BooksUndisturbed
<1>9. ASSUME NEW r \in Requests, OpenWallet(r) PROVE Balanced'
  <2>1. /\ UNCHANGED <<month, owed, due, count>>
        /\ UNCHANGED <<balance, usage, cost, used, credited, crediting>>
        /\ pc[r] = "wallet" /\ Goto(r, "charge") /\ wallet'
    BY <1>9 DEF OpenWallet, NextStage
  <2>2. /\ pc'[r] = "charge" /\ owed[r] \in Nat /\ owed'[r] = owed[r]
        /\ \A q \in Requests \ {r} : pc'[q] = pc[q] /\ owed'[q] = owed[q]
    BY <2>1 DEF Goto, TypeOK
  <2>3. OwingKept
    BY <2>1, <2>2, OwingStep DEF OwingKept
  <2> QED BY <1>4, <2>1, <2>3 DEF Settlement
<1>10. ASSUME NEW r \in Requests, NEW stage, Goto(r, stage), stage # "charge",
              UNCHANGED <<month, due, count, wallet>>, pc[r] \in Settlement,
              LostBounded', Unaccounted' >= 0,
              balance' = Credits' - used' - Owing({"ledger"})',
              usage' = used' + Owing({"wallet", "charge", "ledger"})'
       PROVE  Balanced'
  <2>1. \A q \in Requests : pc'[q] = "charge" => wallet'
    BY <1>10 DEF Goto, TypeOK, Balanced
  <2>2. \A m \in Months : m > month' => count'[m] = 0
    BY <1>10 DEF Balanced
  <2> QED BY <1>10, <2>1, <2>2 DEF Balanced
<1>11. ASSUME NEW r \in Requests, NEW stage, Goto(r, stage),
              UNCHANGED <<month, due, count>>, pc[r] \in Settlement,
              stage \in Settlement \/ stage = "idle"
       PROVE  Rowless' \subseteq Rowless
  <2>1. \A m \in Months : count'[m] >= count[m]
    BY <1>2, <1>11
  <2>2. due[r] \in Months /\ stage \notin {"limit", "provider"}
    BY <1>11 DEF TypeOK, Settlement
  <2>3. r \in Rowless \/ count'[due'[r]] > 0
    <3>1. count[due[r]] \in Nat
      BY <1>2, <2>2
    <3>2. count'[due'[r]] = count[due[r]]
      BY <1>11
    <3> QED BY <1>11, <3>1, <3>2 DEF Rowless
  <2> QED BY <1>11, <2>1, <2>2, <2>3, RowlessShrinks
<1>12. ASSUME NEW r \in Requests, InsertUsage(r) PROVE Balanced'
  <2> DEFINE stage == IF owed[r] > 0 THEN "wallet" ELSE "policy"
             W == Owing({"wallet", "charge", "ledger"})
             P == Owing({"wallet", "charge", "ledger", "policy"})
  <2>1. /\ UNCHANGED <<month, owed, due, count, wallet, balance, cost, used, credited, crediting>>
        /\ pc[r] = "usage" /\ Goto(r, stage) /\ usage' = usage + owed[r]
    BY <1>12 DEF InsertUsage, NextStage
  <2>2. /\ pc'[r] = stage /\ owed[r] \in Nat /\ owed'[r] = owed[r]
        /\ \A q \in Requests \ {r} : pc'[q] = pc[q] /\ owed'[q] = owed[q]
    BY <2>1 DEF Goto, TypeOK
  <2>3. Owing({"ledger"})' = Owing({"ledger"}) /\ W \in Nat /\ P \in Nat
    BY <2>1, <2>2, OwingStep
  <2>4. W' = W + owed[r]
    BY <2>1, <2>2, OwingStep
  <2>5. P' = P + owed[r]
    BY <2>1, <2>2, OwingStep
  <2>6. Unaccounted' = Unaccounted
    <3>1. Accounted' = Accounted /\ Accounted \in Nat /\ usage \in Nat
      BY <2>1, SumsTyped DEF Accounted, TypeOK
    <3>2. Unaccounted = usage - Accounted - P /\ Unaccounted' = usage' - Accounted' - P'
      BY DEF Unaccounted
    <3> HIDE DEF P
    <3> QED BY <2>1, <2>2, <2>3, <2>5, <3>1, <3>2
  <2>7. LostBounded'
    <3>1. Rowless' \subseteq Rowless
      BY <1>11, <2>1 DEF Settlement
    <3> QED BY <2>1, <2>6, <3>1, LostKept DEF Balanced
  <2>8. usage' = used' + W'
    <3>1. usage = used + W /\ used \in Nat
      BY DEF Balanced, TypeOK
    <3> HIDE DEF W
    <3> QED BY <2>1, <2>2, <2>3, <2>4, <3>1
  <2>9. balance' = Credits' - used' - Owing({"ledger"})' /\ Unaccounted' >= 0
    BY <2>1, <2>3, <2>6 DEF Balanced, Credits
  <2> QED BY <1>10, <2>1, <2>7, <2>8, <2>9 DEF Settlement
<1>13. ASSUME NEW r \in Requests, Charge(r) PROVE Balanced'
  <2> DEFINE L == Owing({"ledger"})
  <2>1. /\ UNCHANGED <<month, owed, due, count, wallet, usage, cost, used, credited, crediting>>
        /\ pc[r] = "charge" /\ Goto(r, "ledger") /\ balance' = AfterCharge(owed[r])
    BY <1>13 DEF Charge, NextStage
  <2>2. /\ pc'[r] = "ledger" /\ owed[r] \in Nat /\ owed'[r] = owed[r]
        /\ \A q \in Requests \ {r} : pc'[q] = pc[q] /\ owed'[q] = owed[q]
    BY <2>1 DEF Goto, TypeOK
  <2>3. /\ Owing({"wallet", "charge", "ledger"})' = Owing({"wallet", "charge", "ledger"})
        /\ Owing({"wallet", "charge", "ledger", "policy"})'
             = Owing({"wallet", "charge", "ledger", "policy"})
    BY <2>1, <2>2, OwingStep
  <2>4. L \in Nat /\ L' = L + owed[r]
    BY <2>1, <2>2, OwingStep
  <2>5. balance' = Credits' - used' - L'
    <3>1. balance' = balance - owed[r]
      BY <2>1 DEF AfterCharge, Balanced
    <3>2. Credits' = Credits /\ Credits \in Nat /\ used \in Nat
      BY <2>1 DEF Credits, TypeOK
    <3>3. balance = Credits - used - L
      BY DEF Balanced
    <3> HIDE DEF L
    <3> QED BY <2>1, <2>2, <2>4, <3>1, <3>2, <3>3
  <2>6. Unaccounted' = Unaccounted
    BY <2>1, <2>3 DEF Unaccounted, Accounted
  <2>7. LostBounded'
    <3>1. Rowless' \subseteq Rowless
      BY <1>11, <2>1 DEF Settlement
    <3> QED BY <2>1, <2>6, <3>1, LostKept DEF Balanced
  <2>8. usage' = used' + Owing({"wallet", "charge", "ledger"})' /\ Unaccounted' >= 0
    BY <2>1, <2>3, <2>6 DEF Balanced
  <2> QED BY <1>10, <2>1, <2>5, <2>7, <2>8 DEF Settlement
<1>14. ASSUME NEW r \in Requests, PostUsage(r) PROVE Balanced'
  <2> DEFINE L == Owing({"ledger"})
             W == Owing({"wallet", "charge", "ledger"})
  <2>1. /\ UNCHANGED <<month, owed, due, count, wallet, usage, cost, balance, credited, crediting>>
        /\ pc[r] = "ledger" /\ Goto(r, "policy") /\ used' = used + owed[r]
    BY <1>14 DEF PostUsage, NextStage
  <2>2. /\ pc'[r] = "policy" /\ owed[r] \in Nat /\ owed'[r] = owed[r]
        /\ \A q \in Requests \ {r} : pc'[q] = pc[q] /\ owed'[q] = owed[q]
    BY <2>1 DEF Goto, TypeOK
  <2>3. Owing({"wallet", "charge", "ledger", "policy"})'
          = Owing({"wallet", "charge", "ledger", "policy"})
    BY <2>1, <2>2, OwingStep
  <2>4. L \in Nat /\ L' = L - owed[r]
    BY <2>1, <2>2, OwingStep
  <2>5. W \in Nat /\ W' = W - owed[r]
    BY <2>1, <2>2, OwingStep
  <2>6. balance' = Credits' - used' - L'
    <3>1. Credits' = Credits /\ Credits \in Nat /\ used \in Nat
      BY <2>1 DEF Credits, TypeOK
    <3>2. balance = Credits - used - L
      BY DEF Balanced
    <3> HIDE DEF L
    <3> QED BY <2>1, <2>2, <2>4, <3>1, <3>2
  <2>7. usage' = used' + W'
    <3>1. usage = used + W /\ used \in Nat
      BY DEF Balanced, TypeOK
    <3> HIDE DEF W
    <3> QED BY <2>1, <2>2, <2>5, <3>1
  <2>8. Unaccounted' = Unaccounted
    BY <2>1, <2>3 DEF Unaccounted, Accounted
  <2>9. LostBounded' /\ Unaccounted' >= 0
    <3>1. Rowless' \subseteq Rowless
      BY <1>11, <2>1 DEF Settlement
    <3> QED BY <2>1, <2>8, <3>1, LostKept DEF Balanced
  <2> QED BY <1>10, <2>1, <2>6, <2>7, <2>9 DEF Settlement
<1>15. ASSUME NEW r \in Requests, AddToPolicy(r) PROVE Balanced'
  <2> DEFINE P == Owing({"wallet", "charge", "ledger", "policy"})
             d == due[r]
  <2>1. /\ UNCHANGED <<month, owed, due, count, wallet, usage, used, balance, credited, crediting>>
        /\ pc[r] = "policy" /\ Goto(r, "idle") /\ Booked(d, owed[r])
    BY <1>15 DEF AddToPolicy, NextStage
  <2>2. /\ pc'[r] = "idle" /\ owed[r] \in Nat /\ owed'[r] = owed[r] /\ d \in Months
        /\ \A q \in Requests \ {r} : pc'[q] = pc[q] /\ owed'[q] = owed[q]
    BY <2>1 DEF Goto, TypeOK
  <2>3. /\ Owing({"ledger"})' = Owing({"ledger"})
        /\ Owing({"wallet", "charge", "ledger"})' = Owing({"wallet", "charge", "ledger"})
    BY <2>1, <2>2, OwingStep
  <2>4. P \in Nat /\ P' = P - owed[r]
    BY <2>1, <2>2, OwingStep
  <2>5. /\ Accounted' = Accounted + (IF count[d] = 0 THEN 0 ELSE owed[r])
        /\ Accounted \in Nat /\ usage \in Nat
    BY <2>1, BookedSum, SumsTyped DEF TypeOK
  <2>6. Unaccounted' = Unaccounted + (IF count[d] = 0 THEN owed[r] ELSE 0) /\ Unaccounted \in Int
    <3>1. Unaccounted = usage - Accounted - P /\ Unaccounted' = usage' - Accounted' - P'
      BY DEF Unaccounted
    <3> HIDE DEF P
    <3> QED BY <2>1, <2>2, <2>4, <2>5, <3>1
  <2>7. Unaccounted' >= 0
    BY <2>2, <2>6 DEF Balanced
  <2>8. Rowless' \subseteq Rowless
    BY <1>11, <2>1 DEF Settlement
  <2>9. LostBounded'
    <3>1. CASE count[d] = 0
      <4>1. r \in Rowless /\ r \notin Rowless'
        BY <2>1, <2>2, <3>1 DEF Rowless, Settlement
      <4>2. Rowless' \subseteq Rowless \ {r} /\ Unaccounted' = Unaccounted + owed[r]
        BY <2>6, <2>8, <3>1, <4>1
      <4> QED BY <2>1, <4>1, <4>2, LostKept DEF Balanced
    <3>2. CASE count[d] # 0
      BY <2>1, <2>6, <2>8, <3>2, LostKept DEF Balanced
    <3> QED BY <3>1, <3>2
  <2>10. /\ balance' = Credits' - used' - Owing({"ledger"})'
         /\ usage' = used' + Owing({"wallet", "charge", "ledger"})'
    BY <2>1, <2>3 DEF Balanced, Credits
  <2> QED BY <1>10, <2>1, <2>7, <2>9, <2>10 DEF Settlement
<1>16. ASSUME NEW a \in Amounts, CreditWallet(a) PROVE Balanced'
  <2>1. /\ UNCHANGED <<month, pc, owed, due, count, cost, usage, used, credited>>
        /\ crediting = 0 /\ crediting' = a /\ balance' = balance + a /\ wallet'
    BY <1>16 DEF CreditWallet, request
  <2>2. a \in Nat /\ credited \in Nat
    BY ChatBillingAssumption DEF TypeOK
  <2>3. Credits' = Credits + a /\ Credits \in Nat
    BY <2>1, <2>2 DEF Credits
  <2>4. OwingKept /\ Owing({"ledger"})' = Owing({"ledger"}) /\ Owing({"ledger"}) \in Nat
    BY <2>1, SumsTyped DEF OwingKept, Owing
  <2>5. balance' = Credits' - used' - Owing({"ledger"})'
    <3> DEFINE L == Owing({"ledger"})
    <3>1. L \in Nat /\ L' = L /\ balance = Credits - used - L /\ used \in Nat
      BY <2>4 DEF Balanced, TypeOK
    <3> HIDE DEF L
    <3>2. balance' = Credits' - used' - L'
      BY <2>1, <2>2, <2>3, <3>1
    <3> QED BY <3>2 DEF L
  <2>6. Unaccounted' = Unaccounted
    BY <2>1, <2>4 DEF Unaccounted, Accounted, OwingKept
  <2>7. LostBounded'
    BY <2>1, <2>6 DEF LostBounded, Balanced, Rowless
  <2> QED BY <2>1, <2>4, <2>5, <2>6, <2>7 DEF Balanced, OwingKept
<1>17. CASE PostCredit
  <2>1. /\ UNCHANGED <<month, pc, owed, due, count, cost, usage, used, wallet, balance>>
        /\ crediting' = 0 /\ credited' = credited + crediting
    BY <1>1, <1>17 DEF PostCredit, request
  <2>2. Credits' = Credits
    BY <2>1 DEF Credits, TypeOK
  <2>3. OwingKept /\ Rowless' \subseteq Rowless
    BY <2>1 DEF OwingKept, Owing, Rowless
  <2> QED BY <2>1, <2>2, <2>3, BooksUndisturbed
<1>18. ASSUME NEW q \in Quotas, SetPlan(q) PROVE Balanced'
  <2>1. UNCHANGED <<month, pc, owed, due, count, cost, usage, used, wallet, balance,
                    credited, crediting>>
    BY <1>18 DEF SetPlan, request
  <2>2. OwingKept /\ Rowless' \subseteq Rowless /\ Credits' = Credits
    BY <2>1 DEF OwingKept, Owing, Rowless, Credits
  <2> QED BY <2>1, <2>2, BooksUndisturbed
<1>19. CASE NextMonth
  <2>1. /\ UNCHANGED <<pc, owed, due, count, cost, usage, used, wallet, balance,
                       credited, crediting>>
        /\ month' = month + 1
    BY <1>19 DEF NextMonth, request
  <2>2. OwingKept /\ Credits' = Credits
    BY <2>1 DEF OwingKept, Owing, Credits
  <2>3. Unaccounted' = Unaccounted
    BY <2>1, <2>2 DEF Unaccounted, Accounted, OwingKept
  <2>4. LostBounded'
    BY <2>1, <2>3, LostAtMonthsEnd DEF Balanced
  <2>5. \A m \in Months : m > month' => m > month
    BY <1>2, <2>1
  <2> QED BY <2>1, <2>2, <2>3, <2>4, <2>5 DEF Balanced, OwingKept
<1>20. CASE Crash
  BY <1>1, <1>20 DEF Crash
<1> QED
  BY <1>3, <1>5, <1>6, <1>7, <1>8, <1>9, <1>12, <1>13, <1>14, <1>15, <1>16, <1>17,
     <1>18, <1>19, <1>20
     DEF Next, RequestStep

\* Faults are only ever counted up.
LEMMA FaultsGrow == TypeOK /\ [Next]_vars /\ faults' = 0 => faults = 0
<1> SUFFICES ASSUME TypeOK, [Next]_vars, faults' = 0 PROVE faults = 0
  OBVIOUS
<1>1. ASSUME UNCHANGED faults \/ Fault PROVE faults = 0
  BY <1>1 DEF Fault, TypeOK
<1> QED
  BY <1>1 DEF Next, RequestStep, vars, Arrive, CheckBalance, CheckFails, ReadQuota, Admit, Deny,
              AdmitFails, CheckCost, Answered, Unanswered, InsertUsage, OpenWallet,
              Charge, PostUsage, AddToPolicy, SettlementFails, CreditWallet, PostCredit,
              SetPlan, NextMonth, Crash

\* BooksAgree: when nothing failed and nothing is in progress, wallet, ledger,
\* usage and the months' rows agree but for the calls under way at a month's end.
THEOREM Books == Spec => []BooksAgree
<1>1. TypeOK /\ Init => BooksInv
  <2> SUFFICES ASSUME TypeOK, Init PROVE Balanced
    BY DEF BooksInv
  <2>1. ASSUME NEW stages, "idle" \notin stages PROVE Owing(stages) = 0
    <3> DEFINE f == [r \in Requests |-> IF pc[r] \in stages THEN owed[r] ELSE 0]
    <3>1. IsFiniteSet(Requests) /\ (\A r \in Requests : f[r] = 0)
          /\ Owing(stages) = SumFunctionOnSet(f, Requests)
      BY <2>1, ChatBillingAssumption DEF Init, Owing
    <3> HIDE DEF f
    <3> QED BY <3>1, SumZero
  <2>2. Accounted = 0
    BY CalendarTyped, SumZero DEF Init, Accounted
  <2>3. Rowless = {} /\ Credits = 0
    BY DEF Init, Rowless, Credits, Settlement
  <2>4. Unaccounted = 0
    BY <2>1, <2>2 DEF Init, Unaccounted
  <2>5. LostBounded
    <3>1. MaxCost \in Nat /\ Cardinality(Requests) \in Nat /\ Cardinality({}) = 0 /\ month = 1
      BY ChatBillingAssumption, FS_CardinalityType, FS_EmptySet DEF Init
    <3> QED BY <2>3, <2>4, <3>1 DEF LostBounded
  <2> QED BY <2>1, <2>3, <2>4, <2>5 DEF Init, Balanced
<1>2. TypeOK /\ BooksInv => BooksAgree
  <2> SUFFICES ASSUME TypeOK, Balanced, Idle, faults = 0 PROVE BooksAgree
    BY DEF BooksInv, BooksAgree
  <2>1. ASSUME NEW stages, "idle" \notin stages PROVE Owing(stages) = 0
    <3> DEFINE f == [r \in Requests |-> IF pc[r] \in stages THEN owed[r] ELSE 0]
    <3>1. IsFiniteSet(Requests) /\ (\A r \in Requests : f[r] = 0)
          /\ Owing(stages) = SumFunctionOnSet(f, Requests)
      BY <2>1, ChatBillingAssumption DEF Idle, Owing
    <3> HIDE DEF f
    <3> QED BY <3>1, SumZero
  <2>2. balance = credited - used /\ usage = used
    <3>1. credited \in Nat /\ used \in Nat /\ crediting = 0
      BY DEF TypeOK, Idle
    <3>2. balance = Credits - used - 0 /\ usage = used + 0
      BY <2>1 DEF Balanced
    <3>3. Credits = credited
      BY <3>1 DEF Credits
    <3> QED BY <3>1, <3>2, <3>3
  <2>3. Unaccounted = usage - Accounted /\ usage \in Nat /\ Accounted \in Nat
    <3>1. usage \in Nat /\ Accounted \in Nat
      BY SumsTyped DEF TypeOK
    <3>2. Unaccounted = usage - Accounted - 0
      BY <2>1 DEF Unaccounted
    <3> QED BY <3>1, <3>2
  <2>4. Rowless = {}
    BY DEF Idle, Rowless, Settlement
  <2>5. Unaccounted \in 0..MaxCost * Cardinality(Requests) * (month - 1)
    <3> DEFINE N == Cardinality(Requests)
    <3>1. MaxCost \in Nat /\ N \in Nat /\ Cardinality({}) = 0 /\ month \in Nat
      BY ChatBillingAssumption, CalendarTyped, FS_CardinalityType, FS_EmptySet DEF TypeOK
    <3>2. Unaccounted + MaxCost * 0 <= MaxCost * (N * (month - 1)) /\ Unaccounted >= 0
      BY <2>4, <3>1 DEF Balanced, LostBounded
    <3> HIDE DEF N
    <3>3. MaxCost * (N * (month - 1)) = MaxCost * N * (month - 1)
      BY <3>1
    <3>4. Unaccounted \in Int /\ MaxCost * 0 = 0 /\ MaxCost * N * (month - 1) \in Int
      BY <2>3, <3>1
    <3> QED BY <3>2, <3>3, <3>4 DEF N
  <2> QED BY <2>2, <2>3, <2>5 DEF BooksAgree
<1>3. TypeOK /\ BooksInv /\ [Next]_vars => BooksInv'
  <2> SUFFICES ASSUME TypeOK, BooksInv, [Next]_vars, faults' = 0 PROVE Balanced'
    BY DEF BooksInv
  <2>1. faults = 0 /\ Balanced
    BY FaultsGrow DEF BooksInv
  <2> QED BY <2>1, BooksStep
<1> QED BY <1>1, <1>2, <1>3, TypeInvariance, PTL DEF Spec

(***************************************************************************)
(* The rate limit: Gateway.                                                *)
(***************************************************************************)

\* Ages are finitely many, and so are those under a bound.
LEMMA AgesFinite ==
  /\ IsFiniteSet(Ages) /\ 0 \in Ages
         /\ \A n : IsFiniteSet({a \in Ages : a < n})
<1>1. IsFiniteSet(Ages) /\ 0 \in Ages
  BY FS_Interval, GatewayAssumption DEF Ages
<1> QED BY <1>1, FS_Subset

\* The element of a function on ages is at most its total.
LEMMA TotalBounds ==
  ASSUME NEW f \in [Ages -> Nat]
  PROVE  Total(f) \in Nat /\ \A a \in Ages : f[a] <= Total(f)
BY AgesFinite, SumPart DEF Total, Within

\* Every step of a gateway keeps the state well typed.
LEMMA GatewayTypeStep ==
  ASSUME GateTypeOK, [GateNext]_gateVars
  PROVE  GateTypeOK'
<1> USE GatewayAssumption DEF GateTypeOK, limiter, breaker
<1>1. CASE UNCHANGED gateVars
  BY <1>1 DEF gateVars
<1>2. \A h \in Handlers, stage \in GateStages :
        GoOn(h, stage) => turn' \in [Handlers -> GateStages]
  BY DEF GoOn
<1>3. 0 \in Ages
  BY AgesFinite
<1>4. ASSUME NEW h \in Handlers, Increment(h) PROVE GateTypeOK'
  <2>1. key' \in 0..Limit + 1
    BY <1>4 DEF Increment, Incremented
  <2>2. counted' \in [Ages -> Nat]
    BY <1>3, <1>4 DEF Increment
  <2>3. turn' \in [Handlers -> GateStages]
    BY <1>2, <1>4 DEF Increment, GateStages
  <2> QED BY <1>4, <2>1, <2>2, <2>3 DEF Increment
<1>5. ASSUME NEW h \in Handlers, Expire(h) \/ ExpireFails(h) PROVE GateTypeOK'
  <2>1. turn' \in [Handlers -> GateStages]
    BY <1>2, <1>5 DEF Expire, ExpireFails, GateStages
  <2> QED BY <1>5, <2>1 DEF Expire, ExpireFails, Error
<1>6. ASSUME NEW h \in Handlers, FallBack(h) PROVE GateTypeOK'
  <2>1. key' \in 0..Limit + 1
    BY <1>6 DEF FallBack, Incremented
  <2>2. recent' \in [Ages -> 0..Limit]
    <3>1. recent \in [Ages -> Nat]
      OBVIOUS
    <3>2. recent[0] <= Total(recent) /\ Total(recent) \in Nat
      BY <1>3, <3>1, TotalBounds
    <3>3. Total(recent) < Limit => recent[0] + 1 \in 0..Limit
      BY <1>3, <3>2
    <3> QED BY <1>3, <1>6, <3>3 DEF FallBack
  <2>3. turn' \in [Handlers -> GateStages]
    BY <1>2, <1>6 DEF FallBack, GateStages
  <2> QED BY <1>6, <2>1, <2>2, <2>3 DEF FallBack, Error
<1>7. ASSUME NEW h \in Handlers,
             \/ Check(h) \/ Refuse(h) \/ ProviderAnswers(h) \/ AttemptsFail(h)
             \/ Cancelled(h)
      PROVE  GateTypeOK'
  <2>1. turn' \in [Handlers -> GateStages]
    BY <1>2, <1>7 DEF Check, Refuse, ProviderAnswers, AttemptsFail, Cancelled, GateStages
  <2> QED
    BY <1>7, <2>1 DEF Check, Refuse, ProviderAnswers, AttemptsFail, Cancelled
<1>8. ASSUME NEW h \in Handlers, RecordFailure(h) \/ RecordSuccess(h) PROVE GateTypeOK'
  <2>1. turn' \in [Handlers -> GateStages]
    BY <1>2, <1>8 DEF RecordFailure, RecordSuccess, GateStages
  <2>2. failures' \in 0..Threshold - 1 /\ open' \in 0..Cooldown
    BY <1>8 DEF RecordFailure, RecordSuccess, Failure
  <2> QED BY <1>8, <2>1, <2>2 DEF RecordFailure, RecordSuccess
<1>9. CASE Tick
  <2>1. \A f \in [Ages -> Nat] : Older(f) \in [Ages -> Nat]
    BY DEF Older, Ages
  <2>2. \A f \in [Ages -> 0..Limit] : Older(f) \in [Ages -> 0..Limit]
    BY DEF Older, Ages
  <2>3. ttl' \in 0..Window /\ open' \in 0..Cooldown /\ key' \in 0..Limit + 1
    BY <1>9 DEF Tick, Younger
  <2> QED BY <1>9, <2>1, <2>2, <2>3 DEF Tick
<1>10. CASE ProviderTurns
  BY <1>10 DEF ProviderTurns
<1>11. CASE Restart
  BY <1>11 DEF Restart, Error, GateStages
<1> QED
  BY <1>1, <1>4, <1>5, <1>6, <1>7, <1>8, <1>9, <1>10, <1>11 DEF GateNext, HandlerStep

\* Types: the counter stays within one of the limit, the failures below the
\* threshold that opens the breaker.
THEOREM GatewayTypes ==
  GateSpec => []GateTypeOK
<1>1. GateInit => GateTypeOK
  BY GatewayAssumption DEF GateInit, GateTypeOK, Ages, GateStages
<1> QED BY <1>1, GatewayTypeStep, PTL DEF GateSpec

\* Requests are counted in naturals; none are younger than now, and the last
\* minute has them all.
LEMMA WithinBounds ==
  ASSUME NEW f \in [Ages -> Nat], NEW n \in Nat
  PROVE  /\ Within(f, n) \in Nat /\ Total(f) \in Nat /\ Within(f, n) <= Total(f)
         /\ Within(f, 0) = 0 /\ Within(f, Window) = Total(f)
<1>1. {a \in Ages : a < 0} = {} /\ {a \in Ages : a < Window} = Ages
  BY GatewayAssumption DEF Ages
<1>2. Within(f, 0) = 0 /\ Within(f, Window) = Total(f)
  BY <1>1, SumEmpty DEF Total, Within
<1>3. Within(f, n) \in Nat /\ Within(f, n) <= Total(f) /\ Total(f) \in Nat
  <2> DEFINE U == {a \in Ages : a < n}
  <2>1. U \in SUBSET Ages /\ IsFiniteSet(Ages)
    BY AgesFinite
  <2> HIDE DEF U
  <2>2. SumFunctionOnSet(f, U) \in Nat /\ SumFunctionOnSet(f, U) <= Total(f)
        /\ Total(f) \in Nat
    BY <2>1, SumPart DEF Total, Within
  <2> QED BY <2>2 DEF U, Total, Within
<1> QED BY <1>2, <1>3

\* One more tick of the past has the requests of that tick more.
LEMMA WithinNext ==
  ASSUME NEW f \in [Ages -> Nat], NEW n \in Ages
  PROVE  Within(f, n + 1) = f[n] + Within(f, n)
<1> DEFINE Under(m) == {a \in Ages : a < m}
<1>1. Under(n + 1) \ {n} = Under(n) /\ n \in Under(n + 1)
  BY DEF Ages
<1>2. IsFiniteSet(Under(n + 1))
  BY AgesFinite
<1>3. \A a \in Under(n + 1) : f[a] \in Int
  OBVIOUS
<1>4. Within(f, n + 1) = SumFunctionOnSet(f, Under(n + 1))
      /\ Within(f, n) = SumFunctionOnSet(f, Under(n))
  BY DEF Total, Within
<1> HIDE DEF Under
<1> QED BY <1>1, <1>2, <1>3, <1>4, SumRemove

\* After a tick, what was let in during the last n ticks was so during n + 1.
LEMMA OlderSums ==
  ASSUME NEW f \in [Ages -> Nat], NEW n \in Ages
  PROVE  /\ Older(f) \in [Ages -> Nat]
         /\ Within(Older(f), n + 1) = Within(f, n)
<1> USE GatewayAssumption
<1> DEFINE g == Older(f)
           P == {m \in Nat : m < Window => Within(g, m + 1) = Within(f, m)}
<1>1. /\ g \in [Ages -> Nat] /\ g[0] = 0 /\ 0 \in Ages
      /\ \A a \in Ages \ {0} : a - 1 \in Ages /\ g[a] = f[a - 1]
  BY DEF Older, Ages
<1> HIDE DEF g
<1>2. 0 \in P
  <2>1. Within(g, 0 + 1) = g[0] + Within(g, 0)
    BY <1>1, WithinNext
  <2>2. Within(g, 0) = 0 /\ Within(f, 0) = 0
    BY <1>1, WithinBounds
  <2> QED BY <1>1, <2>1, <2>2
<1>3. ASSUME NEW m \in P PROVE m + 1 \in P
  <2>1. m \in Nat /\ (m < Window => Within(g, m + 1) = Within(f, m))
    OBVIOUS
  <2>2. ASSUME m + 1 < Window PROVE Within(g, (m + 1) + 1) = Within(f, m + 1)
    <3>1. m \in Ages /\ m + 1 \in Ages /\ m + 1 # 0 /\ (m + 1) - 1 = m
      BY <2>1, <2>2 DEF Ages
    <3>2. Within(g, (m + 1) + 1) = g[m + 1] + Within(g, m + 1)
      BY <1>1, <3>1, WithinNext
    <3>3. Within(f, m + 1) = f[m] + Within(f, m)
      BY <3>1, WithinNext
    <3>4. g[m + 1] = f[m]
      BY <1>1, <3>1
    <3>5. m < Window
      BY <3>1 DEF Ages
    <3> QED BY <2>1, <3>2, <3>3, <3>4, <3>5
  <2>3. m + 1 \in Nat
    BY <2>1
  <2> QED BY <2>2, <2>3
<1>4. P = Nat
  <2>1. P \in SUBSET Nat
    OBVIOUS
  <2> HIDE DEF P
  <2> QED BY <1>2, <1>3, <2>1, NaturalsByInduction
<1>5. n \in Nat /\ n < Window
  BY DEF Ages
<1> QED BY <1>1, <1>4, <1>5 DEF g

\* One request let in now.
LEMMA AdmissionSums ==
  ASSUME NEW f \in [Ages -> Nat]
  PROVE  LET g == [f EXCEPT ![0] = @ + 1]
         IN  /\ g \in [Ages -> Nat] /\ Total(g) = Total(f) + 1
             /\ \A n \in Nat : Within(g, n) <= Within(f, n) + 1
<1> DEFINE g == [f EXCEPT ![0] = @ + 1]
<1>1. /\ g \in [Ages -> Nat] /\ 0 \in Ages
      /\ \A a \in Ages \ {0} : g[a] = f[a]
      /\ g[0] = f[0] + 1 /\ f[0] \in Nat
  BY AgesFinite
<1> HIDE DEF g
<1>2. ASSUME NEW S \in SUBSET Ages, 0 \in S, IsFiniteSet(S)
      PROVE  SumFunctionOnSet(g, S) = SumFunctionOnSet(f, S) + 1
             /\ SumFunctionOnSet(f, S) \in Int
  <2>1. (\A a \in S : f[a] \in Int) /\ (\A a \in S \ {0} : g[a] = f[a]) /\ g[0] \in Int
    BY <1>1
  <2>2. /\ SumFunctionOnSet(f, S) \in Int
        /\ SumFunctionOnSet(g, S) = SumFunctionOnSet(f, S) + g[0] - f[0]
    BY <1>2, <2>1, SumUpdate
  <2> QED BY <1>1, <2>2
<1>3. Total(g) = Total(f) + 1
  BY <1>1, <1>2, AgesFinite DEF Total, Within
<1>4. ASSUME NEW n \in Nat PROVE Within(g, n) <= Within(f, n) + 1
  <2>1. CASE n = 0
    BY <1>1, <2>1, WithinBounds
  <2>2. CASE n # 0
    <3> DEFINE U == {a \in Ages : a < n}
    <3>1. U \in SUBSET Ages /\ 0 \in U /\ IsFiniteSet(U)
      BY <1>1, <2>2, AgesFinite
    <3> HIDE DEF U
    <3>2. SumFunctionOnSet(g, U) <= SumFunctionOnSet(f, U) + 1
      BY <1>2, <3>1
    <3> QED BY <3>2 DEF U, Total, Within
  <2> QED BY <2>1, <2>2
<1> QED BY <1>1, <1>3, <1>4 DEF g

\* Every step preserves RateInv.
LEMMA RateStep ==
  ASSUME GateTypeOK, RateInv, [GateNext]_gateVars
  PROVE  RateInv'
<1> USE GatewayAssumption DEF limiter, breaker
<1>1. /\ Limit \in Nat /\ Limit > 0 /\ Window \in Nat /\ Window > 0
      /\ key \in Nat /\ ttl \in Nat /\ ttl <= Window /\ Window - ttl \in Nat
      /\ counted \in [Ages -> Nat]
  BY DEF GateTypeOK
<1>2. Spent \in Nat /\ Spent <= Limit /\ (key > 0 => Spent > 0) /\ Spent <= key
  BY <1>1 DEF Spent
<1>3. /\ Total(counted) \in Nat /\ Within(counted, Window - ttl) \in Nat
      /\ Within(counted, 0) = 0
  BY <1>1, WithinBounds
<1>4. /\ ExpiryDue /\ Total(counted) < Limit + Spent
      /\ ttl > 0 => key > 0 /\ Within(counted, Window - ttl) < Spent
  BY DEF RateInv
<1>5. ASSUME ttl' = ttl, counted' = counted, key' \in {key, Incremented},
             \A h \in Handlers : turn'[h] = "expire" => turn[h] = "expire"
      PROVE  RateInv'
  <2>1. key' \in Nat /\ key' >= key
    BY <1>1, <1>5 DEF Incremented
  <2>2. Spent' \in Nat /\ Spent' >= Spent
    BY <1>1, <2>1 DEF Spent
  <2>3. ExpiryDue'
    BY <1>1, <1>4, <1>5, <2>1 DEF ExpiryDue
  <2> QED BY <1>1, <1>2, <1>3, <1>4, <1>5, <2>1, <2>2, <2>3 DEF RateInv
<1>6. CASE UNCHANGED gateVars
  BY <1>5, <1>6 DEF gateVars
<1>7. ASSUME NEW h \in Handlers, Increment(h) PROVE RateInv'
  <2>1. CASE ~Admitted(key + 1)
    BY <1>5, <1>7, <2>1 DEF Increment
  <2>2. CASE Admitted(key + 1)
    <3>1. key' = key + 1 /\ Spent = key /\ ttl' = ttl
      BY <1>1, <1>7, <2>2 DEF Increment, Admitted, Incremented, Spent
    <3>2. Spent' = key + 1
      BY <1>1, <2>2, <3>1 DEF Admitted, Spent
    <3>3. counted' = [counted EXCEPT ![0] = @ + 1]
      BY <1>7, <2>2 DEF Increment
    <3>4. Total(counted') = Total(counted) + 1
          /\ Within(counted', Window - ttl) <= Within(counted, Window - ttl) + 1
      BY <1>1, <3>3, AdmissionSums
    <3>5. Within(counted', Window - ttl) \in Nat
      BY <1>1, <3>3, AdmissionSums, WithinBounds
    <3>6. ExpiryDue'
      <4>1. CASE key = 0
        <5>1. ttl' = 0 /\ key' > 0 /\ \A k \in Handlers : turn[k] # "expire"
          BY <1>1, <1>4, <3>1, <4>1 DEF ExpiryDue
        <5>2. \A k \in Handlers : turn'[k] = "expire" => k = h
          BY <1>7, <2>2, <5>1 DEF Increment, GoOn, GateTypeOK
        <5> QED BY <5>1, <5>2 DEF ExpiryDue
      <4>2. CASE key # 0
        <5>1. \A k \in Handlers : turn'[k] = "expire" => turn[k] = "expire"
          BY <1>1, <1>7, <2>2, <4>2 DEF Increment, GoOn, IsFirst, GateTypeOK
        <5> QED BY <1>1, <1>4, <3>1, <5>1 DEF ExpiryDue
      <4> QED BY <4>1, <4>2
    <3> QED BY <1>1, <1>2, <1>3, <1>4, <3>1, <3>2, <3>4, <3>5, <3>6 DEF RateInv
  <2> QED BY <2>1, <2>2
<1>8. ASSUME NEW h \in Handlers, Expire(h) PROVE RateInv'
  <2>1. key' = key /\ key > 0 /\ ttl' = Window /\ counted' = counted /\ Spent' = Spent
    BY <1>4, <1>8 DEF Expire, ExpiryDue, Spent
  <2>2. Window - ttl' = 0
    BY <1>1, <2>1
  <2>3. \A k \in Handlers : turn'[k] # "expire"
    BY <1>4, <1>8 DEF Expire, ExpiryDue, GoOn, GateTypeOK
  <2> QED BY <1>1, <1>2, <1>3, <1>4, <2>1, <2>2, <2>3 DEF RateInv, ExpiryDue
<1>9. ASSUME NEW h \in Handlers, ExpireFails(h) \/ FallBack(h) PROVE RateInv'
  <2>1. \A k \in Handlers : turn'[k] = "expire" => turn[k] = "expire"
    BY <1>9 DEF ExpireFails, FallBack, GoOn, GateTypeOK
  <2> QED BY <1>5, <1>9, <2>1 DEF ExpireFails, FallBack
<1>10. ASSUME NEW h \in Handlers,
             \/ Check(h) \/ Refuse(h) \/ ProviderAnswers(h) \/ AttemptsFail(h)
             \/ Cancelled(h) \/ RecordFailure(h) \/ RecordSuccess(h)
      PROVE  RateInv'
  <2>1. \A k \in Handlers : turn'[k] = "expire" => turn[k] = "expire"
    BY <1>10 DEF Check, Refuse, ProviderAnswers, AttemptsFail,
                 Cancelled, RecordFailure, RecordSuccess, GoOn, GateTypeOK
  <2> QED
    BY <1>5, <1>10, <2>1 DEF Check, Refuse, ProviderAnswers, AttemptsFail,
                             Cancelled, RecordFailure, RecordSuccess
<1>11. CASE Tick
  <2>1. /\ counted' = Older(counted) /\ ttl' = Younger(ttl) /\ turn' = turn
        /\ key' = IF ttl = 1 THEN 0 ELSE key
    BY <1>11 DEF Tick
  <2>2. Window - 1 \in Ages /\ (Window - 1) + 1 = Window
    BY <1>1 DEF Ages
  <2>3. counted' \in [Ages -> Nat] /\ Total(counted') = Within(counted, Window - 1)
    <3>1. Within(counted', (Window - 1) + 1) = Within(counted, Window - 1)
          /\ counted' \in [Ages -> Nat]
      BY <1>1, <2>1, <2>2, OlderSums
    <3> QED BY <1>1, <2>2, <3>1, WithinBounds
  <2>4. /\ Within(counted, Window - 1) <= Total(counted)
        /\ Within(counted, Window - 1) \in Nat
    BY <1>1, <2>2, WithinBounds DEF Ages
  <2>5. CASE ttl = 0
    <3>1. ttl' = 0 /\ key' = key /\ Spent' = Spent
      BY <2>1, <2>5 DEF Younger, Spent
    <3>2. ExpiryDue'
      BY <1>4, <2>1, <2>5, <3>1 DEF ExpiryDue
    <3> QED BY <1>1, <1>2, <1>3, <1>4, <2>1, <2>3, <2>4, <3>1, <3>2 DEF RateInv
  <2>6. CASE ttl > 0
    <3>1. ExpiryDue'
      BY <1>1, <1>4, <2>1, <2>6 DEF ExpiryDue
    <3>2. CASE ttl = 1
      <4>1. ttl' = 0 /\ key' = 0 /\ Spent' = 0
        BY <1>1, <2>1, <3>2 DEF Younger, Spent
      <4> QED BY <1>1, <1>2, <1>4, <2>3, <2>4, <3>1, <3>2, <4>1 DEF RateInv
    <3>3. CASE ttl > 1
      <4>1. ttl' = ttl - 1 /\ key' = key /\ Spent' = Spent
        BY <1>1, <2>1, <3>3 DEF Younger, Spent
      <4>2. Window - ttl \in Ages /\ Window - ttl' = (Window - ttl) + 1
        BY <1>1, <3>3, <4>1 DEF Ages
      <4>3. Within(counted', Window - ttl') = Within(counted, Window - ttl)
        BY <1>1, <2>1, <4>2, OlderSums
      <4> QED
        BY <1>1, <1>2, <1>3, <1>4, <2>1, <2>3, <2>4, <3>1, <3>3, <4>1, <4>3 DEF RateInv
    <3> QED BY <1>1, <2>6, <3>2, <3>3
  <2> QED BY <1>1, <2>5, <2>6
<1>12. CASE ProviderTurns
  BY <1>5, <1>12 DEF ProviderTurns
<1>13. CASE Restart
  BY <1>5, <1>13 DEF Restart
<1> QED
  BY <1>6, <1>7, <1>8, <1>9, <1>10, <1>11, <1>12, <1>13 DEF GateNext, HandlerStep

\* RateBounded: the counter in Redis never lets twice the limit of one user's
\* requests in within a minute, whatever becomes of the EXPIRE (Handler.allowed).
THEOREM RateLimit ==
  GateSpec => []RateBounded
<1>1. GateInit => RateInv
  <2> SUFFICES ASSUME GateInit PROVE RateInv
    OBVIOUS
  <2>1. Total(counted) = 0
    BY AgesFinite, SumZero DEF GateInit, Total, Within
  <2> QED BY <2>1, GatewayAssumption DEF GateInit, RateInv, ExpiryDue, Spent
<1>2. GateTypeOK /\ RateInv => RateBounded
  <2> SUFFICES ASSUME GateTypeOK, RateInv PROVE RateBounded
    OBVIOUS
  <2>1. /\ Limit \in Nat /\ key \in Nat /\ Total(counted) \in Nat
        /\ Total(counted) < Limit + Spent
    BY WithinBounds, GatewayAssumption DEF GateTypeOK, RateInv
  <2>2. Spent \in Nat /\ Spent <= Limit
    BY <2>1 DEF Spent
  <2> QED BY <2>1, <2>2 DEF RateBounded
<1> QED BY <1>1, <1>2, GatewayTypes, RateStep, PTL DEF GateSpec

\* CounterExpires: without a fault no counter is left without an expiry, but by
\* a request that is about to set it (Handler.allowed).
THEOREM CounterIsLetExpire ==
  GateSpec => []CounterExpires
<1> USE GatewayAssumption DEF limiter, breaker
<1>1. GateInit => CounterExpires
  BY DEF GateInit, CounterExpires
<1>2. GateTypeOK /\ CounterExpires /\ [GateNext]_gateVars => CounterExpires'
  <2> SUFFICES ASSUME GateTypeOK, CounterExpires, [GateNext]_gateVars
               PROVE  CounterExpires'
    OBVIOUS
  <2>1. errors \in Nat /\ key \in Nat /\ ttl \in Nat
    BY DEF GateTypeOK
  <2>2. ASSUME ttl' = ttl, key' = key, errors' = errors,
               \A k \in Handlers : turn[k] = "expire" => turn'[k] = "expire"
        PROVE  CounterExpires'
    BY <2>2 DEF CounterExpires
  <2>3. ASSUME Error PROVE CounterExpires'
    BY <2>1, <2>3 DEF Error, CounterExpires
  <2>4. CASE UNCHANGED gateVars
    BY <2>2, <2>4 DEF gateVars
  <2>5. ASSUME NEW h \in Handlers, Increment(h) PROVE CounterExpires'
    <3>1. \A k \in Handlers : turn[k] = "expire" => turn'[k] = "expire"
      BY <2>5 DEF Increment, GoOn, GateTypeOK
    <3>2. CASE key = 0
      <4>1. turn'[h] = "expire"
        BY <2>5, <3>2 DEF Increment, Admitted, IsFirst, GoOn, GateTypeOK
      <4> QED BY <4>1 DEF CounterExpires
    <3>3. CASE key # 0
      BY <2>1, <2>5, <3>1, <3>3 DEF Increment, CounterExpires
    <3> QED BY <3>2, <3>3
  <2>6. ASSUME NEW h \in Handlers, Expire(h) PROVE CounterExpires'
    BY <2>6 DEF Expire, CounterExpires
  <2>7. ASSUME NEW h \in Handlers, ExpireFails(h) \/ FallBack(h)
        PROVE  CounterExpires'
    BY <2>3, <2>7 DEF ExpireFails, FallBack
  <2>8. ASSUME NEW h \in Handlers,
               \/ Check(h) \/ Refuse(h) \/ ProviderAnswers(h) \/ AttemptsFail(h)
               \/ Cancelled(h) \/ RecordFailure(h) \/ RecordSuccess(h)
        PROVE  CounterExpires'
    <3>1. \A k \in Handlers : turn[k] = "expire" => turn'[k] = "expire"
      BY <2>8 DEF Check, Refuse, ProviderAnswers, AttemptsFail,
                  Cancelled, RecordFailure, RecordSuccess, GoOn, GateTypeOK
    <3> QED
      BY <2>2, <2>3, <2>8, <3>1
         DEF Check, Refuse, ProviderAnswers, AttemptsFail,
             Cancelled, RecordFailure, RecordSuccess
  <2>9. CASE Tick
    <3>1. turn' = turn /\ errors' = errors /\ ttl' = Younger(ttl)
          /\ key' = IF ttl = 1 THEN 0 ELSE key
      BY <2>9 DEF Tick
    <3> QED BY <2>1, <3>1 DEF CounterExpires, Younger
  <2>10. CASE ProviderTurns
    BY <2>2, <2>10 DEF ProviderTurns
  <2>11. CASE Restart
    BY <2>3, <2>11 DEF Restart
  <2> QED
    BY <2>4, <2>5, <2>6, <2>7, <2>8, <2>9, <2>10, <2>11 DEF GateNext, HandlerStep
<1> QED BY <1>1, <1>2, GatewayTypes, PTL DEF GateSpec
=============================================================================
