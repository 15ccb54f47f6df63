------------------------ MODULE AdministrationProofs ------------------------
(***************************************************************************)
(* Proofs about Administration, for any number of requests in progress and *)
(* any lifetime of tokens: authority lapses, and an account without it     *)
(* does not get it back by itself.                                         *)
(***************************************************************************)
EXTENDS Administration, TLAPS

\* What holds, or is about to be signed for, held up to now.
HeldUpToNow == \A g \in Grounds : Held(g) \/ Claimed(g) => since[g] = 0

Lapsing == TokensLapse /\ HeldUpToNow

IInv == TypeOK /\ Lapsing

-----------------------------------------------------------------------------

\* No token is signed and nothing is claimed at first.
LEMMA InitInvariant == Init => IInv
<1> SUFFICES ASSUME Init PROVE IInv
  OBVIOUS
<1> USE AdministrationAssumption
<1>1. TypeOK
  BY DEF Init, TypeOK, Grounds, Roles, Permissions, Request, Stages, Idle
<1>2. Lapsing
  BY DEF Init, Lapsing, TokensLapse, HeldUpToNow
<1>3. QED BY <1>1, <1>2 DEF IInv

\* A request is always well-formed.
LEMMA RequestType ==
  ASSUME TypeOK, NEW q \in Requests
  PROVE  /\ req[q] \in Request /\ req[q].role \in Roles /\ req[q].refresh \in BOOLEAN
         /\ Idle \in Request
BY DEF TypeOK, Request, Idle, Stages, Roles

\* Every step but Tick keeps the type of the history.
LEMMA WatchType ==
  ASSUME TypeOK, NEW G \in SUBSET Grounds, Watch(G)
  PROVE  since' \in [Grounds -> 0..Life]
BY AdministrationAssumption DEF TypeOK, Watch

\* A step that neither signs nor ticks, and claims only what holds, keeps the
\* bound on tokens.
LEMMA WatchKeeps ==
  ASSUME TypeOK, Lapsing, NEW G \in SUBSET Grounds, Watch(G),
         left' \in [Grounds -> 0..Life],
         \A g \in Grounds : left'[g] = left[g] \/ Claimed(g),
         \A g \in Grounds : Claimed(g)' => Claimed(g) \/ Held(g) \/ g \in G
  PROVE  Lapsing'
<1> USE AdministrationAssumption
<1>1. \A g \in Grounds :
        since'[g] = IF g \in G \/ Held(g) \/ Held(g)' THEN 0 ELSE since[g]
  BY DEF Watch
<1>2. \A g \in Grounds : left[g] \in 0..Life /\ since[g] \in 0..Life /\ left'[g] \in 0..Life
  BY DEF TypeOK
<1>3. \A g \in Grounds : left'[g] > 0 => left'[g] + since'[g] <= Life
  <2> SUFFICES ASSUME NEW g \in Grounds, left'[g] > 0 PROVE left'[g] + since'[g] <= Life
    OBVIOUS
  <2>1. CASE since'[g] = 0
    BY <1>2, <2>1
  <2>2. CASE since'[g] # 0
    <3>1. since'[g] = since[g] /\ ~Claimed(g)
      BY <1>1, <2>2 DEF Lapsing, HeldUpToNow
    <3>2. left'[g] = left[g]
      BY <3>1
    <3>3. QED BY <3>1, <3>2 DEF Lapsing, TokensLapse
  <2>3. QED BY <2>1, <2>2
<1>4. \A g \in Grounds : Held(g)' \/ Claimed(g)' => since'[g] = 0
  <2> SUFFICES ASSUME NEW g \in Grounds, Held(g)' \/ Claimed(g)' PROVE since'[g] = 0
    OBVIOUS
  <2>1. CASE Held(g)' \/ Held(g) \/ g \in G
    BY <1>1, <2>1
  <2>2. CASE Claimed(g)
    BY <1>1, <2>2 DEF Lapsing, HeldUpToNow
  <2>3. QED BY <2>1, <2>2
<1>5. QED BY <1>3, <1>4 DEF Lapsing, TokensLapse, HeldUpToNow

\* A request that ends, or goes on with a stage that signs nothing, claims
\* nothing it did not.
LEMMA ClaimsNothing ==
  ASSUME TypeOK, NEW q \in Requests, NEW r \in Request,
         req' = [req EXCEPT ![q] = r], r.at # "sign", ~r.refresh,
         NEW g \in Grounds, Claimed(g)'
  PROVE  Claimed(g)
<1>1. \A p \in Requests : req'[p] = IF p = q THEN r ELSE req[p]
  BY DEF TypeOK
<1>2. QED BY <1>1 DEF Claimed, At

-----------------------------------------------------------------------------

\* A request that starts or goes on, changing nothing but itself, claims only
\* what holds or is in G.
LEMMA RequestStep ==
  ASSUME IInv, NEW q \in Requests, NEW r \in Request, NEW G \in SUBSET Grounds,
         req' = [req EXCEPT ![q] = r], Watch(G),
         UNCHANGED <<db, session, left>>,
         r.at = "sign" => Held(r.role),
         r.refresh => Held("session") \/ Claimed("session") \/ "session" \in G
  PROVE  IInv'
<1>1. \A p \in Requests : req'[p] = IF p = q THEN r ELSE req[p]
  BY DEF IInv, TypeOK
<1>2. TypeOK'
  BY WatchType DEF IInv, TypeOK, db
<1>3. Lapsing'
  <2>1. \A g \in Grounds : Claimed(g)' => Claimed(g) \/ Held(g) \/ g \in G
    BY <1>1 DEF Claimed, At
  <2>2. left' \in [Grounds -> 0..Life] /\ \A g \in Grounds : left'[g] = left[g]
    BY DEF IInv, TypeOK
  <2>3. QED BY <2>1, <2>2, WatchKeeps DEF IInv
<1>4. QED BY <1>2, <1>3 DEF IInv

LEMMA TokenSteps ==
  ASSUME IInv, NEW q \in Requests, Login(q) \/ Refresh(q) \/ ReadRow(q), Watch({})
  PROVE  IInv'
<1>1. CASE Login(q)
  <2> DEFINE r == [at |-> "sign", role |-> role, refresh |-> FALSE]
  <2>1. r \in Request /\ Held(r.role)
    BY <1>1 DEF IInv, TypeOK, Request, Stages, Login, Held
  <2>2. QED BY <1>1, <2>1, RequestStep DEF Login, At
<1>2. CASE Refresh(q)
  <2> DEFINE r == [at |-> "read", role |-> "student", refresh |-> TRUE]
  <2>1. r \in Request /\ Held("session")
    BY <1>2 DEF Request, Stages, Roles, Refresh, Held
  <2>2. QED BY <1>2, <2>1, RequestStep DEF Refresh, StartRefresh, At
<1>3. CASE ReadRow(q) /\ row = "live"
  <2> DEFINE r == [req[q] EXCEPT !.at = "sign", !.role = RoleInRow]
  <2>1. r \in Request /\ Held(r.role) /\ r.refresh = req[q].refresh /\ r.at = "sign"
    BY <1>3, RequestType DEF IInv, TypeOK, Request, Stages, RoleInRow, Held
  <2>2. req' = [req EXCEPT ![q] = r]
    BY <1>3 DEF ReadRow, IInv, TypeOK
  <2>3. r.refresh => Claimed("session")
    BY <2>1 DEF Claimed
  <2>4. QED BY <1>3, <2>1, <2>2, <2>3, RequestStep DEF ReadRow, At
<1>4. CASE ReadRow(q) /\ row # "live"
  <2>1. req' = [req EXCEPT ![q] = Idle] /\ Idle \in Request
    BY <1>4, RequestType DEF ReadRow, End, IInv
  <2>2. QED BY <1>4, <2>1, RequestStep DEF ReadRow, At, Idle
<1>5. QED BY <1>1, <1>2, <1>3, <1>4

LEMMA UncheckedStep ==
  ASSUME IInv, NEW q \in Requests, RefreshUnchecked(q), Watch({"session"})
  PROVE  IInv'
<1> DEFINE r == [at |-> "read", role |-> "student", refresh |-> TRUE]
<1>1. r \in Request /\ "session" \in Grounds
  BY DEF Request, Stages, Roles, Grounds
<1>2. QED BY <1>1, RequestStep DEF RefreshUnchecked, StartRefresh, At

\* What a request signs for was claimed, so that it held up to now.
LEMMA SignStep ==
  ASSUME IInv, NEW q \in Requests, Sign(q), Watch({})
  PROVE  IInv'
<1> USE AdministrationAssumption
<1>1. req' = [req EXCEPT ![q] = Idle] /\ Idle \in Request /\ req[q].role \in Roles
  BY RequestType DEF Sign, End, IInv
<1>2. /\ left' \in [Grounds -> 0..Life]
      /\ \A g \in Grounds : left'[g] = left[g] \/ Claimed(g)
  BY DEF Sign, Claimed, IInv, TypeOK
<1>3. TypeOK'
  BY <1>1, <1>2, WatchType DEF IInv, TypeOK, Sign, db
<1>4. \A g \in Grounds : Claimed(g)' => Claimed(g)
  BY <1>1, ClaimsNothing DEF IInv, Idle
<1>5. Lapsing'
  BY <1>2, <1>4, WatchKeeps DEF IInv
<1>6. QED BY <1>3, <1>5 DEF IInv

\* What a change may do to the account.
LEMMA ChangeType ==
  ASSUME TypeOK, Change \/ UNCHANGED db
  PROVE  /\ row' \in {"live", "disabled", "gone"} /\ role' \in Roles
         /\ perms' \in SUBSET Permissions
<1>1. CASE Change
  BY <1>1 DEF TypeOK, Change, SetRole, SetDisabled, GrantPermission, RevokePermission
<1>2. CASE UNCHANGED db
  BY <1>2 DEF TypeOK, db
<1>3. QED BY <1>1, <1>2

LEMMA RouteSteps ==
  ASSUME IInv, NEW q \in Requests, Watch({}),
         Enter(q) \/ MayWrite(q) \/ Act(q) \/ EnterContent(q) \/ Edit(q) \/ Stop(q)
  PROVE  IInv'
<1> USE AdministrationAssumption
<1>1. PICK r \in Request :
        req' = [req EXCEPT ![q] = r] /\ r.at # "sign" /\ (r.refresh => req[q].refresh)
  <2>1. CASE Enter(q) \/ EnterContent(q)
    <3>1. PICK x \in Roles, stage \in {"write", "edit"} :
            req' = [req EXCEPT ![q] = [at |-> stage, role |-> x, refresh |-> FALSE]]
      BY <2>1 DEF Enter, EnterContent
    <3> DEFINE r == [at |-> stage, role |-> x, refresh |-> FALSE]
    <3>2. r \in Request
      BY DEF Request, Stages
    <3>3. QED BY <3>1, <3>2
  <2>2. CASE MayWrite(q)
    <3> DEFINE r == [req[q] EXCEPT !.at = "act"]
    <3>1. r \in Request /\ req' = [req EXCEPT ![q] = r] /\ r.at = "act" /\ r.refresh = req[q].refresh
      BY <2>2, RequestType DEF MayWrite, Goto, IInv, TypeOK, Request, Stages
    <3>2. QED BY <3>1
  <2>3. CASE Act(q) \/ Edit(q) \/ Stop(q)
    <3>1. req' = [req EXCEPT ![q] = Idle] /\ Idle \in Request
      BY <2>3, RequestType DEF Act, Edit, Stop, End, IInv
    <3>2. Idle.at = "idle" /\ ~Idle.refresh
      BY DEF Idle
    <3>3. QED BY <3>1, <3>2
  <2>4. QED BY <2>1, <2>2, <2>3
<1>2. UNCHANGED <<session, left>>
  BY DEF Enter, MayWrite, Act, EnterContent, Edit, Stop
<1>3. /\ row' \in {"live", "disabled", "gone"} /\ role' \in Roles
      /\ perms' \in SUBSET Permissions
  BY ChangeType DEF Enter, MayWrite, Act, EnterContent, Edit, Stop, IInv
<1>4. TypeOK'
  BY <1>1, <1>2, <1>3, WatchType DEF IInv, TypeOK
<1>5. Lapsing'
  <2>1. \A p \in Requests : req'[p] = IF p = q THEN r ELSE req[p]
    BY <1>1 DEF IInv, TypeOK
  <2>2. \A g \in Grounds : Claimed(g)' => Claimed(g)
    BY <1>1, <2>1 DEF Claimed, At
  <2>3. left' \in [Grounds -> 0..Life] /\ \A g \in Grounds : left'[g] = left[g]
    BY <1>2 DEF IInv, TypeOK
  <2>4. QED BY <2>2, <2>3, WatchKeeps DEF IInv
<1>6. QED BY <1>4, <1>5 DEF IInv

\* What others do sets no token and no request going.
LEMMA OthersStep ==
  ASSUME IInv, Others, Watch({})
  PROVE  IInv'
<1> USE AdministrationAssumption
<1>1. CASE Restart
  <2>1. /\ req' = [q \in Requests |-> Idle]
        /\ role' \in Roles /\ UNCHANGED <<row, perms, session, left>>
    BY <1>1 DEF Restart, IInv, TypeOK, Roles
  <2>2. TypeOK'
    BY <2>1, WatchType DEF IInv, TypeOK, Request, Idle, Stages, Roles
  <2>3. \A g \in Grounds : ~Claimed(g)'
    BY <2>1 DEF Claimed, At, Idle
  <2>4. Lapsing'
    BY <2>1, <2>3, WatchKeeps DEF IInv, TypeOK
  <2>5. QED BY <2>2, <2>4 DEF IInv
<1>2. CASE ChangeByOther \/ RevokeSession \/ HardDelete
  <2>1. UNCHANGED <<req, left>>
    BY <1>2 DEF ChangeByOther, RevokeSession, HardDelete
  <2>2. /\ row' \in {"live", "disabled", "gone"} /\ role' \in Roles
        /\ perms' \in SUBSET Permissions
    <3>1. CASE ChangeByOther
      BY <3>1, ChangeType DEF ChangeByOther, IInv
    <3>2. CASE RevokeSession \/ HardDelete
      BY <3>2 DEF RevokeSession, HardDelete, db, IInv, TypeOK
    <3>3. QED BY <1>2, <3>1, <3>2
  <2>3. session' \in {"active", "revoked"}
    BY <1>2 DEF ChangeByOther, RevokeSession, HardDelete, IInv, TypeOK
  <2>4. TypeOK'
    BY <2>1, <2>2, <2>3, WatchType DEF IInv, TypeOK
  <2>5. \A g \in Grounds : Claimed(g)' => Claimed(g)
    BY <2>1 DEF Claimed, At
  <2>6. Lapsing'
    BY <2>1, <2>5, WatchKeeps DEF IInv, TypeOK
  <2>7. QED BY <2>4, <2>6 DEF IInv
<1>3. QED BY <1>1, <1>2 DEF Others

\* A tick takes from every token what it adds to the time the ground is lost.
LEMMA TickStep ==
  ASSUME IInv, Tick
  PROVE  IInv'
<1> USE AdministrationAssumption
<1>1. UNCHANGED <<row, role, perms, session, req>>
  BY DEF Tick, db
<1>2. \A g \in Grounds : left[g] \in 0..Life /\ since[g] \in 0..Life
  BY DEF IInv, TypeOK
<1>3. \A g \in Grounds : left'[g] = IF left[g] > 0 THEN left[g] - 1 ELSE 0
  BY DEF Tick
<1>4. \A g \in Grounds :
        since'[g] = IF Held(g) THEN 0
                    ELSE IF Claimed(g) \/ since[g] = Life THEN since[g] ELSE since[g] + 1
  BY DEF Tick
<1>5. left' \in [Grounds -> 0..Life]
  <2>1. \A g \in Grounds : (IF left[g] > 0 THEN left[g] - 1 ELSE 0) \in 0..Life
    BY <1>2
  <2>2. QED BY <2>1 DEF Tick
<1>6. since' \in [Grounds -> 0..Life]
  <2> DEFINE S(g) == IF Held(g) THEN 0
                     ELSE IF Claimed(g) \/ since[g] = Life THEN since[g] ELSE since[g] + 1
  <2>1. \A g \in Grounds : S(g) \in 0..Life
    BY <1>2
  <2>2. since' = [g \in Grounds |-> S(g)]
    BY DEF Tick
  <2> HIDE DEF S
  <2>3. QED BY <2>1, <2>2
<1>7. TypeOK'
  BY <1>1, <1>5, <1>6 DEF IInv, TypeOK
<1>8. TokensLapse'
  BY <1>2, <1>3, <1>4 DEF IInv, Lapsing, TokensLapse
<1>9. \A g \in Grounds : (Held(g)' <=> Held(g)) /\ (Claimed(g)' <=> Claimed(g))
  BY <1>1 DEF Held, Claimed, At
<1>10. HeldUpToNow'
  BY <1>4, <1>9 DEF IInv, Lapsing, HeldUpToNow
<1>11. QED BY <1>7, <1>8, <1>10 DEF IInv, Lapsing

\* Every step preserves the invariant.
LEMMA StepInvariant == IInv /\ [Next]_vars => IInv'
<1> SUFFICES ASSUME IInv, [Next]_vars PROVE IInv'
  OBVIOUS
<1>1. ASSUME NEW q \in Requests, Own(q), Watch({}) PROVE IInv'
  BY <1>1, TokenSteps, SignStep, RouteSteps DEF Own
<1>2. ASSUME NEW q \in Requests, RefreshUnchecked(q), Watch({"session"}) PROVE IInv'
  BY <1>2, UncheckedStep
<1>3. CASE Others /\ Watch({})
  BY <1>3, OthersStep
<1>4. CASE Tick
  BY <1>4, TickStep
<1>5. CASE UNCHANGED vars
  BY <1>5 DEF vars, db, IInv, TypeOK, Lapsing, TokensLapse, HeldUpToNow, Held, Claimed, At
<1>6. QED BY <1>1, <1>2, <1>3, <1>4, <1>5 DEF Next

\* The invariant holds of every behaviour of the account and of those over it.
THEOREM Inductive == Spec => []IInv
<1>1. Init => IInv
  BY InitInvariant
<1>2. IInv /\ [Next]_vars => IInv'
  BY StepInvariant
<1>3. QED BY <1>1, <1>2, PTL DEF Spec

\* Every variable keeps its type.
THEOREM TypeInvariance == Spec => []TypeOK
<1>1. IInv => TypeOK
  BY DEF IInv
<1>2. QED BY Inductive, <1>1, PTL

\* However often tokens are refreshed, none is good for longer than Life after
\* what it was issued for was lost.
THEOREM AuthorityLapses == Spec => []TokensLapse
<1>1. IInv => TokensLapse
  BY DEF IInv, Lapsing
<1>2. QED BY Inductive, <1>1, PTL

\* No request of an account without power gives it power.
LEMMA PowerlessStaysSo ==
  ASSUME TypeOK, NEW q \in Requests, Own(q) \/ RefreshUnchecked(q), ~Powerful
  PROVE  ~Powerful'
<1> USE DEF Powerful, At
<1>1. /\ ~(row = "live" /\ role = "admin") /\ left["admin"] = 0 /\ perms # Permissions
      /\ \A p \in Requests : /\ ~(req[p].at = "sign" /\ req[p].role = "admin")
                             /\ ~(req[p].at = "write" /\ req[p].role = "admin")
                             /\ ~(req[p].at = "write" /\ "admin.write" \in perms)
                             /\ req[p].at # "act"
  BY AdministrationAssumption DEF TypeOK, Grounds, Roles
<1>2. UNCHANGED db
  BY <1>1 DEF Own, Login, Refresh, RefreshUnchecked, StartRefresh, ReadRow, Sign, Enter,
              MayWrite, Act, EnterContent, Edit, Stop
<1>3. left'["admin"] = 0
  <2>1. CASE Sign(q)
    BY <1>1, <2>1 DEF Sign, TypeOK, Grounds, Roles
  <2>2. CASE ~Sign(q)
    BY <1>1, <2>2 DEF Own, Login, Refresh, RefreshUnchecked, StartRefresh, ReadRow, Enter,
                      MayWrite, Act, EnterContent, Edit, Stop
  <2>3. QED BY <2>1, <2>2
<1>4. /\ \A p \in Requests : p # q => req'[p] = req[p]
      /\ ~(req'[q].at = "sign" /\ req'[q].role = "admin")
      /\ ~(req'[q].at = "write" /\ req'[q].role = "admin")
      /\ ~(req'[q].at = "write" /\ "admin.write" \in perms)
      /\ req'[q].at # "act"
  <2>1. CASE Login(q) \/ Refresh(q) \/ RefreshUnchecked(q)
    BY <1>1, <2>1 DEF Login, Refresh, RefreshUnchecked, StartRefresh, TypeOK
  <2>2. CASE ReadRow(q)
    BY <1>1, <2>2 DEF ReadRow, RoleInRow, End, Idle, TypeOK, Request
  <2>3. CASE Enter(q)
    <3>1. PICK r \in Roles :
            /\ left[r] > 0 /\ Permitted(r, "admin.read")
            /\ req' = [req EXCEPT ![q] = [at |-> "write", role |-> r, refresh |-> FALSE]]
      BY <2>3 DEF Enter
    <3>2. r # "admin" /\ "admin.read" \in perms
      BY <1>1, <3>1 DEF Permitted
    <3>3. "admin.write" \notin perms
      BY <1>1, <3>2 DEF TypeOK, Permissions
    <3>4. QED BY <3>1, <3>2, <3>3 DEF TypeOK
  <2>4. CASE MayWrite(q)
    BY <1>1, <2>4 DEF MayWrite, Permitted
  <2>5. CASE Act(q)
    BY <1>1, <2>5 DEF Act
  <2>6. CASE EnterContent(q)
    BY <1>1, <2>6 DEF EnterContent, TypeOK
  <2>7. CASE Sign(q) \/ Edit(q) \/ Stop(q)
    BY <2>7 DEF Sign, Edit, Stop, End, Idle, TypeOK
  <2>8. QED BY <2>1, <2>2, <2>3, <2>4, <2>5, <2>6, <2>7 DEF Own
<1>5. QED BY <1>1, <1>2, <1>3, <1>4 DEF db

\* An account without power gets it from others only.
THEOREM PowerComesFromOthers == Spec => NoSelfPromotion
<1>1. TypeOK /\ [Next]_vars =>
        [(\E q \in Requests : Own(q) \/ RefreshUnchecked(q)) /\ ~Powerful => ~Powerful']_vars
  BY PowerlessStaysSo
<1>2. QED BY TypeInvariance, <1>1, PTL DEF Spec, NoSelfPromotion
=============================================================================
