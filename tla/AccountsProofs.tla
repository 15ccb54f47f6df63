--------------------------- MODULE AccountsProofs ---------------------------
(***************************************************************************)
(* Proofs about Accounts, for any finite number of concurrent requests, any *)
(* lockout threshold, and any number of seconds, reset tokens and faults.  *)
(***************************************************************************)
EXTENDS Accounts, FiniteSetTheorems, TLAPS

(***************************************************************************)
(* Types.                                                                  *)
(***************************************************************************)

\* How many requests are about to count a failed login is a number.
LEMMA BlamingCount ==
  /\ IsFiniteSet(Blaming) /\ Cardinality(Blaming) \in Nat
  /\ Cardinality(Handlers) \in Nat /\ Cardinality(Blaming) <= Cardinality(Handlers)
  /\ \A h : Cardinality(Blaming \cap {h}) \in Nat
<1>1. IsFiniteSet(Handlers)
  BY AccountsAssumption
<1>2. Blaming \in SUBSET Handlers
  BY DEF Blaming
<1>3. \A h : IsFiniteSet(Blaming \cap {h})
  <2> TAKE h
  <2>1. Blaming \cap {h} \in SUBSET Handlers
    BY <1>2
  <2> QED BY <1>1, <2>1, FS_Subset
<1> QED BY <1>1, <1>2, <1>3, FS_Subset, FS_CardinalityType

\* The conjuncts of TypeOK about flags.
FlagsOK ==
  /\ email \in BOOLEAN /\ password \in BOOLEAN /\ apple \in BOOLEAN
  /\ locked \in BOOLEAN
  /\ closed \in BOOLEAN /\ escape \in BOOLEAN /\ reopened \in BOOLEAN

\* Every step keeps the flags Boolean.
LEMMA FlagsStep == FlagsOK /\ [Next]_vars => FlagsOK'
<1> SUFFICES ASSUME FlagsOK, [Next]_vars PROVE FlagsOK'
  OBVIOUS
<1> USE DEF FlagsOK, login, lock, closing, history
<1>1. CASE UNCHANGED vars
  BY <1>1, Zenon DEF vars
<1>2. ASSUME NEW h \in Handlers, Register(h) PROVE FlagsOK'
  BY <1>2, Zenon DEF Register
<1>3. ASSUME NEW h \in Handlers,
             LoginRight(h) \/ LoginWrong(h) \/ LoginUnknown(h) \/ AppleLogin(h) \/ Sign(h)
      PROVE  FlagsOK'
  BY <1>3, Zenon DEF LoginRight, LoginWrong, LoginUnknown, AppleLogin, Sign
<1>4. ASSUME NEW h \in Handlers, Blame(h) PROVE FlagsOK'
  BY <1>4, Zenon DEF Blame, Count
<1>5. ASSUME NEW h \in Handlers, Greet(h) PROVE FlagsOK'
  BY <1>5, Zenon DEF Greet
<1>6. ASSUME NEW h \in Handlers, AppleCreate(h) PROVE FlagsOK'
  BY <1>6, Zenon DEF AppleCreate
<1>7. ASSUME NEW h \in Handlers, RecordSession(h) \/ EndSessions(h) \/ StatementFails(h)
      PROVE  FlagsOK'
  BY <1>7, Zenon DEF RecordSession, EndSessions, StatementFails
<1>8. ASSUME NEW h \in Handlers,
             ChangePassword(h) \/ ForgotPassword(h) \/ IssueToken(h) \/ ResetPassword(h)
      PROVE  FlagsOK'
  BY <1>8, Zenon DEF ChangePassword, ForgotPassword, IssueToken, ResetPassword
<1>9. ASSUME NEW h \in Handlers, SetPassword(h) PROVE FlagsOK'
  BY <1>9, Zenon DEF SetPassword
<1>10. ASSUME NEW h \in Handlers, LinkApple(h) \/ UnlinkApple(h) \/ ClearApple(h)
       PROVE  FlagsOK'
  BY <1>10, Zenon DEF LinkApple, UnlinkApple, ClearApple
<1>11. ASSUME NEW h \in Handlers, SetApple(h) PROVE FlagsOK'
  BY <1>11, Zenon DEF SetApple
<1>12. ASSUME NEW h \in Handlers, Delete(h) PROVE FlagsOK'
  BY <1>12, Zenon DEF Delete, Erased
<1>13. ASSUME NEW s \in Seconds, Revoke(s) PROVE FlagsOK'
  BY <1>13, Zenon DEF Revoke
<1>14. CASE TokenExpires \/ HardDelete \/ Unlock \/ Tick \/ Crash
  BY <1>14, Zenon DEF TokenExpires, HardDelete, Unlock, Tick, Crash
<1>15. CASE Disable \/ Enable
  BY <1>15, Zenon DEF Disable, Enable
<1> QED
  BY <1>1, <1>2, <1>3, <1>4, <1>5, <1>6, <1>7, <1>8, <1>9, <1>10, <1>11, <1>12,
     <1>13, <1>14, <1>15, Zenon
     DEF Next, HandlerStep

\* The other conjuncts of TypeOK.
RestOK ==
  /\ status \in {"none", "live", "deleted", "gone"}
  /\ failures \in 0..LockAfter
  /\ resets \in 0..MaxResets
  /\ session \in [Seconds -> {"none", "active", "revoked"}]
  /\ second \in Seconds
  /\ pc \in [Handlers -> Stages]
  /\ token \in [Handlers -> Seconds]
  /\ tries \in Nat /\ uncounted \in Nat
  /\ straddling \in SUBSET Seconds
  /\ faults \in 0..MaxFaults

\* Every step keeps the rest well typed.
LEMMA RestStep == RestOK /\ [Next]_vars => RestOK'
<1> SUFFICES ASSUME RestOK, [Next]_vars PROVE RestOK'
  OBVIOUS
<1> USE AccountsAssumption
    DEF RestOK, At, Goto, login, lock, closing, history
<1> Stages = {"idle", "blame", "greet", "create", "sign", "record", "change",
              "issue", "reset", "link", "unlink", "end"}
  BY DEF Stages
<1>1. CASE UNCHANGED vars
  BY <1>1 DEF vars
<1>2. ASSUME NEW h \in Handlers,
             Register(h) \/ LoginRight(h) \/ AppleLogin(h) \/ Sign(h)
      PROVE  RestOK'
  BY <1>2 DEF Register, LoginRight, AppleLogin, Sign
<1>3. ASSUME NEW h \in Handlers, LoginWrong(h) PROVE RestOK'
  BY <1>3 DEF LoginWrong
<1>4. ASSUME NEW h \in Handlers, LoginUnknown(h) PROVE RestOK'
  BY <1>4 DEF LoginUnknown, Fault
<1>5. ASSUME NEW h \in Handlers, Blame(h) PROVE RestOK'
  BY <1>5 DEF Blame, Count
<1>6. ASSUME NEW h \in Handlers, Greet(h) PROVE RestOK'
  BY <1>6 DEF Greet
<1>7. ASSUME NEW h \in Handlers, AppleCreate(h) PROVE RestOK'
  BY <1>7 DEF AppleCreate
<1>8. ASSUME NEW h \in Handlers, RecordSession(h) PROVE RestOK'
  BY <1>8 DEF RecordSession
<1>9. ASSUME NEW h \in Handlers,
             ChangePassword(h) \/ ForgotPassword(h)
      PROVE  RestOK'
  BY <1>9 DEF ChangePassword, ForgotPassword
<1>10. ASSUME NEW h \in Handlers, IssueToken(h) \/ ResetPassword(h) PROVE RestOK'
  BY <1>10 DEF IssueToken, ResetPassword
<1>11. ASSUME NEW h \in Handlers, SetPassword(h) PROVE RestOK'
  BY <1>11 DEF SetPassword, HasRow
<1>12. ASSUME NEW h \in Handlers,
              LinkApple(h) \/ SetApple(h) \/ UnlinkApple(h) \/ ClearApple(h)
       PROVE  RestOK'
  BY <1>12 DEF LinkApple, SetApple, UnlinkApple, ClearApple
<1>13. ASSUME NEW h \in Handlers, Delete(h) PROVE RestOK'
  BY <1>13 DEF Delete, Erased, PasswordOnItsWay
<1>14. ASSUME NEW h \in Handlers, EndSessions(h) PROVE RestOK'
  BY <1>14 DEF EndSessions, Ended
<1>15. ASSUME NEW h \in Handlers, StatementFails(h) PROVE RestOK'
  BY <1>15, BlamingCount DEF StatementFails, Fault
<1>16. ASSUME NEW s \in Seconds, Revoke(s) PROVE RestOK'
  BY <1>16 DEF Revoke
<1>17. CASE TokenExpires \/ HardDelete \/ Unlock
  BY <1>17 DEF TokenExpires, HardDelete, Unlock
<1>18. CASE Tick
  BY <1>18 DEF Tick, Seconds
<1>19. CASE Disable \/ Enable
  BY <1>19 DEF Disable, Enable
<1>20. CASE Crash
  BY <1>20, BlamingCount DEF Crash, Fault
<1> QED
  BY <1>1, <1>2, <1>3, <1>4, <1>5, <1>6, <1>7, <1>8, <1>9, <1>10, <1>11, <1>12,
     <1>13, <1>14, <1>15, <1>16, <1>17, <1>18, <1>19, <1>20
     DEF Next, HandlerStep

\* Types: the row, its counters and its sessions have values the code can give
\* them; failures stay at or below the threshold.
THEOREM TypeInvariance == Spec => []TypeOK
<1>1. ASSUME Init PROVE FlagsOK /\ RestOK
  <2>1. FlagsOK
    BY <1>1, Zenon DEF Init, FlagsOK
  <2>2. 1 \in Seconds /\ "idle" \in Stages /\ 0 \in 0..LockAfter
        /\ 0 \in 0..MaxResets /\ 0 \in 0..MaxFaults
    BY AccountsAssumption DEF Seconds, Stages
  <2>3. RestOK
    BY <1>1, <2>2 DEF Init, RestOK
  <2> QED BY <2>1, <2>3
<1>2. TypeOK <=> FlagsOK /\ RestOK
  BY Zenon DEF TypeOK, FlagsOK, RestOK
<1> QED BY <1>1, <1>2, FlagsStep, RestStep, PTL DEF Spec

(***************************************************************************)
(* Deletion is final.                                                      *)
(***************************************************************************)

\* Every step keeps an erased account erased but for what was under way.
LEMMA ErasedStep == TypeOK /\ ErasedInv /\ [Next]_vars => ErasedInv'
<1> SUFFICES ASSUME TypeOK, ErasedInv, [Next]_vars PROVE ErasedInv'
  OBVIOUS
<1> pc \in [Handlers -> Stages] /\ resets \in 0..MaxResets /\ MaxResets \in Nat
  BY AccountsAssumption DEF TypeOK
<1> USE DEF ErasedInv, PasswordOnItsWay, At, Goto, login, lock, closing, history
<1>1. CASE UNCHANGED vars
  BY <1>1 DEF vars
<1>2. ASSUME NEW h \in Handlers, Register(h) \/ AppleCreate(h) PROVE ErasedInv'
  BY <1>2 DEF Register, AppleCreate
<1>3. ASSUME NEW h \in Handlers,
             LoginRight(h) \/ LoginWrong(h) \/ LoginUnknown(h) \/ AppleLogin(h) \/ Sign(h)
      PROVE  ErasedInv'
  BY <1>3 DEF LoginRight, LoginWrong, LoginUnknown, AppleLogin, Sign
<1>4. ASSUME NEW h \in Handlers,
             Blame(h) \/ Greet(h) \/ RecordSession(h) \/ EndSessions(h) \/ StatementFails(h)
      PROVE  ErasedInv'
  BY <1>4 DEF Blame, Greet, RecordSession, EndSessions, StatementFails
<1>5. ASSUME NEW h \in Handlers, ChangePassword(h) \/ ForgotPassword(h) PROVE ErasedInv'
  BY <1>5 DEF ChangePassword, ForgotPassword
<1>6. ASSUME NEW h \in Handlers, IssueToken(h) \/ ResetPassword(h) PROVE ErasedInv'
  BY <1>6 DEF IssueToken, ResetPassword
<1>7. ASSUME NEW h \in Handlers, SetPassword(h) PROVE ErasedInv'
  BY <1>7 DEF SetPassword
<1>8. ASSUME NEW h \in Handlers,
             LinkApple(h) \/ SetApple(h) \/ UnlinkApple(h) \/ ClearApple(h)
      PROVE  ErasedInv'
  BY <1>8 DEF LinkApple, SetApple, UnlinkApple, ClearApple
<1>9. ASSUME NEW h \in Handlers, Delete(h) PROVE ErasedInv'
  BY <1>9 DEF Delete, Erased
<1>10. ASSUME NEW s \in Seconds, Revoke(s) PROVE ErasedInv'
  BY <1>10 DEF Revoke
<1>11. CASE TokenExpires
  BY <1>11 DEF TokenExpires
<1>12. CASE Disable \/ Enable
  BY <1>12 DEF Disable, Enable
<1>13. CASE Unlock \/ Tick \/ Crash
  BY <1>13 DEF Unlock, Tick, Crash
<1>14. CASE HardDelete
  <2>1. PasswordOnItsWay' => PasswordOnItsWay
    BY <1>14 DEF HardDelete
  <2>2. closed' = closed /\ escape' = escape /\ status' = "gone" /\ ~email' /\ ~password'
    BY <1>14, Zenon DEF HardDelete
  <2> QED BY <2>1, <2>2
<1> QED
  BY <1>1, <1>2, <1>3, <1>4, <1>5, <1>6, <1>7, <1>8, <1>9, <1>10, <1>11, <1>12, <1>13,
     <1>14
     DEF Next, HandlerStep

\* However requests interleave with it, a deletion leaves no email address in
\* the row, and no password but by a change or reset that was under way.
THEOREM Erasure == Spec => []ErasedStaysErased
<1>1. Init => ErasedInv
  BY DEF Init, ErasedInv
<1>2. ErasedInv => ErasedStaysErased
  BY DEF ErasedInv, ErasedStaysErased
<1> QED BY <1>1, <1>2, ErasedStep, TypeInvariance, PTL DEF Spec

\* Without a failure the deletion's second statement ends the sessions, or a
\* request is still to run it; what logins recorded since is set apart.
LEMMA SessionsStep == TypeOK /\ SessionsInv /\ [Next]_vars => SessionsInv'
<1> SUFFICES ASSUME TypeOK, SessionsInv, [Next]_vars PROVE SessionsInv'
  OBVIOUS
<1> /\ pc \in [Handlers -> Stages] /\ session \in [Seconds -> {"none", "active", "revoked"}]
    /\ token \in [Handlers -> Seconds] /\ straddling \in SUBSET Seconds /\ faults \in Nat
  BY AccountsAssumption DEF TypeOK
<1> USE DEF SessionsInv, Active, At, Goto, login, lock, closing, history
<1>1. CASE UNCHANGED vars
  BY <1>1 DEF vars
<1>2. ASSUME NEW h \in Handlers, Register(h) \/ AppleCreate(h) PROVE SessionsInv'
  BY <1>2 DEF Register, AppleCreate
<1>3. ASSUME NEW h \in Handlers, LoginUnknown(h) \/ StatementFails(h) PROVE SessionsInv'
  <2>1. faults' = 0 => LoginUnknown(h) /\ faults = 0
    BY <1>3 DEF LoginUnknown, StatementFails, Fault
  <2>2. CASE faults' = 0
    <3>1. closed' = closed /\ straddling' = straddling /\ session' = session
      BY <2>1, <2>2, Zenon DEF LoginUnknown
    <3>2. \A g \in Handlers : pc[g] = "end" => pc'[g] = "end"
      BY <2>1, <2>2 DEF LoginUnknown
    <3> QED BY <2>1, <2>2, <3>1, <3>2
  <2> QED BY <2>2
<1>4. ASSUME NEW h \in Handlers,
             LoginRight(h) \/ LoginWrong(h) \/ AppleLogin(h) \/ Sign(h) \/ Blame(h) \/ Greet(h)
      PROVE  SessionsInv'
  BY <1>4 DEF LoginRight, LoginWrong, AppleLogin, Sign, Blame, Greet
<1>5. ASSUME NEW h \in Handlers, RecordSession(h) PROVE SessionsInv'
  <2>1. /\ closed' = closed /\ faults' = faults
        /\ \A g \in Handlers : pc[g] = "end" => pc'[g] = "end"
    BY <1>5 DEF RecordSession
  <2>2. CASE HasRow /\ session[token[h]] = "none"
    <3>1. Active' \subseteq Active \cup {token[h]}
      BY <1>5, <2>2 DEF RecordSession
    <3>2. closed => straddling' = straddling \cup {token[h]}
      BY <1>5, <2>2, Zenon DEF RecordSession
    <3> QED BY <2>1, <3>1, <3>2
  <2>3. CASE ~(HasRow /\ session[token[h]] = "none")
    <3>1. session' = session /\ straddling' = straddling
      BY <1>5, <2>3, Zenon DEF RecordSession
    <3> QED BY <2>1, <3>1
  <2> QED BY <2>2, <2>3
<1>6. ASSUME NEW h \in Handlers,
             ChangePassword(h) \/ ForgotPassword(h) \/ IssueToken(h)
               \/ ResetPassword(h) \/ SetPassword(h)
      PROVE  SessionsInv'
  BY <1>6 DEF ChangePassword, ForgotPassword, IssueToken, ResetPassword, SetPassword
<1>7. ASSUME NEW h \in Handlers,
             LinkApple(h) \/ SetApple(h) \/ UnlinkApple(h) \/ ClearApple(h)
      PROVE  SessionsInv'
  BY <1>7 DEF LinkApple, SetApple, UnlinkApple, ClearApple
<1>8. ASSUME NEW h \in Handlers, Delete(h) PROVE SessionsInv'
  <2>1. pc'[h] = "end"
    BY <1>8 DEF Delete
  <2> QED BY <2>1
<1>9. ASSUME NEW h \in Handlers, EndSessions(h) PROVE SessionsInv'
  <2>1. Active' = {}
    BY <1>9 DEF EndSessions, Ended
  <2> QED BY <2>1
<1>10. ASSUME NEW s \in Seconds, Revoke(s) PROVE SessionsInv'
  BY <1>10 DEF Revoke
<1>11. CASE TokenExpires \/ HardDelete \/ Unlock \/ Tick
  BY <1>11 DEF TokenExpires, HardDelete, Unlock, Tick
<1>12. CASE Disable \/ Enable
  BY <1>12 DEF Disable, Enable
<1>13. CASE Crash
  BY <1>13 DEF Crash, Fault
<1> QED
  BY <1>1, <1>2, <1>3, <1>4, <1>5, <1>6, <1>7, <1>8, <1>9, <1>10, <1>11, <1>12, <1>13
     DEF Next, HandlerStep

\* Once both statements of a deletion are through, only sessions of logins that
\* were under way remain.
THEOREM SessionsEnded == Spec => []DeletionEndsSessions
<1>1. Init => SessionsInv
  BY DEF Init, SessionsInv
<1>2. SessionsInv => DeletionEndsSessions
  BY DEF SessionsInv, DeletionEndsSessions, At
<1> QED BY <1>1, <1>2, SessionsStep, TypeInvariance, PTL DEF Spec

(***************************************************************************)
(* A way to log in.                                                        *)
(***************************************************************************)

\* Every step leaves an account that was not erased what it needs for a login.
LEMMA LoginMethodStep == TypeOK /\ LoginMethodInv /\ [Next]_vars => LoginMethodInv'
<1> SUFFICES ASSUME TypeOK, LoginMethodInv, [Next]_vars PROVE LoginMethodInv'
  OBVIOUS
<1> pc \in [Handlers -> Stages] /\ resets \in 0..MaxResets /\ MaxResets \in Nat
  BY AccountsAssumption DEF TypeOK
<1> USE DEF LoginMethodInv, PasswordOnItsWay, At, Goto, HasRow, login, lock, closing, history
<1>1. CASE UNCHANGED vars
  BY <1>1 DEF vars
<1>2. ASSUME NEW h \in Handlers, Register(h) PROVE LoginMethodInv'
  BY <1>2 DEF Register
<1>3. ASSUME NEW h \in Handlers, AppleCreate(h) PROVE LoginMethodInv'
  <2>1. CASE status = "none"
    <3>1. /\ status' = "live" /\ apple' /\ resets' = resets /\ password' = password
          /\ closed' = closed /\ reopened' = reopened
      BY <1>3, <2>1, Zenon DEF AppleCreate
    <3>2. /\ PasswordOnItsWay' => PasswordOnItsWay
          /\ \A g \in Handlers : pc'[g] = "unlink" => pc[g] = "unlink"
      BY <1>3, <2>1 DEF AppleCreate
    <3> QED BY <2>1, <3>1, <3>2
  <2>2. CASE status # "none"
    <3>1. /\ status' = status /\ apple' = apple /\ email' = email /\ resets' = resets
          /\ password' = password /\ closed' = closed /\ reopened' = reopened
      BY <1>3, <2>2, Zenon DEF AppleCreate
    <3>2. /\ PasswordOnItsWay' => PasswordOnItsWay
          /\ \A g \in Handlers : pc'[g] = "unlink" => pc[g] = "unlink"
      BY <1>3, <2>2 DEF AppleCreate
    <3> QED BY <3>1, <3>2
  <2> QED BY <2>1, <2>2
<1>4. ASSUME NEW h \in Handlers,
             LoginRight(h) \/ LoginWrong(h) \/ LoginUnknown(h) \/ AppleLogin(h) \/ Sign(h)
      PROVE  LoginMethodInv'
  BY <1>4 DEF LoginRight, LoginWrong, LoginUnknown, AppleLogin, Sign
<1>5. ASSUME NEW h \in Handlers,
             Blame(h) \/ Greet(h) \/ RecordSession(h) \/ EndSessions(h) \/ StatementFails(h)
      PROVE  LoginMethodInv'
  BY <1>5 DEF Blame, Greet, RecordSession, EndSessions, StatementFails
<1>6. ASSUME NEW h \in Handlers, ChangePassword(h) \/ ForgotPassword(h) PROVE LoginMethodInv'
  BY <1>6 DEF ChangePassword, ForgotPassword
<1>7. ASSUME NEW h \in Handlers, IssueToken(h) \/ ResetPassword(h) PROVE LoginMethodInv'
  BY <1>7 DEF IssueToken, ResetPassword
<1>8. ASSUME NEW h \in Handlers, SetPassword(h) PROVE LoginMethodInv'
  BY <1>8 DEF SetPassword
<1>9. ASSUME NEW h \in Handlers, LinkApple(h) \/ SetApple(h) PROVE LoginMethodInv'
  <2>1. /\ status' = status /\ email' = email /\ password' = password
        /\ resets' = resets /\ closed' = closed /\ reopened' = reopened
    BY <1>9, Zenon DEF LinkApple, SetApple
  <2>2. apple => apple'
    BY <1>9, Zenon DEF LinkApple, SetApple
  <2>3. /\ PasswordOnItsWay' => PasswordOnItsWay
        /\ \A g \in Handlers : pc'[g] = "unlink" => pc[g] = "unlink"
    BY <1>9 DEF LinkApple, SetApple
  <2> QED BY <2>1, <2>2, <2>3
<1>10. ASSUME NEW h \in Handlers, UnlinkApple(h) PROVE LoginMethodInv'
  BY <1>10 DEF UnlinkApple, Unlinkable
<1>11. ASSUME NEW h \in Handlers, ClearApple(h) PROVE LoginMethodInv'
  BY <1>11 DEF ClearApple
<1>12. ASSUME NEW h \in Handlers, Delete(h) PROVE LoginMethodInv'
  BY <1>12 DEF Delete
<1>13. ASSUME NEW s \in Seconds, Revoke(s) PROVE LoginMethodInv'
  BY <1>13 DEF Revoke
<1>14. CASE TokenExpires
  BY <1>14 DEF TokenExpires
<1>15. CASE HardDelete
  BY <1>15 DEF HardDelete
<1>16. CASE Unlock \/ Tick \/ Crash
  BY <1>16 DEF Unlock, Tick, Crash
<1>17. CASE Disable \/ Enable
  <2>1. /\ apple' = apple /\ email' = email /\ password' = password
        /\ pc' = pc /\ resets' = resets
    BY <1>17, Zenon DEF Disable, Enable
  <2>2. /\ status \notin {"none", "gone"}
        /\ \/ status' = "deleted" /\ closed' = closed /\ reopened' = reopened
           \/ status' = "live" /\ ~closed' /\ (~reopened' => ~reopened /\ ~closed)
    BY <1>17, Zenon DEF Disable, Enable
  <2> QED BY <2>1, <2>2
<1> QED
  BY <1>1, <1>2, <1>3, <1>4, <1>5, <1>6, <1>7, <1>8, <1>9, <1>10, <1>11, <1>12,
     <1>13, <1>14, <1>15, <1>16, <1>17
     DEF Next, HandlerStep

\* A live account has a way to log in, whatever unlinks, changes and deletions
\* overlapped, unless an administrator re-enabled it after its deletion.
THEOREM LoginMethod == Spec => []LoginMethodKept
<1>1. Init => LoginMethodInv
  BY DEF Init, LoginMethodInv, PasswordOnItsWay, At
<1>2. LoginMethodInv => LoginMethodKept
  BY DEF LoginMethodInv, LoginMethodKept
<1> QED BY <1>1, <1>2, LoginMethodStep, TypeInvariance, PTL DEF Spec

(***************************************************************************)
(* Guesses.                                                                *)
(***************************************************************************)

\* One request more or less about to count a failed login.
LEMMA BlamingStep ==
  ASSUME TypeOK, NEW h \in Handlers, NEW stage \in Stages, Goto(h, stage)
  PROVE  /\ IsFiniteSet(Blaming') /\ Cardinality(Blaming') \in Nat
         /\ Cardinality(Blaming') <= Cardinality(Handlers)
         /\ pc[h] # "blame" /\ stage = "blame" => Cardinality(Blaming') = Cardinality(Blaming) + 1
         /\ pc[h] = "blame" /\ stage # "blame" => Cardinality(Blaming') = Cardinality(Blaming) - 1
         /\ (pc[h] = "blame" <=> stage = "blame") => Cardinality(Blaming') = Cardinality(Blaming)
<1>1. /\ pc \in [Handlers -> Stages] /\ pc' = [pc EXCEPT ![h] = stage]
  BY DEF TypeOK, Goto
<1>2. IsFiniteSet(Handlers) /\ IsFiniteSet(Blaming)
  BY AccountsAssumption, BlamingCount
<1>3. Blaming' \in SUBSET Handlers
  BY DEF Blaming
<1>4. IsFiniteSet(Blaming') /\ Cardinality(Blaming') \in Nat
      /\ Cardinality(Blaming') <= Cardinality(Handlers)
  BY <1>2, <1>3, FS_Subset, FS_CardinalityType
<1>5. ASSUME pc[h] # "blame", stage = "blame"
      PROVE  Cardinality(Blaming') = Cardinality(Blaming) + 1
  <2>1. Blaming' = Blaming \cup {h} /\ h \notin Blaming
    BY <1>1, <1>5 DEF Blaming, At
  <2> QED BY <1>2, <2>1, FS_AddElement
<1>6. ASSUME pc[h] = "blame", stage # "blame"
      PROVE  Cardinality(Blaming') = Cardinality(Blaming) - 1
  <2>1. Blaming' = Blaming \ {h} /\ h \in Blaming
    BY <1>1, <1>6 DEF Blaming, At
  <2> QED BY <1>2, <2>1, FS_RemoveElement
<1>7. ASSUME pc[h] = "blame" <=> stage = "blame"
      PROVE  Cardinality(Blaming') = Cardinality(Blaming)
  <2>1. Blaming' = Blaming
    BY <1>1, <1>7 DEF Blaming, At
  <2> QED BY <2>1
<1> QED BY <1>4, <1>5, <1>6, <1>7

\* A step that guesses nothing and neither finds the row nor unlocks it.
LEMMA GuessesFrame ==
  ASSUME TypeOK, GuessesInv, tries' = tries, failures' = failures,
         Findable' => Findable,
         status' \in {"none", "deleted"} => status \in {"none", "deleted"},
         uncounted' \in Nat, uncounted' >= uncounted, Cardinality(Blaming') \in Nat,
         Cardinality(Blaming') + uncounted' >= Cardinality(Blaming) + uncounted
  PROVE  GuessesInv'
<1>1. GuessesBounded'
  BY AccountsAssumption, BlamingCount DEF TypeOK, GuessesInv, GuessesBounded
<1>2. FailuresUnlocked' = FailuresUnlocked /\ FailuresUnlocked \in Nat
  BY AccountsAssumption DEF TypeOK, FailuresUnlocked
<1>3. Findable' => tries' <= Cardinality(Blaming') + uncounted' + FailuresUnlocked'
  BY <1>2, BlamingCount DEF TypeOK, GuessesInv
<1> QED BY <1>1, <1>3 DEF GuessesInv

\* A step after which guessing starts anew.
LEMMA GuessesReset ==
  ASSUME tries' = 0, failures' \in 0..LockAfter, uncounted' \in Nat,
         Cardinality(Blaming') \in Nat
  PROVE  GuessesInv'
<1>1. GuessesBounded'
  BY AccountsAssumption, BlamingCount DEF GuessesBounded
<1>2. FailuresUnlocked' \in Nat
  BY AccountsAssumption DEF FailuresUnlocked
<1> QED BY <1>1, <1>2 DEF GuessesInv

\* Every step keeps the guesses among the failures counted, about to be counted
\* or missed, as long as the row can be found.
LEMMA GuessesStep == TypeOK /\ GuessesInv /\ [Next]_vars => GuessesInv'
<1> SUFFICES ASSUME TypeOK, GuessesInv, [Next]_vars PROVE GuessesInv'
  OBVIOUS
<1> DEFINE B == Cardinality(Blaming)
<1>a. /\ pc \in [Handlers -> Stages] /\ tries \in Nat /\ uncounted \in Nat
      /\ failures \in 0..LockAfter /\ LockAfter \in Nat \ {0} /\ faults \in Nat
      /\ B \in Nat /\ B <= Cardinality(Handlers) /\ Cardinality(Handlers) \in Nat
  BY AccountsAssumption, BlamingCount DEF TypeOK
<1>b. pc' = pc => B' = B
  BY DEF Blaming, At
<1>c. ASSUME NEW h \in Handlers, NEW stage \in Stages \ {"blame"}, Goto(h, stage),
             pc[h] # "blame"
      PROVE  B' = B /\ B' \in Nat
  BY <1>c, BlamingStep
<1>d. Stages = {"idle", "blame", "greet", "create", "sign", "record", "change",
                "issue", "reset", "link", "unlink", "end"}
  BY DEF Stages
<1> USE DEF At, login, lock, closing, history
<1>1. CASE UNCHANGED vars
  <2>1. /\ tries' = tries /\ failures' = failures /\ uncounted' = uncounted /\ pc' = pc
        /\ status' = status /\ (Findable' => Findable)
    BY <1>1, Zenon DEF vars, Findable
  <2> QED BY <1>a, <1>b, <2>1, GuessesFrame
<1>2. ASSUME NEW h \in Handlers, Register(h) PROVE GuessesInv'
  <2>1. tries' = tries /\ failures' = failures /\ uncounted' = uncounted /\ status = "none"
    BY <1>2 DEF Register
  <2>2. B' \in Nat
    BY <1>2, <1>c, <1>d DEF Register
  <2>3. tries = 0
    BY <2>1 DEF GuessesInv
  <2> QED BY <1>a, <2>1, <2>2, <2>3, GuessesReset
<1>3. ASSUME NEW h \in Handlers, AppleCreate(h) PROVE GuessesInv'
  <2>1. tries' = tries /\ failures' = failures /\ uncounted' = uncounted
    BY <1>3, Zenon DEF AppleCreate
  <2>2. B' = B /\ B' \in Nat
    BY <1>3, <1>c, <1>d DEF AppleCreate
  <2>3. CASE status = "none"
    <3>1. tries = 0
      BY <2>3 DEF GuessesInv
    <3> QED BY <1>a, <2>1, <2>2, <3>1, GuessesReset
  <2>4. CASE status # "none"
    <3>1. status' = status /\ (Findable' => Findable)
      BY <1>3, <2>4, Zenon DEF AppleCreate, Findable
    <3> QED BY <1>a, <2>1, <2>2, <3>1, GuessesFrame
  <2> QED BY <2>3, <2>4
<1>4. ASSUME NEW h \in Handlers, LoginWrong(h) PROVE GuessesInv'
  <2>1. /\ tries' = tries + 1 /\ failures' = failures /\ uncounted' = uncounted
        /\ status' = status /\ status = "live" /\ Findable
    BY <1>4 DEF LoginWrong, Findable
  <2>2. B' = B + 1 /\ B' <= Cardinality(Handlers)
    BY <1>4, <1>d, BlamingStep DEF LoginWrong
  <2>3. FailuresUnlocked' = FailuresUnlocked /\ FailuresUnlocked \in 0..LockAfter - 1
    BY <1>a, <2>1 DEF FailuresUnlocked
  <2>4. tries' <= B' + uncounted' + FailuresUnlocked'
    BY <1>a, <2>1, <2>2, <2>3 DEF GuessesInv
  <2>5. GuessesBounded'
    BY <1>a, <2>1, <2>2, <2>3, <2>4 DEF GuessesBounded
  <2> QED BY <2>1, <2>4, <2>5 DEF GuessesInv
<1>5. ASSUME NEW h \in Handlers, LoginUnknown(h) PROVE GuessesInv'
  <2>1. /\ tries' = tries /\ failures' = failures /\ uncounted' = uncounted
        /\ status' = status /\ (Findable' => Findable)
    BY <1>5, Zenon DEF LoginUnknown, Findable
  <2>2. B' = B + 1
    BY <1>5, <1>d, BlamingStep DEF LoginUnknown
  <2> QED BY <1>a, <2>1, <2>2, GuessesFrame
<1>6. ASSUME NEW h \in Handlers, Blame(h) PROVE GuessesInv'
  <2>1. /\ tries' = tries /\ uncounted' = uncounted
        /\ status' = status /\ email' = email
    BY <1>6, Zenon DEF Blame
  <2>2. B' = B - 1 /\ B' \in Nat /\ pc[h] = "blame"
    BY <1>6, <1>d, BlamingStep DEF Blame
  <2>3. GuessesBounded'
    BY <1>a, <2>1 DEF GuessesBounded, GuessesInv
  <2>4. ASSUME Findable' PROVE tries' <= B' + uncounted' + FailuresUnlocked'
    <3>1. status = "live" /\ email /\ ~locked'
      BY <2>1, <2>4, Zenon DEF Findable
    <3>2. status = "live" /\ email /\ ~locked' /\ Count
      BY <1>6, <3>1, Zenon DEF Blame
    <3>3. ~locked /\ ~(failures + 1 >= LockAfter)
      BY <3>2, Zenon DEF Count
    <3>4. failures' = failures + 1 /\ failures + 1 < LockAfter
      BY <1>a, <3>2, <3>3 DEF Count
    <3>5. FailuresUnlocked' = FailuresUnlocked + 1 /\ FailuresUnlocked = failures
      BY <1>a, <3>4 DEF FailuresUnlocked
    <3>6. tries <= B + uncounted + FailuresUnlocked
      BY <3>2, <3>3 DEF Findable, GuessesInv
    <3> QED BY <1>a, <2>1, <2>2, <3>5, <3>6
  <2>5. status' \in {"none", "deleted"} => tries' = 0
    BY <2>1 DEF GuessesInv
  <2> QED BY <2>3, <2>4, <2>5, Zenon DEF GuessesInv
<1>7. ASSUME NEW h \in Handlers, Greet(h) PROVE GuessesInv'
  <2>1. /\ uncounted' = uncounted /\ status' = status /\ email' = email
        /\ IF HasRow THEN failures' = 0 /\ tries' = 0
                     ELSE failures' = failures /\ tries' = tries /\ locked' = locked
    BY <1>7, Zenon DEF Greet
  <2>2. B' = B /\ B' \in Nat
    BY <1>7, <1>c, <1>d DEF Greet
  <2>3. CASE HasRow
    BY <1>a, <2>1, <2>2, <2>3, GuessesReset
  <2>4. CASE ~HasRow
    <3>1. Findable' => Findable
      BY <2>1, <2>4, Zenon DEF Findable
    <3> QED BY <1>a, <2>1, <2>2, <2>4, <3>1, GuessesFrame
  <2> QED BY <2>3, <2>4
<1>8. ASSUME NEW h \in Handlers,
             \/ LoginRight(h) \/ AppleLogin(h) \/ Sign(h)
             \/ RecordSession(h) \/ EndSessions(h)
             \/ ChangePassword(h) \/ ForgotPassword(h) \/ IssueToken(h) \/ ResetPassword(h)
             \/ SetPassword(h)
             \/ LinkApple(h) \/ SetApple(h) \/ UnlinkApple(h) \/ ClearApple(h)
      PROVE  GuessesInv'
  <2> USE DEF LoginRight, AppleLogin, Sign, RecordSession, EndSessions, ChangePassword,
              ForgotPassword, IssueToken, ResetPassword, SetPassword, LinkApple, SetApple,
              UnlinkApple, ClearApple
  <2>1. /\ tries' = tries /\ failures' = failures /\ uncounted' = uncounted
        /\ status' = status
    BY <1>8, Zenon
  <2>2. Findable' => Findable
    BY <1>8, Zenon DEF Findable
  <2>3. B' = B
    BY <1>8, <1>c, <1>d
  <2> QED BY <1>a, <2>1, <2>2, <2>3, GuessesFrame
<1>9. ASSUME NEW h \in Handlers, Delete(h) PROVE GuessesInv'
  <2>1. tries' = 0 /\ failures' = failures /\ uncounted' = uncounted
    BY <1>9, Zenon DEF Delete
  <2>2. B' \in Nat
    BY <1>9, <1>c, <1>d DEF Delete
  <2> QED BY <1>a, <2>1, <2>2, GuessesReset
<1>10. ASSUME NEW h \in Handlers, StatementFails(h) PROVE GuessesInv'
  <2>1. /\ tries' = tries /\ failures' = failures /\ status' = status
        /\ uncounted' = uncounted + Cardinality(Blaming \cap {h})
        /\ (Findable' => Findable)
    BY <1>10, Zenon DEF StatementFails, Findable
  <2>2. PICK stage \in {"sign", "idle"} : Goto(h, stage)
    BY <1>10 DEF StatementFails
  <2>3. CASE pc[h] = "blame"
    <3>1. Blaming \cap {h} = {h}
      BY <2>3 DEF Blaming
    <3>2. Cardinality(Blaming \cap {h}) = 1
      BY <3>1, FS_Singleton
    <3>3. B' = B - 1 /\ B' \in Nat
      BY <2>2, <2>3, <1>d, BlamingStep
    <3> QED BY <1>a, <2>1, <3>2, <3>3, GuessesFrame
  <2>4. CASE pc[h] # "blame"
    <3>1. B' = B
      BY <2>2, <2>4, <1>c, <1>d
    <3> QED BY <1>a, <2>1, <3>1, BlamingCount, GuessesFrame
  <2> QED BY <2>3, <2>4
<1>11. ASSUME (\E s \in Seconds : Revoke(s)) \/ TokenExpires \/ Tick PROVE GuessesInv'
  <2>1. /\ tries' = tries /\ failures' = failures /\ uncounted' = uncounted /\ pc' = pc
        /\ status' = status /\ email' = email /\ locked' = locked
    BY <1>11, Zenon DEF Revoke, TokenExpires, Tick
  <2>2. Findable' => Findable
    BY <2>1, Zenon DEF Findable
  <2> QED BY <1>a, <1>b, <2>1, <2>2, GuessesFrame
<1>12. CASE HardDelete
  <2>1. /\ tries' = tries /\ failures' = failures /\ uncounted' = uncounted /\ pc' = pc
        /\ status' = "gone" /\ ~Findable'
    BY <1>12, Zenon DEF HardDelete, Findable
  <2> QED BY <1>a, <1>b, <2>1, GuessesFrame
<1>13. CASE Disable \/ Unlock
  <2>1. tries' = 0 /\ failures' = failures /\ uncounted' = uncounted /\ pc' = pc
    BY <1>13, Zenon DEF Disable, Unlock
  <2> QED BY <1>a, <1>b, <2>1, GuessesReset
<1>14. CASE Enable
  <2>1. /\ tries' = tries /\ failures' = failures /\ uncounted' = uncounted /\ pc' = pc
        /\ status' = "live" /\ email' = email /\ locked' = locked
        /\ status \in {"live", "deleted"}
    BY <1>14 DEF Enable, HasRow
  <2>2. CASE status = "live"
    <3>1. Findable' => Findable
      BY <2>1, <2>2, Zenon DEF Findable
    <3> QED BY <1>a, <1>b, <2>1, <3>1, GuessesFrame
  <2>3. CASE status = "deleted"
    <3>1. tries = 0
      BY <2>3 DEF GuessesInv
    <3> QED BY <1>a, <1>b, <2>1, <3>1, GuessesReset
  <2> QED BY <2>1, <2>2, <2>3
<1>15. CASE Crash
  <2>1. /\ tries' = tries /\ failures' = failures /\ uncounted' = uncounted + B
        /\ status' = status /\ (Findable' => Findable)
    BY <1>15, Zenon DEF Crash, Findable
  <2>2. Blaming' = {}
    BY <1>15 DEF Crash, Blaming
  <2>3. B' = 0
    BY <2>2, FS_EmptySet
  <2> QED BY <1>a, <2>1, <2>3, GuessesFrame
<1> QED
  BY <1>1, <1>2, <1>3, <1>4, <1>5, <1>6, <1>7, <1>8, <1>9, <1>10, <1>11, <1>12,
     <1>13, <1>14, <1>15
     DEF Next, HandlerStep

\* However many requests compare passwords at once, no more wrong ones are
\* compared between two unlockings than it takes to lock, may be in progress and
\* were missed.
THEOREM Guesses == Spec => []GuessesBounded
<1>1. Init => GuessesInv
  <2> SUFFICES ASSUME Init PROVE GuessesInv
    OBVIOUS
  <2>1. tries = 0 /\ uncounted = 0 /\ failures = 0
    BY DEF Init
  <2>2. FailuresUnlocked = 0
    BY <2>1, AccountsAssumption DEF FailuresUnlocked
  <2> QED BY <2>1, <2>2, AccountsAssumption, BlamingCount DEF GuessesInv, GuessesBounded
<1>2. GuessesInv => GuessesBounded
  BY DEF GuessesInv
<1> QED BY <1>1, <1>2, GuessesStep, TypeInvariance, PTL DEF Spec
=============================================================================
