------------------------------ MODULE Accounts ------------------------------
(***************************************************************************)
(* The life of one account and of its sessions (internal/auth, SetDisabled *)
(* in internal/admin/handlers.go): registration, login by password and by  *)
(* Apple, lockout, password change and reset, linking, deletion.           *)
(*                                                                         *)
(* Every request has a handler of its own; a step is one SQL statement     *)
(* with the local work around it, and there is no transaction.  What other *)
(* accounts hold only makes statements fail or other rows appear, so there *)
(* is one account.  A refresh token is determined by the account and the   *)
(* second it is signed in, so a session is named by that second.           *)
(*                                                                         *)
(* A definition named after another with a reason added is what a slip in  *)
(* the code would make of it; no specification uses it.                    *)
(***************************************************************************)
EXTENDS Integers, FiniteSets

CONSTANTS Handlers,   \* requests that can be in progress at once
          LockAfter,  \* failed logins that lock the account (5 in the code)
          MaxSecond,  \* bound on the clock of the tokens
          MaxResets,  \* bound on unused password reset tokens
          MaxFaults   \* bound on failed statements and crashes

ASSUME AccountsAssumption ==
  /\ IsFiniteSet(Handlers)
  /\ LockAfter \in Nat \ {0}
  /\ MaxSecond \in Nat \ {0} /\ MaxResets \in Nat /\ MaxFaults \in Nat

Seconds == 1..MaxSecond

VARIABLES
  status,      \* the users row: "none" yet, "live", "deleted" or "gone"
  email,       \* whether the row holds the email address
  password,    \* whether the row holds a password hash
  apple,       \* whether the row holds the Apple subject
  failures,    \* users.login_failures, counted up to LockAfter
  locked,      \* whether locked_until is in the future
  resets,      \* unused password_reset rows in account_tokens
  session,     \* [Seconds -> ...] "none", "active" or "revoked" in auth_sessions
  second,      \* the second on the server's clock
  pc,          \* [Handlers -> stage] the statement a request is at
  token,       \* [Handlers -> Seconds] the refresh token a login signed
  tries,       \* history: wrong passwords compared since the last unlocking,
               \* successful login or closing of the account
  uncounted,   \* history: wrong passwords whose UPDATE failed or never ran
  closed,      \* history: the account was deleted and not re-enabled since
  straddling,  \* history: sessions recorded while the account was closed
  escape,      \* history: a password was on its way when the account closed
  reopened,    \* history: the account was re-enabled after it was deleted
  faults       \* failed statements and crashes so far

login   == <<email, password, apple>>
lock    == <<failures, locked, tries>>
closing == <<closed, straddling, escape, reopened>>
history == <<uncounted, closing>>
vars == <<status, email, password, apple, failures, locked, resets, session,
          second, pc, token, tries, uncounted, closed, straddling, escape,
          reopened, faults>>

Stages == {"idle", "blame", "greet", "create", "sign", "record", "change",
           "issue", "reset", "link", "unlink", "end"}

TypeOK ==
  /\ status \in {"none", "live", "deleted", "gone"}
  /\ email \in BOOLEAN /\ password \in BOOLEAN /\ apple \in BOOLEAN
  /\ failures \in 0..LockAfter
  /\ locked \in BOOLEAN
  /\ resets \in 0..MaxResets
  /\ session \in [Seconds -> {"none", "active", "revoked"}]
  /\ second \in Seconds
  /\ pc \in [Handlers -> Stages]
  /\ token \in [Handlers -> Seconds]
  /\ tries \in Nat /\ uncounted \in Nat
  /\ closed \in BOOLEAN /\ escape \in BOOLEAN /\ reopened \in BOOLEAN
  /\ straddling \in SUBSET Seconds
  /\ faults \in 0..MaxFaults

Init ==
  /\ status = "none"
  /\ email = FALSE /\ password = FALSE /\ apple = FALSE
  /\ failures = 0 /\ locked = FALSE
  /\ resets = 0
  /\ session = [s \in Seconds |-> "none"]
  /\ second = 1
  /\ pc = [h \in Handlers |-> "idle"]
  /\ token = [h \in Handlers |-> 1]
  /\ tries = 0 /\ uncounted = 0
  /\ closed = FALSE /\ straddling = {} /\ escape = FALSE /\ reopened = FALSE
  /\ faults = 0

At(h, stage)   == pc[h] = stage
Goto(h, stage) == pc' = [pc EXCEPT ![h] = stage]
Fault == faults < MaxFaults /\ faults' = faults + 1

HasRow == status \in {"live", "deleted"}
Active == {s \in Seconds : session[s] = "active"}

-----------------------------------------------------------------------------
(* Registration and login.                                                 *)

\* Register: the INSERT.
Register(h) ==
  /\ At(h, "idle") /\ status = "none"
  /\ status' = "live"
  /\ email' = TRUE /\ password' = TRUE
  /\ Goto(h, "sign")
  /\ UNCHANGED <<apple, lock, resets, session, second, token, history, faults>>

\* Login: the SELECT finds the row unless it is deleted or locked.
Findable == status = "live" /\ email /\ ~locked

LoginRight(h) ==
  /\ At(h, "idle") /\ Findable /\ password
  /\ Goto(h, "greet")
  /\ UNCHANGED <<status, login, lock, resets, session, second, token, history, faults>>

LoginWrong(h) ==
  /\ At(h, "idle") /\ Findable
  /\ tries' = tries + 1
  /\ Goto(h, "blame")
  /\ UNCHANGED <<status, login, failures, locked, resets, session, second, token,
                 history, faults>>

\* Login: no row is found or the SELECT fails; both count as a wrong password.
LoginUnknown(h) ==
  /\ At(h, "idle") /\ status # "none"
  /\ \/ ~Findable /\ UNCHANGED faults
     \/ Fault
  /\ Goto(h, "blame")
  /\ UNCHANGED <<status, login, lock, resets, session, second, token, history>>

CountForgettingTheLock ==
  /\ failures' = IF failures < LockAfter THEN failures + 1 ELSE failures
  /\ UNCHANGED locked

\* One more failure; from LockAfter on every failure locks the account anew.
Count ==
  /\ failures' = IF failures < LockAfter THEN failures + 1 ELSE failures
  /\ locked' = (locked \/ failures + 1 >= LockAfter)

\* Login: the UPDATE after a wrong password.
Blame(h) ==
  /\ At(h, "blame")
  /\ IF status = "live" /\ email THEN Count ELSE UNCHANGED <<failures, locked>>
  /\ Goto(h, "idle")
  /\ UNCHANGED <<status, login, tries, resets, session, second, token, history, faults>>

\* Login: the UPDATE after the right password, deleted or locked meanwhile or not.
Greet(h) ==
  /\ At(h, "greet")
  /\ IF HasRow
       THEN failures' = 0 /\ locked' = FALSE /\ tries' = 0
       ELSE UNCHANGED lock
  /\ Goto(h, "sign")
  /\ UNCHANGED <<status, login, resets, session, second, token, history, faults>>

\* AppleLogin: the SELECT by the Apple subject.
AppleLogin(h) ==
  /\ At(h, "idle")
  /\ Goto(h, IF status = "live" /\ apple THEN "sign" ELSE "create")
  /\ UNCHANGED <<status, login, lock, resets, session, second, token, history, faults>>

\* AppleLogin: the INSERT of a new account, with an email address if the
\* identity token tells one.  It fails while the account holds the subject or
\* the address, deleted or not, and else makes some other account.
AppleCreate(h) ==
  /\ At(h, "create")
  /\ IF status = "none"
       THEN /\ status' = "live"
            /\ apple' = TRUE
            /\ email' \in BOOLEAN
            /\ Goto(h, "sign")
       ELSE Goto(h, "idle") /\ UNCHANGED <<status, email, apple>>
  /\ UNCHANGED <<password, lock, resets, session, second, token, history, faults>>

\* tokens: the refresh token depends on the second.
Sign(h) ==
  /\ At(h, "sign")
  /\ token' = [token EXCEPT ![h] = second]
  /\ Goto(h, "record")
  /\ UNCHANGED <<status, login, lock, resets, session, second, history, faults>>

\* RecordSession: INSERT ... ON CONFLICT(refresh_token_hash) DO NOTHING.
RecordSession(h) ==
  /\ At(h, "record")
  /\ IF HasRow /\ session[token[h]] = "none"
       THEN /\ session' = [session EXCEPT ![token[h]] = "active"]
            /\ straddling' = IF closed THEN straddling \cup {token[h]} ELSE straddling
       ELSE UNCHANGED <<session, straddling>>
  /\ Goto(h, "idle")
  /\ UNCHANGED <<status, login, lock, resets, second, token, uncounted, closed,
                 escape, reopened, faults>>

\* Revoke and RevokeSession.
Revoke(s) ==
  /\ session[s] = "active"
  /\ session' = [session EXCEPT ![s] = "revoked"]
  /\ UNCHANGED <<status, login, lock, resets, second, pc, token, history, faults>>

-----------------------------------------------------------------------------
(* Passwords and the Apple link.  An access token is enough to start these, *)
(* whatever became of the account since it was issued.                     *)

ChangePassword(h) ==
  /\ At(h, "idle") /\ status = "live" /\ password
  /\ Goto(h, "change")
  /\ UNCHANGED <<status, login, lock, resets, session, second, token, history, faults>>

\* RequestPasswordReset finds the account, and issueToken inserts a token.
ForgotPassword(h) ==
  /\ At(h, "idle") /\ status = "live" /\ email
  /\ Goto(h, "issue")
  /\ UNCHANGED <<status, login, lock, resets, session, second, token, history, faults>>

IssueToken(h) ==
  /\ At(h, "issue")
  /\ IF HasRow
       THEN resets < MaxResets /\ resets' = resets + 1
       ELSE UNCHANGED resets
  /\ Goto(h, "idle")
  /\ UNCHANGED <<status, login, lock, session, second, token, history, faults>>

\* ResetPassword: the UPDATE that consumes the token looks at no account.
ResetPassword(h) ==
  /\ At(h, "idle") /\ resets > 0
  /\ resets' = resets - 1
  /\ Goto(h, "reset")
  /\ UNCHANGED <<status, login, lock, session, second, token, history, faults>>

\* An unused token expires, and PurgeExpired may delete it.
TokenExpires ==
  /\ resets > 0
  /\ resets' = resets - 1
  /\ UNCHANGED <<status, login, lock, session, second, pc, token, history, faults>>

\* ChangePassword and ResetPassword: the UPDATE of the hash, by id alone.
SetPassword(h) ==
  /\ At(h, "change") \/ At(h, "reset")
  /\ password' = (password \/ HasRow)
  /\ Goto(h, "idle")
  /\ UNCHANGED <<status, email, apple, lock, resets, session, second, token,
                 history, faults>>

\* LinkApple: three SELECTs, all about other accounts, and an UPDATE.
LinkApple(h) ==
  /\ At(h, "idle") /\ status # "none"
  /\ Goto(h, "link")
  /\ UNCHANGED <<status, login, lock, resets, session, second, token, history, faults>>

SetApple(h) ==
  /\ At(h, "link")
  /\ apple' = (apple \/ status = "live")
  /\ Goto(h, "idle")
  /\ UNCHANGED <<status, email, password, lock, resets, session, second, token,
                 history, faults>>

UnlinkableAlways == status = "live"
Unlinkable == status = "live" /\ password

UnlinkApple(h) ==
  /\ At(h, "idle") /\ Unlinkable
  /\ Goto(h, "unlink")
  /\ UNCHANGED <<status, login, lock, resets, session, second, token, history, faults>>

ClearApple(h) ==
  /\ At(h, "unlink")
  /\ apple' = FALSE
  /\ Goto(h, "idle")
  /\ UNCHANGED <<status, email, password, lock, resets, session, second, token,
                 history, faults>>

-----------------------------------------------------------------------------
(* Deletion, and what administrators do.                                   *)

ErasedExceptPassword == email' = FALSE /\ UNCHANGED password
Erased == email' = FALSE /\ password' = FALSE

PasswordOnItsWay ==
  resets > 0 \/ \E h \in Handlers : pc[h] \in {"change", "issue", "reset"}

\* DeleteAccount: the UPDATE of the row.  The Apple subject stays.
Delete(h) ==
  /\ At(h, "idle") /\ HasRow
  /\ status' = "deleted"
  /\ Erased
  /\ closed' = TRUE
  /\ escape' = (escape \/ PasswordOnItsWay)
  /\ tries' = 0
  /\ Goto(h, "end")
  /\ UNCHANGED <<apple, failures, locked, resets, session, second, token,
                 straddling, uncounted, reopened, faults>>

EndedIfRevoked(s) == IF session[s] = "revoked" THEN "revoked" ELSE session[s]
Ended(s) == IF session[s] = "active" THEN "revoked" ELSE session[s]

\* DeleteAccount: the UPDATE of the sessions.
EndSessions(h) ==
  /\ At(h, "end")
  /\ session' = [s \in Seconds |-> Ended(s)]
  /\ Goto(h, "idle")
  /\ UNCHANGED <<status, login, lock, resets, second, token, history, faults>>

\* HardDelete: the row goes, and by ON DELETE CASCADE tokens and sessions.
HardDelete ==
  /\ HasRow
  /\ status' = "gone"
  /\ email' = FALSE /\ password' = FALSE /\ apple' = FALSE
  /\ resets' = 0
  /\ session' = [s \in Seconds |-> "none"]
  /\ UNCHANGED <<lock, second, pc, token, history, faults>>

\* SetDisabled touches nothing but deleted_at.
Disable ==
  /\ HasRow
  /\ status' = "deleted"
  /\ tries' = 0
  /\ UNCHANGED <<login, failures, locked, resets, session, second, pc, token,
                 history, faults>>

Enable ==
  /\ HasRow
  /\ status' = "live"
  /\ reopened' = (reopened \/ closed)
  /\ closed' = FALSE /\ escape' = FALSE /\ straddling' = {}
  /\ UNCHANGED <<login, lock, resets, session, second, pc, token, uncounted, faults>>

-----------------------------------------------------------------------------
(* Time and failures.                                                      *)

\* Fifteen minutes after the last failure; the count of failures stays.
Unlock ==
  /\ locked
  /\ locked' = FALSE
  /\ tries' = 0
  /\ UNCHANGED <<status, login, failures, resets, session, second, pc, token,
                 history, faults>>

Tick ==
  /\ second < MaxSecond
  /\ second' = second + 1
  /\ UNCHANGED <<status, login, lock, resets, session, pc, token, history, faults>>

Blaming == {h \in Handlers : At(h, "blame")}

\* A statement fails.  Login goes on without its UPDATE; every other handler
\* ends, with an error or, after RecordSession and EndSessions, without.
StatementFails(h) ==
  /\ pc[h] \notin {"idle", "sign"}
  /\ Fault
  /\ Goto(h, IF At(h, "greet") THEN "sign" ELSE "idle")
  /\ uncounted' = uncounted + Cardinality(Blaming \cap {h})
  /\ UNCHANGED <<status, login, lock, resets, session, second, token, closing>>

Crash ==
  /\ Fault
  /\ pc' = [h \in Handlers |-> "idle"]
  /\ uncounted' = uncounted + Cardinality(Blaming)
  /\ UNCHANGED <<status, login, lock, resets, session, second, token, closing>>

-----------------------------------------------------------------------------
HandlerStep(h) ==
  \/ Register(h)
  \/ LoginRight(h) \/ LoginWrong(h) \/ LoginUnknown(h) \/ Blame(h) \/ Greet(h)
  \/ AppleLogin(h) \/ AppleCreate(h)
  \/ Sign(h) \/ RecordSession(h)
  \/ ChangePassword(h) \/ ForgotPassword(h) \/ IssueToken(h) \/ ResetPassword(h)
  \/ SetPassword(h)
  \/ LinkApple(h) \/ SetApple(h) \/ UnlinkApple(h) \/ ClearApple(h)
  \/ Delete(h) \/ EndSessions(h)
  \/ StatementFails(h)

Next ==
  \/ \E h \in Handlers : HandlerStep(h)
  \/ \E s \in Seconds : Revoke(s)
  \/ TokenExpires
  \/ HardDelete
  \/ Disable \/ Enable
  \/ Unlock
  \/ Tick
  \/ Crash

Spec == Init /\ [][Next]_vars

-----------------------------------------------------------------------------
(* Properties.                                                             *)

\* The row is read before the password is compared and the failure counted
\* after it, so guesses overtake the lock; still, between two moments at which
\* guessing may start again, no more wrong passwords are compared than it takes
\* to lock the account, requests may be in progress and UPDATEs were missed.
GuessesBounded == tries <= LockAfter - 1 + Cardinality(Handlers) + uncounted

\* Unlinking, changing and deleting in any order leave a live account a way to
\* log in; only one that an administrator re-enabled after it was deleted may
\* have none.
LoginMethodKept == status = "live" /\ ~reopened => apple \/ (email /\ password)

\* Once a deletion is through without a failure, no session of the account is
\* active but those of logins that were recorded after it.
DeletionEndsSessions ==
  closed /\ faults = 0 /\ (\A h \in Handlers : pc[h] # "end") => Active \subseteq straddling

\* A deleted account holds no email address, and no password unless a change or
\* a reset was under way, or a reset token in the mail, when it was deleted.
ErasedStaysErased == closed => ~email /\ (password => escape)

-----------------------------------------------------------------------------
(* What makes these properties inductive.                                  *)

\* How many of the failures in users.login_failures leave the account unlocked.
FailuresUnlocked == IF failures < LockAfter THEN failures ELSE LockAfter - 1

\* Guesses are failures counted, about to be counted, or missed; once locked
\* or closed, the account takes no more of them.
GuessesInv ==
  /\ GuessesBounded
  /\ status \in {"none", "deleted"} => tries = 0
  /\ Findable => tries <= Cardinality(Blaming) + uncounted + FailuresUnlocked

\* Until the row is erased, a password is only ever set beside an email
\* address, and Unlink counts on one that nothing can take away.
LoginMethodInv ==
  /\ closed => status \in {"deleted", "gone"}
  /\ status # "gone" /\ ~closed /\ ~reopened =>
       /\ password \/ PasswordOnItsWay => email
       /\ (\E h \in Handlers : At(h, "unlink")) => password
       /\ IF status = "none" THEN ~email ELSE apple \/ (email /\ password)

\* Only a request or token from before can bring a password back.
ErasedInv ==
  closed => /\ status \in {"deleted", "gone"}
            /\ ~email
            /\ password \/ PasswordOnItsWay => escape

\* Until the UPDATE of the sessions is done, somebody is still to do it.
SessionsInv ==
  closed /\ faults = 0 => Active \subseteq straddling \/ \E h \in Handlers : At(h, "end")
=============================================================================
