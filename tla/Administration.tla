--------------------------- MODULE Administration ---------------------------
(***************************************************************************)
(* Who may administrate (internal/admin, RequireAuth and tokens in         *)
(* internal/auth, the route groups of internal/httpapi/router.go), for one *)
(* account that other administrators promote, demote, disable and enable.  *)
(*                                                                         *)
(* An access token carries the role its account had when it was signed and *)
(* is never looked up again; a permission is looked up by every request.   *)
(* A request is a series of statements, and what it found out it acts on   *)
(* later.                                                                  *)
(*                                                                         *)
(* The rows of audit_logs are left out: a second statement writes them     *)
(* after some of the changes (not for plans or content), its error is      *)
(* dropped, and nothing here reads them.                                   *)
(*                                                                         *)
(* A definition named after another with a reason added is what a slip in  *)
(* the code would make of it; no specification uses it.                    *)
(***************************************************************************)
EXTENDS Integers

CONSTANTS Requests,   \* requests of the account that can be in progress at once
          Life        \* ticks an access token is valid (30 minutes in the code)

ASSUME AdministrationAssumption == Life \in Nat \ {0}

Roles == {"student", "admin"}             \* "parent" administrates no more than "student"
Permissions == {"admin.read", "admin.write"}

\* What access tokens are issued for: the role of the account, and the session,
\* one that the account has on some device, for those that a refresh returned.
Grounds == Roles \cup {"session"}

VARIABLES
  row,      \* the users row: "live", "disabled" or "gone"
  role,     \* users.role
  perms,    \* the account's rows in admin_permissions
  session,  \* the session's row is "active" or "revoked"
  left,     \* [Grounds -> 0..Life] ticks the newest access token has left
  req,      \* [Requests -> Request]
  since     \* history: [Grounds -> 0..Life] ticks since the ground held, unclaimed

db   == <<row, role, perms>>
vars == <<row, role, perms, session, left, req, since>>

\* A request, the role it read from the row or the token, and whether it is a
\* refresh that takes the session for active.
Stages  == {"idle", "read", "sign", "write", "act", "edit"}
Request == [at : Stages, role : Roles, refresh : BOOLEAN]

TypeOK ==
  /\ row \in {"live", "disabled", "gone"} /\ role \in Roles
  /\ perms \in SUBSET Permissions
  /\ session \in {"active", "revoked"}
  /\ left \in [Grounds -> 0..Life] /\ since \in [Grounds -> 0..Life]
  /\ req \in [Requests -> Request]

Idle == [at |-> "idle", role |-> "student", refresh |-> FALSE]

Init ==
  /\ row = "live" /\ role \in Roles /\ perms = {}
  /\ session = "active"
  /\ left = [g \in Grounds |-> 0] /\ since = [g \in Grounds |-> 0]
  /\ req = [q \in Requests |-> Idle]

At(q, stage) == req[q].at = stage
Goto(q, stage) == req' = [req EXCEPT ![q].at = stage]
End(q) == req' = [req EXCEPT ![q] = Idle]

-----------------------------------------------------------------------------
(* Tokens.                                                                 *)

\* Login, by password or Apple: the row that is read is live.
Login(q) ==
  /\ At(q, "idle") /\ row = "live"
  /\ req' = [req EXCEPT ![q] = [at |-> "sign", role |-> role, refresh |-> FALSE]]
  /\ UNCHANGED <<db, session, left>>

StartRefresh(q) ==
  /\ At(q, "idle")
  /\ req' = [req EXCEPT ![q] = [at |-> "read", role |-> "student", refresh |-> TRUE]]
  /\ UNCHANGED <<db, session, left>>

\* Refresh: the session is found active.
Refresh(q) == session = "active" /\ StartRefresh(q)

\* Refresh: reading the session fails, and the refresh goes on.
RefreshUnchecked(q) == StartRefresh(q)

RoleInToken == IF left["admin"] > 0 THEN "admin" ELSE role

RoleInRow == role

\* Refresh: the row is read anew, whatever the refresh token says of the role.
ReadRow(q) ==
  /\ At(q, "read")
  /\ IF row = "live"
       THEN req' = [req EXCEPT ![q].at = "sign", ![q].role = RoleInRow]
       ELSE End(q)
  /\ UNCHANGED <<db, session, left>>

\* tokens: an access token for what was read.
Sign(q) ==
  /\ At(q, "sign")
  /\ left' = [g \in Grounds |->
                IF g = req[q].role \/ (g = "session" /\ req[q].refresh) THEN Life ELSE left[g]]
  /\ End(q)
  /\ UNCHANGED <<db, session>>

-----------------------------------------------------------------------------
(* The routes under /admin that write.                                     *)

PermittedByAny(r, permission) == r = "admin" \/ perms # {}

\* RequirePermission: the role in the token, else the rows there are now.
Permitted(r, permission) == r = "admin" \/ permission \in perms

\* RequireAuth takes the role from the token; then the check of the outer group.
Enter(q) ==
  /\ At(q, "idle")
  /\ \E r \in Roles :
       /\ left[r] > 0 /\ Permitted(r, "admin.read")
       /\ req' = [req EXCEPT ![q] = [at |-> "write", role |-> r, refresh |-> FALSE]]
  /\ UNCHANGED <<db, session, left>>

\* The check of the inner group.
MayWrite(q) ==
  /\ At(q, "write") /\ Permitted(req[q].role, "admin.write")
  /\ Goto(q, "act")
  /\ UNCHANGED <<db, session, left>>

\* The routes under /admin/content ask for the one permission alone.
EnterContent(q) ==
  /\ At(q, "idle")
  /\ \E r \in Roles :
       /\ left[r] > 0 /\ Permitted(r, "admin.write")
       /\ req' = [req EXCEPT ![q] = [at |-> "edit", role |-> r, refresh |-> FALSE]]
  /\ UNCHANGED <<db, session, left>>

SetRole(r) ==
  /\ row = "live" /\ role' = r
  /\ UNCHANGED <<row, perms>>

SetDisabled(b) ==
  /\ row # "gone" /\ row' = IF b THEN "disabled" ELSE "live"
  /\ UNCHANGED <<role, perms>>

\* The statement refers to both accounts, of which one may be gone.
GrantPermission(p) ==
  /\ row # "gone" /\ perms' = perms \cup {p}
  /\ UNCHANGED <<row, role>>

RevokePermission(p) ==
  /\ perms' = perms \ {p}
  /\ UNCHANGED <<row, role>>

Change ==
  \/ \E r \in Roles : SetRole(r)
  \/ \E b \in BOOLEAN : SetDisabled(b)
  \/ \E p \in Permissions : GrantPermission(p) \/ RevokePermission(p)

\* What the request changes is the account itself, or something else.
Act(q) ==
  /\ At(q, "act")
  /\ Change \/ UNCHANGED db
  /\ End(q)
  /\ UNCHANGED <<session, left>>

\* Content is written, and nothing of the account.
Edit(q) ==
  /\ At(q, "edit")
  /\ End(q)
  /\ UNCHANGED <<db, session, left>>

\* A check fails, a statement does, or a row to change is not there.
Stop(q) ==
  /\ ~At(q, "idle")
  /\ End(q)
  /\ UNCHANGED <<db, session, left>>

-----------------------------------------------------------------------------
(* Others, the account's deletion, and time.                               *)

ChangeByOther ==
  /\ Change
  /\ UNCHANGED <<session, left, req>>

\* Revoke, RevokeSession.
RevokeSession ==
  /\ session' = "revoked"
  /\ UNCHANGED <<db, left, req>>

\* HardDelete: sessions and permissions go with the row.
HardDelete ==
  /\ row' = "gone" /\ perms' = {} /\ session' = "revoked"
  /\ UNCHANGED <<role, left, req>>

\* The server starts anew, and BootstrapAdmin promotes the account whose address
\* is configured, disabled or not.
Restart ==
  /\ role' = role \/ (row # "gone" /\ role' = "admin")
  /\ req' = [q \in Requests |-> Idle]
  /\ UNCHANGED <<row, perms, session, left>>

Held(g) ==
  \/ g \in Roles /\ row = "live" /\ role = g
  \/ g = "session" /\ session = "active"

\* Some request is about to sign a token for the ground.
Claimed(g) ==
  \E q \in Requests :
    \/ g = req[q].role /\ At(q, "sign")
    \/ g = "session" /\ req[q].refresh

\* The grounds in G count as held, and those that hold before or after the step.
Watch(G) ==
  since' = [g \in Grounds |-> IF g \in G \/ Held(g) \/ Held(g)' THEN 0 ELSE since[g]]

Tick ==
  /\ left' = [g \in Grounds |-> IF left[g] > 0 THEN left[g] - 1 ELSE 0]
  /\ since' = [g \in Grounds |->
                 IF Held(g) THEN 0
                 ELSE IF Claimed(g) \/ since[g] = Life THEN since[g] ELSE since[g] + 1]
  /\ UNCHANGED <<db, session, req>>

-----------------------------------------------------------------------------
Own(q) ==
  \/ Login(q) \/ Refresh(q) \/ ReadRow(q) \/ Sign(q)
  \/ Enter(q) \/ MayWrite(q) \/ Act(q) \/ EnterContent(q) \/ Edit(q) \/ Stop(q)

Others == ChangeByOther \/ RevokeSession \/ HardDelete \/ Restart

Next ==
  \/ (\E q \in Requests : Own(q)) /\ Watch({})
  \/ (\E q \in Requests : RefreshUnchecked(q)) /\ Watch({"session"})
  \/ Others /\ Watch({})
  \/ Tick

Spec == Init /\ [][Next]_vars

-----------------------------------------------------------------------------
(* Properties.                                                             *)

\* Role and session are looked up when a token is issued only; still none is
\* good for longer than Life after the account last had that role, enabled, or
\* the session was last active or could not be read; a request in progress then
\* stretches that by its duration.
TokensLapse == \A g \in Grounds : left[g] > 0 => left[g] + since[g] <= Life

\* The account can change accounts under /admin, itself among them, or come to,
\* without anybody's help.  To write content takes less: "admin.write" alone.
Powerful ==
  \/ row = "live" /\ role = "admin"
  \/ left["admin"] > 0
  \/ perms = Permissions
  \/ \E q \in Requests :
       \/ At(q, "sign") /\ req[q].role = "admin"
       \/ At(q, "write") /\ (req[q].role = "admin" \/ "admin.write" \in perms)
       \/ At(q, "act")

\* An account that lost the role and either permission, and whose tokens lapsed,
\* does not get back to power by requests of its own, in whatever order it makes
\* them and whatever it has in progress.
NoSelfPromotion == [][(\E q \in Requests : Own(q) \/ RefreshUnchecked(q)) /\ ~Powerful => ~Powerful']_vars
=============================================================================
