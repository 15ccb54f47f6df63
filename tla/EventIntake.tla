---------------------------- MODULE EventIntake ----------------------------
(***************************************************************************)
(* How events get into the log, AppendEvents, and the device they come from*)
(* (internal/sync/handlers.go): one installation of the app has recorded   *)
(* events offline and sends all it has, in batches that are inserted event *)
(* by event, again and again until each is answered as accepted.  Accounts *)
(* may be switched on the device, register it and be erased while requests *)
(* of theirs are still in progress.                                        *)
(*                                                                         *)
(* What the log does with the events is in EventLog.                       *)
(*                                                                         *)
(* A definition named after another with a reason added is what a slip in  *)
(* the code would make of it; no specification uses it.                    *)
(***************************************************************************)
EXTENDS Integers, FiniteSets

CONSTANTS Users,       \* the accounts used on the device
          Named,       \* events with an id of the app's making
          Nameless,    \* events without: the server makes one up on every try
          Payloadless, \* events the loop refuses, each on its own
          Malformed,   \* events with which the whole batch is refused
          Deviceless,  \* events that name no device
          BatchLimit,  \* events in a batch, 500
          None         \* no account

Events == Named \cup Nameless
Sound  == Events \ (Payloadless \cup Malformed)
Anew   == Nameless \cap Sound  \* events every try inserts anew
Count  == 0..2                 \* none, one, more

ASSUME EventIntakeAssumption ==
  /\ Named \cap Nameless = {} /\ Payloadless \subseteq Events /\ Malformed \subseteq Events
  /\ Deviceless \subseteq Events /\ BatchLimit \in Nat \ {0}
  /\ None \notin Users

VARIABLES
  user,      \* the account the app is signed in to
  queue,     \* the events the app still has to send
  owner,     \* devices.user_id, None without a row
  erased,    \* the accounts that were erased
  stored,    \* [Users -> [Events -> Count]] the rows of sync_events
  req,       \* the request the app waits for
  late,      \* the inserts a request may still do that the app gave up on
  accepted,  \* history: <<u, e>>, the app was told that e was accepted from u
  doubtful   \* history: events of Anew sent again though a try may have stored them

vars == <<user, queue, owner, erased, stored, req, late, accepted, doubtful>>

\* A request of an account: the events of its batch, those still to insert and
\* those that failed.
Request == [user : Users, batch : SUBSET Events, left : SUBSET Events,
            failed : SUBSET Events]
Idle    == [user |-> None, batch |-> {}, left |-> {}, failed |-> {}]

TypeOK ==
  /\ user \in Users /\ queue \in SUBSET Events
  /\ owner \in Users \cup {None} /\ erased \in SUBSET Users
  /\ stored \in [Users -> [Events -> Count]]
  /\ req \in Request \cup {Idle}
  /\ late \in SUBSET (Users \X Events)
  /\ accepted \in SUBSET (Users \X Events) /\ doubtful \in SUBSET Anew

Init ==
  /\ user \in Users /\ queue \in SUBSET Events
  /\ owner = None /\ erased = {}
  /\ stored = [u \in Users |-> [e \in Events |-> 0]]
  /\ req = Idle /\ late = {}
  /\ accepted = {} /\ doubtful = {}

-----------------------------------------------------------------------------
(* The device.                                                             *)

\* RegisterDevice: the account becomes the owner, whoever was before.
RegisterDevice ==
  /\ user \notin erased
  /\ owner' = user
  /\ UNCHANGED <<user, queue, erased, stored, req, late, accepted, doubtful>>

\* Another account signs in; what the app has not sent, it keeps.
SwitchAccount(u) ==
  /\ user' = u
  /\ UNCHANGED <<queue, owner, erased, stored, req, late, accepted, doubtful>>

\* HardDelete: the rows of the account go, the device's among them.
Erase(u) ==
  /\ u \notin erased
  /\ erased' = erased \cup {u}
  /\ owner' = IF owner = u THEN None ELSE owner
  /\ stored' = [stored EXCEPT ![u] = [e \in Events |-> 0]]
  /\ UNCHANGED <<user, queue, req, late, accepted, doubtful>>

-----------------------------------------------------------------------------
(* AppendEvents.                                                           *)

RefusedForAnyFlaw(B) == B \cap (Malformed \cup Payloadless) # {} \/ Cardinality(B) > BatchLimit

\* A batch that is too long, or has an event that does not bind, is answered 400.
Refused(B) == B \cap Malformed # {} \/ Cardinality(B) > BatchLimit

\* The app sends all it has.
Send ==
  /\ req = Idle /\ queue # {} /\ ~Refused(queue)
  /\ req' = [user |-> user, batch |-> queue, left |-> queue, failed |-> {}]
  /\ UNCHANGED <<user, queue, owner, erased, stored, late, accepted, doubtful>>

\* Some account's row has the id.
Taken(e) == e \in Named /\ \E v \in Users : stored[v][e] > 0

OneMore(n) == IF n = 0 THEN 1 ELSE 2

InsertedAnew(u, e) == OneMore(stored[u][e])

\* ON CONFLICT(id) DO NOTHING: an id is inserted once, whoever has it; an event
\* without gets a new one.
Inserted(u, e) == IF Taken(e) THEN stored[u][e] ELSE OneMore(stored[u][e])

InsertableForDevice(u, e) ==
  /\ e \notin Payloadless
  /\ Taken(e) \/ owner # None \/ e \in Deviceless

\* The loop does not refuse the event, and the statement finds the rows its
\* foreign keys refer to, which it needs only for a row it inserts.
Insertable(u, e) ==
  /\ e \notin Payloadless
  /\ \/ Taken(e)
     \/ u \notin erased /\ (owner # None \/ e \in Deviceless)

Insert(u, e) ==
  /\ Insertable(u, e)
  /\ stored' = [stored EXCEPT ![u][e] = Inserted(u, e)]

InsertSucceeds(e) ==
  /\ e \in req.left
  /\ Insert(req.user, e)
  /\ req' = [req EXCEPT !.left = @ \ {e}]
  /\ UNCHANGED <<user, queue, owner, erased, late, accepted, doubtful>>

\* An event that cannot be inserted, or a statement that fails: after it took
\* effect, perhaps.
InsertFails(e) ==
  /\ e \in req.left
  /\ \/ UNCHANGED <<stored, doubtful>>
     \/ Insert(req.user, e) /\ doubtful' = doubtful \cup ({e} \cap Anew)
  /\ req' = [req EXCEPT !.left = @ \ {e}, !.failed = @ \cup {e}]
  /\ UNCHANGED <<user, queue, owner, erased, late, accepted>>

NotFailedByName(q) == q.batch \ (q.failed \cap Named)

\* What the app reads from the answer: "failed" lists ids, so that a nameless
\* event that failed leaves all nameless ones to be sent again.
NotFailed(q) ==
  IF q.failed \cap Nameless = {} THEN q.batch \ q.failed
  ELSE (q.batch \ q.failed) \cap Named

Answer ==
  /\ req # Idle /\ req.left = {}
  /\ queue' = queue \ NotFailed(req)
  /\ accepted' = accepted \cup {<<req.user, e>> : e \in NotFailed(req)}
  /\ doubtful' = doubtful \cup ((req.batch \ (req.failed \cup NotFailed(req))) \cap Anew)
  /\ req' = Idle
  /\ UNCHANGED <<user, owner, erased, stored, late>>

\* The app gives up, or the server stops: what the request has not inserted it
\* may go on to insert, or not.
GiveUp ==
  /\ req # Idle
  /\ req' = Idle
  /\ late' = late \cup {<<req.user, e>> : e \in req.left \ Payloadless}
  /\ doubtful' = doubtful \cup (req.batch \cap Anew)
  /\ UNCHANGED <<user, queue, owner, erased, stored, accepted>>

LateInsert(u, e) ==
  /\ <<u, e>> \in late
  /\ Insert(u, e)
  /\ late' = late \ {<<u, e>>}
  /\ UNCHANGED <<user, queue, owner, erased, req, accepted, doubtful>>

-----------------------------------------------------------------------------
Next ==
  \/ RegisterDevice \/ Send \/ Answer \/ GiveUp
  \/ \E u \in Users : SwitchAccount(u) \/ Erase(u)
  \/ \E e \in Events : InsertSucceeds(e) \/ InsertFails(e) \/ \E u \in Users : LateInsert(u, e)

Spec == Init /\ [][Next]_vars

\* The app registers and sends again, handlers come to their end, and the
\* database does not fail every time.
Fairness ==
  /\ WF_vars(RegisterDevice) /\ WF_vars(Send) /\ WF_vars(Answer)
  /\ WF_vars(\E e \in Events : InsertFails(e))
  /\ \A e \in Sound : SF_vars(InsertSucceeds(e))

FairSpec == Spec /\ Fairness

-----------------------------------------------------------------------------
(* Properties.                                                             *)

\* What the app was told is accepted is in the log of the account that sent it,
\* until that is erased; or it went unstored because another account had the id.
AcceptedIsStored ==
  \A p \in accepted :
    LET u == p[1]  e == p[2] IN
    \/ stored[u][e] > 0 \/ u \in erased
    \/ e \in Named /\ \E v \in Users \ {u} : stored[v][e] > 0 \/ v \in erased

\* However often a batch is sent, an event is twice in the logs only if it has
\* no id and a try of unknown outcome came before.
RetriesInsertOnce ==
  \A e \in Events :
    \/ \A u, v \in Users : stored[u][e] <= 1 /\ (stored[u][e] = 1 /\ stored[v][e] = 1 => u = v)
    \/ e \in doubtful

\* An erased account leaves neither events nor device, whatever requests of its
\* were in progress.
ErasedLeaveNothing ==
  \A u \in erased : owner # u /\ \A e \in Events : stored[u][e] = 0

\* Events the server refuses do not hold up the others: a sound event gets into
\* a log, or is answered for, unless the queue has one for which every batch is
\* refused, or is longer than a batch may be, or the app stays signed in to an
\* erased account.
EventsGetStored ==
  \A e \in Sound :
    e \in queue ~>
      \/ e \notin queue \/ \E u \in Users : stored[u][e] > 0
      \/ queue \cap Malformed # {} \/ Cardinality(queue) > BatchLimit
      \/ user \in erased
=============================================================================
