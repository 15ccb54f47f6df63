----------------------------- MODULE Moderation -----------------------------
(***************************************************************************)
(* The rows that the word filter leaves of refused requests to the AI      *)
(* (ai_safety_events), from insertion to removal: reviewers list and       *)
(* decide them, authors appeal, the ticker purges, and the accounts        *)
(* involved may be erased (internal/ai/handler.go,                         *)
(* internal/admin/handlers.go, internal/db/maintenance.go).                *)
(*                                                                         *)
(* "escalated" behaves as "rejected" does, and is not told from it.        *)
(*                                                                         *)
(* A definition named after another with a reason added is what a slip in  *)
(* the code would make of it; no specification uses it.                    *)
(***************************************************************************)
EXTENDS Integers, FiniteSets

CONSTANTS Events,
          Staff,     \* accounts that may review
          Author,    \* [Events -> accounts]
          PageSize,  \* rows the list shows (200 in the code)
          None       \* no reviewer

ASSUME ModerationAssumption ==
  /\ IsFiniteSet(Events) /\ DOMAIN Author = Events
  /\ PageSize \in Nat \ {0} /\ None \notin Staff

Accounts == Staff \cup {Author[e] : e \in Events}

VARIABLES
  status,    \* [Events -> ...] "none" without a row
  created,   \* [Events -> Nat] the order in which the rows were inserted, 0 before
  reviewer,  \* [Events -> Staff \cup {None}]
  appealed,  \* events with appeal_status 'pending'
  shown,     \* events on some reviewer's page, however old the page is
  horizon,   \* rows created up to there have outlived RetentionDays
  retaining, \* RetentionDays is positive
  leaving,   \* accounts whose owners ask for their erasure
  erased     \* accounts that are

rows == <<status, reviewer, appealed>>
vars == <<rows, created, shown, horizon, retaining, leaving, erased>>

Decided == {"approved", "rejected"}

TypeOK ==
  /\ status \in [Events -> {"none", "open"} \cup Decided]
  /\ created \in [Events -> 0..Cardinality(Events)]
  /\ reviewer \in [Events -> Staff \cup {None}]
  /\ appealed \in SUBSET Events
  /\ shown \in SUBSET Events
  /\ horizon \in 0..Cardinality(Events) /\ retaining \in BOOLEAN
  /\ leaving \in SUBSET Accounts /\ erased \in SUBSET leaving

Init ==
  /\ status = [e \in Events |-> "none"] /\ created = [e \in Events |-> 0]
  /\ reviewer = [e \in Events |-> None]
  /\ appealed = {} /\ shown = {}
  /\ horizon = 0 /\ retaining \in BOOLEAN
  /\ leaving = {} /\ erased = {}

Made == {e \in Events : created[e] > 0}

Remove(gone) ==
  /\ status' = [e \in Events |-> IF e \in gone THEN "none" ELSE status[e]]
  /\ reviewer' = [e \in Events |-> IF e \in gone THEN None ELSE reviewer[e]]
  /\ appealed' = appealed \ gone

-----------------------------------------------------------------------------
(* What authors do.                                                        *)

\* safety refuses a request.  The row refers to the author's; if the INSERT fails
\* there is none, and the request is refused all the same.
Create(e) ==
  /\ created[e] = 0 /\ Author[e] \notin erased
  /\ status' = [status EXCEPT ![e] = "open"]
  /\ created' = [created EXCEPT ![e] = Cardinality(Made) + 1]
  /\ UNCHANGED <<reviewer, appealed, shown, horizon, retaining, leaving, erased>>

AppealSafety(e) ==
  /\ status[e] = "rejected"
  /\ appealed' = appealed \cup {e}
  /\ UNCHANGED <<status, reviewer, created, shown, horizon, retaining, leaving, erased>>

-----------------------------------------------------------------------------
(* What reviewers do.                                                      *)

\* The list has rows of any status.
Rows == {e \in Events : status[e] # "none"}

Newer(e) == {d \in Rows : created[d] > created[e]}

ListedOldestFirst ==
  {e \in Rows : Cardinality({d \in Rows : created[d] < created[e]}) < PageSize}

\* ORDER BY created_at DESC LIMIT PageSize.
Listed == {e \in Rows : Cardinality(Newer(e)) < PageSize}

Unmanned == Staff \subseteq leaving

AISafetyEvents ==
  /\ ~Unmanned /\ shown' = shown \cup Listed
  /\ UNCHANGED <<rows, created, horizon, retaining, leaving, erased>>

\* Whatever was decided about the row since it was listed.
Reviewable(e) == e \in shown /\ status[e] # "none"

\* The appeal stays pending.
ReviewSafety(r, e) ==
  /\ Reviewable(e) /\ r \notin leaving
  /\ \E s \in Decided : status' = [status EXCEPT ![e] = s]
  /\ reviewer' = [reviewer EXCEPT ![e] = r]
  /\ UNCHANGED <<appealed, created, shown, horizon, retaining, leaving, erased>>

-----------------------------------------------------------------------------
(* Retention and erasure.                                                  *)

Age ==
  /\ retaining /\ horizon < Cardinality(Made)
  /\ horizon' = horizon + 1
  /\ UNCHANGED <<rows, created, shown, retaining, leaving, erased>>

PurgeableUnlessAppealed(e) ==
  status[e] \in Decided /\ created[e] <= horizon /\ e \notin appealed

\* An appeal does not keep an event.
Purgeable(e) == status[e] \in Decided /\ created[e] <= horizon

PurgeExpired ==
  /\ \E e \in Events : Purgeable(e)
  /\ Remove({e \in Events : Purgeable(e)})
  /\ UNCHANGED <<created, shown, horizon, retaining, leaving, erased>>

\* The owner asks for erasure, again and again until it works, and reviews no
\* more.
Leave(a) ==
  /\ a \notin leaving /\ leaving' = leaving \cup {a}
  /\ UNCHANGED <<rows, created, shown, horizon, retaining, erased>>

\* The foreign key of reviewer_id has no ON DELETE action: the account cannot be
\* deleted while events of others name it.
Referred(a) == \E e \in Events : reviewer[e] = a /\ Author[e] # a

\* HardDelete: with the account go its rows.
HardDelete(a) ==
  /\ a \in leaving \ erased /\ ~Referred(a)
  /\ erased' = erased \cup {a}
  /\ Remove({e \in Events : Author[e] = a})
  /\ UNCHANGED <<created, shown, horizon, retaining, leaving>>

-----------------------------------------------------------------------------
Next ==
  \/ \E e \in Events : Create(e) \/ AppealSafety(e) \/ \E r \in Staff : ReviewSafety(r, e)
  \/ AISafetyEvents \/ Age \/ PurgeExpired
  \/ \E a \in Accounts : Leave(a) \/ HardDelete(a)

Spec == Init /\ [][Next]_vars

\* Reviewers look at their pages and decide what these show as undecided; time
\* passes and the ticker purges; erasure is asked for until it works.  Nobody is
\* taken to go through appealed events: a review leaves appeal_status as it is,
\* so that the page does not tell the heard from the unheard.
Fairness ==
  /\ WF_vars(AISafetyEvents)
  /\ \A e \in Events :
       SF_vars(status[e] = "open" /\ \E r \in Staff : ReviewSafety(r, e))
  /\ WF_vars(Age) /\ WF_vars(PurgeExpired)
  /\ \A a \in Accounts : WF_vars(HardDelete(a))

FairSpec == Spec /\ Fairness

-----------------------------------------------------------------------------
(* Properties.                                                             *)

Buried(e) == Cardinality(Newer(e)) >= PageSize

\* An undecided event is decided, unless the author is erased, newer rows, decided
\* ones among them, fill the page, or nobody is left to review (the list's LIMIT
\* and the purge of decided rows only).
OpenGetDecided ==
  \A e \in Events :
    status[e] = "open" ~>
      status[e] \in Decided \/ Buried(e) \/ Unmanned \/ Author[e] \in erased

\* Whoever reviewed can still be erased: once the reviews have outlived their
\* retention, if there is one (the foreign key of reviewer_id).
ErasureCompletes ==
  \A a \in Accounts : a \in leaving ~> a \in erased \/ ~retaining
=============================================================================
