------------------------------ MODULE EventLog ------------------------------
(***************************************************************************)
(* The incremental event log of one user, the table sync_events, as its    *)
(* statements interleave (internal/sync/handlers.go): events are inserted, *)
(* devices page through the live rows after their cursor, rows are         *)
(* archived, and compactions replace rows by one row that holds them.      *)
(* Devices may replay the whole log, archived rows included.  The cursor   *)
(* that Acknowledge stores is left out: nothing reads it.                  *)
(*                                                                         *)
(* A statement of the code that inserts a row is two steps here: created_at*)
(* is NOW(), the time the statement starts, and the row becomes visible    *)
(* when the statement commits.  What happens before an insert, the batches,*)
(* failures and retries of AppendEvents, is in EventIntake.                *)
(*                                                                         *)
(* A definition named after another with a reason added is what a slip in  *)
(* the code would make of it; no specification uses it.                    *)
(***************************************************************************)
EXTENDS Integers, FiniteSets

CONSTANTS Events,        \* ids of the events devices append
          Devices,       \* the devices that pull
          Compactions,   \* compaction requests, each the id of the row it makes
          PageSize,      \* rows of an Events answer (500 in the code)
          CompactLimit,  \* rows a compaction selects (5000 in the code)
          ReplayLimit,   \* rows of a ReplayEvents answer (5000 in the code)
          MaxClock       \* bound on the database clock

ASSUME EventLogAssumption ==
  /\ Events \cap Compactions = {}
  /\ PageSize \in Nat \ {0} /\ CompactLimit \in Nat \ {0} /\ ReplayLimit \in Nat \ {0}
  /\ MaxClock \in Nat \ {0}

Ids   == Events \cup Compactions
Times == 0..MaxClock

\* The times an archiving or a compaction may ask for: any, also one to come.
Befores == 1..MaxClock + 1

VARIABLES
  clock,      \* the database's NOW(), from 1
  status,     \* [Ids -> ...] "none", "inserting", "live" or "archived"
  at,         \* [Ids -> Times] created_at, 0 before the insert starts
  holds,      \* [Ids -> SUBSET Events] the events found in a row's payload
  pc,         \* [Compactions -> ...] the statement a compaction is at
  before,     \* [Compactions -> time] the request's parameter, 0 before it
  cursor,     \* [Devices -> Times] created_at of the last row pulled, 0 if none
  seen,       \* [Devices -> SUBSET Events] the events the device has
  unkept,     \* history: events in rows that ArchiveEvents archived, or that a
              \* compaction archived without holding them
  behind      \* history: [Devices -> SUBSET Ids] rows that committed behind the
              \* cursor, or tied with the last row of a page

rowVars    == <<status, at, holds>>
deviceVars == <<cursor, seen>>
vars == <<clock, status, at, holds, pc, before, cursor, seen, unkept, behind>>

TypeOK ==
  /\ clock \in 1..MaxClock
  /\ status \in [Ids -> {"none", "inserting", "live", "archived"}]
  /\ at \in [Ids -> Times]
  /\ holds \in [Ids -> SUBSET Events]
  /\ pc \in [Compactions -> {"select", "insert", "commit", "archive", "done"}]
  /\ before \in [Compactions -> Befores \cup {0}]
  /\ cursor \in [Devices -> Times]
  /\ seen \in [Devices -> SUBSET Events]
  /\ unkept \in SUBSET Events
  /\ behind \in [Devices -> SUBSET Ids]

Init ==
  /\ clock = 1
  /\ status = [i \in Ids |-> "none"]
  /\ at = [i \in Ids |-> 0]
  /\ holds = [i \in Ids |-> IF i \in Events THEN {i} ELSE {}]
  /\ pc = [k \in Compactions |-> "select"]
  /\ before = [k \in Compactions |-> 0]
  /\ cursor = [d \in Devices |-> 0]
  /\ seen = [d \in Devices |-> {}]
  /\ unkept = {}
  /\ behind = [d \in Devices |-> {}]

-----------------------------------------------------------------------------
(* The rows.                                                               *)

Live == {i \in Ids : status[i] = "live"}

PageUnordered(S, n) == {P \in SUBSET S : Cardinality(P) <= n}

\* What ORDER BY created_at LIMIT n can return of the rows S: the n oldest, in
\* any order and any choice among equals, or fewer when the read breaks off, for
\* rows.Err is not read.
Page(S, n) ==
  {P \in SUBSET S : Cardinality(P) <= n /\ \A p \in P, q \in S \ P : at[p] <= at[q]}

EventsOf(S) == UNION {holds[i] : i \in S}

Tick ==
  /\ clock < MaxClock
  /\ clock' = clock + 1
  /\ UNCHANGED <<rowVars, pc, before, deviceVars, unkept, behind>>

\* An INSERT takes its created_at ...
StartInsert(i) ==
  /\ status[i] = "none"
  /\ status' = [status EXCEPT ![i] = "inserting"]
  /\ at' = [at EXCEPT ![i] = clock]

\* ... and becomes visible later, maybe behind the cursor of a device.
CommitInsert(i) ==
  /\ status[i] = "inserting"
  /\ status' = [status EXCEPT ![i] = "live"]
  /\ behind' = [d \in Devices |->
                  IF cursor[d] >= at[i] THEN behind[d] \cup {i} ELSE behind[d]]

Archive(S) == status' = [i \in Ids |-> IF i \in S THEN "archived" ELSE status[i]]

-----------------------------------------------------------------------------
(* AppendEvents: the insert of one event.                                  *)

StartAppend(e) ==
  /\ StartInsert(e)
  /\ UNCHANGED <<clock, holds, pc, before, deviceVars, unkept, behind>>

CommitAppend(e) ==
  /\ CommitInsert(e)
  /\ UNCHANGED <<clock, at, holds, pc, before, deviceVars, unkept>>

-----------------------------------------------------------------------------
(* Events: one page of the live rows after the device's cursor.            *)

NewerSkippingATick(d) == {i \in Live : at[i] > cursor[d] + 1}

Newer(d) == {i \in Live : at[i] > cursor[d]}

LatestOf(P, t) == t \in {at[i] : i \in P} /\ \A i \in P : at[i] <= t

\* The device keeps the events of the page, and the last row's created_at is
\* its next cursor.
Pull(d) ==
  \E P \in Page(Newer(d), PageSize) :
    /\ \E t \in Times :
         /\ IF P = {} THEN t = cursor[d] ELSE LatestOf(P, t)
         /\ cursor' = [cursor EXCEPT ![d] = t]
         /\ behind' = [behind EXCEPT ![d] = @ \cup {i \in Newer(d) \ P : at[i] = t}]
    /\ seen' = [seen EXCEPT ![d] = @ \cup EventsOf(P)]
    /\ UNCHANGED <<clock, rowVars, pc, before, unkept>>

-----------------------------------------------------------------------------
(* ReplayEvents: one page of all rows, archived or not, from a time on.    *)

Stored == {i \in Ids : status[i] \in {"live", "archived"}}

ReplayableLive(f) == {i \in Live : at[i] >= f}

Replayable(f) == {i \in Stored : at[i] >= f}

Replay(d, f) ==
  \E P \in Page(Replayable(f), ReplayLimit) :
    /\ seen' = [seen EXCEPT ![d] = @ \cup EventsOf(P)]
    /\ UNCHANGED <<clock, rowVars, pc, before, cursor, unkept, behind>>

-----------------------------------------------------------------------------
(* ArchiveEvents: one UPDATE.                                              *)

LiveBefore(b) == {i \in Live : at[i] < b}

ArchiveEvents(b) ==
  /\ Archive(LiveBefore(b))
  /\ unkept' = unkept \cup EventsOf(LiveBefore(b))
  /\ UNCHANGED <<clock, at, holds, pc, before, deviceVars, behind>>

-----------------------------------------------------------------------------
(* CompactEvents: a SELECT, an INSERT and an UPDATE, without a transaction.*)

\* The SELECT of the rows before the time asked for, which may be one to come;
\* nothing to compact ends the request.
SelectRows(k, b) ==
  /\ pc[k] = "select"
  /\ before' = [before EXCEPT ![k] = b]
  /\ \E P \in Page(LiveBefore(b), CompactLimit) :
       /\ holds' = [holds EXCEPT ![k] = EventsOf(P)]
       /\ pc' = [pc EXCEPT ![k] = IF P = {} THEN "done" ELSE "insert"]
  /\ UNCHANGED <<clock, status, at, deviceVars, unkept, behind>>

StartCompactionRow(k) ==
  /\ pc[k] = "insert"
  /\ StartInsert(k)
  /\ pc' = [pc EXCEPT ![k] = "commit"]
  /\ UNCHANGED <<clock, holds, before, deviceVars, unkept, behind>>

CommitCompactionRow(k) ==
  /\ pc[k] = "commit"
  /\ CommitInsert(k)
  /\ pc' = [pc EXCEPT ![k] = "archive"]
  /\ UNCHANGED <<clock, at, holds, before, deviceVars, unkept>>

ReplacedByWithoutBefore(k) == Live \ {k}

\* What the UPDATE archives: every live row before the time, not only those
\* the SELECT returned, except the compaction's own row.
ReplacedBy(k) == LiveBefore(before[k]) \ {k}

ArchiveCompacted(k) ==
  /\ pc[k] = "archive"
  /\ Archive(ReplacedBy(k))
  /\ unkept' = unkept \cup (EventsOf(ReplacedBy(k)) \ holds[k])
  /\ pc' = [pc EXCEPT ![k] = "done"]
  /\ UNCHANGED <<clock, at, holds, before, deviceVars, behind>>

\* A statement fails or the server stops between two statements.
CompactionStops(k) ==
  /\ pc[k] \in {"insert", "commit", "archive"}
  /\ pc' = [pc EXCEPT ![k] = "done"]
  /\ status' = [status EXCEPT ![k] = IF @ = "inserting" THEN "none" ELSE @]
  /\ UNCHANGED <<clock, at, holds, before, deviceVars, unkept, behind>>

-----------------------------------------------------------------------------
Next ==
  \/ Tick
  \/ \E e \in Events : StartAppend(e) \/ CommitAppend(e)
  \/ \E d \in Devices : Pull(d) \/ \E t \in Times : Replay(d, t)
  \/ \E b \in Befores : ArchiveEvents(b)
  \/ \E k \in Compactions :
       \/ \E b \in Befores : SelectRows(k, b)
       \/ StartCompactionRow(k)
       \/ CommitCompactionRow(k)
       \/ ArchiveCompacted(k)
       \/ CompactionStops(k)

Spec == Init /\ [][Next]_vars

\* Statements end, and devices go on polling.
Fairness ==
  /\ \A e \in Events : WF_vars(CommitAppend(e))
  /\ \A k \in Compactions : WF_vars(CommitCompactionRow(k))
  /\ \A d \in Devices : WF_vars(Pull(d))

FairSpec == Spec /\ Fairness

-----------------------------------------------------------------------------
(* Properties.                                                             *)

Committed == {e \in Events : status[e] \in {"live", "archived"}}

\* A compaction asked for a time that had not come when its row was made, so
\* that another one like it takes its row for a row to archive.
Premature(k) == at[k] < before[k]

\* The events of two compactions that were both archived, one of them premature:
\* each may have archived the other's row in the belief to hold its events.
CrossedOut ==
  {e \in Events : \E j, k \in Compactions :
     /\ j # k /\ status[j] = "archived" /\ status[k] = "archived"
     /\ e \in holds[j] \cap holds[k]
     /\ Premature(k)}

\* No compaction, alone, overlapping others or cut short by a failure, takes an
\* event out of the live view: each is in a live row or in a live compaction.
\* There are three exceptions: ArchiveEvents was asked to archive it; a
\* compaction archived a row that its SELECT had not returned (beyond the limit,
\* after the read broke off, or not yet visible); or two compactions, one of
\* them for a time to come, archived each other's row.
CompactionKeepsEvents == Committed \subseteq EventsOf(Live) \cup unkept \cup CrossedOut

\* A live row at or behind a device's cursor whose events the device lacks is
\* one that committed after the cursor had passed its created_at, or that tied
\* with the last row of a page that was full or broke off: paging misses
\* nothing else.
GapsAreLateOrTied ==
  \A d \in Devices : \A i \in Live :
    at[i] <= cursor[d] =>
      holds[i] \subseteq seen[d] \/ i \in behind[d]

Missable(d, e) == \E i \in behind[d] : e \in holds[i]

\* A device that goes on polling has again and again all events there are, as
\* such or in a compaction, except those archived on request, unread or by
\* compactions that archive each other, and those it can miss because a row came
\* late or tied.
Delivered ==
  \A d \in Devices :
    []<>(\A e \in Committed : e \in seen[d] \cup unkept \cup CrossedOut \/ Missable(d, e))

\* What archiving, late commits and ties hide from polling, replaying brings
\* back: a device that replays from the beginning has again and again all events,
\* unless there are more rows than one answer holds.
ReplayRecovers ==
  \A d \in Devices :
    WF_vars(Replay(d, 0)) =>
      []<>(Committed \subseteq seen[d] \/ Cardinality(Stored) > ReplayLimit)
=============================================================================
