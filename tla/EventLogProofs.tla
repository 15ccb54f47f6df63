--------------------------- MODULE EventLogProofs ---------------------------
(***************************************************************************)
(* Proofs about EventLog, for any events, devices, compactions and limits: *)
(* compactions keep the events in view, but for those that they archive    *)
(* unread or that premature compactions take from each other, and paging   *)
(* misses only late or tied rows.                                          *)
(*                                                                         *)
(* The argument for compactions: a compaction that is about to archive has *)
(* its row live, or another compaction has archived it.  That one either   *)
(* put its own row, dated after the time it was asked for and so out of    *)
(* reach, in its place, or one of the two is premature.                    *)
(***************************************************************************)
EXTENDS EventLog, TLAPS

\* A row an event was inserted in holds that event.
OwnRows == \A e \in Events : holds[e] = {e}

\* A compaction's row exists from its insert on.
CompactionStages ==
  \A k \in Compactions :
    /\ pc[k] \in {"select", "insert"} => status[k] = "none"
    /\ pc[k] = "commit" => status[k] = "inserting"
    /\ pc[k] = "archive" => status[k] \in {"live", "archived"}

\* An event is noted as archived unread, in a live row out of the reach of
\* compaction k, or in another compaction's row while one of the two is premature.
Kept(k, e) ==
  \/ e \in unkept
  \/ \E i \in Live : e \in holds[i] /\ at[i] >= before[k]
  \/ \E j \in Compactions \ {k} :
       j \in Stored /\ e \in holds[j] /\ (Premature(j) \/ Premature(k))

\* A compaction whose row was archived before its own UPDATE can rely on that.
Gathered ==
  \A k \in Compactions :
    pc[k] = "archive" /\ status[k] = "archived" => \A e \in holds[k] : Kept(k, e)

IInv ==
  /\ TypeOK /\ OwnRows /\ CompactionStages /\ Gathered
  /\ CompactionKeepsEvents /\ GapsAreLateOrTied

-----------------------------------------------------------------------------

\* Initially nothing is stored or pulled.
LEMMA InitInvariant == Init => IInv
<1> SUFFICES ASSUME Init PROVE IInv
  OBVIOUS
<1> USE EventLogAssumption
<1>1. TypeOK
  BY DEF Init, TypeOK, Ids, Times, Befores
<1>2. OwnRows /\ CompactionStages /\ Gathered
  BY DEF Init, OwnRows, CompactionStages, Gathered, Ids, Live
<1>3. CompactionKeepsEvents
  BY DEF Init, CompactionKeepsEvents, Committed, Ids
<1>4. GapsAreLateOrTied
  BY DEF Init, GapsAreLateOrTied, Live, Ids
<1>5. QED BY <1>1, <1>2, <1>3, <1>4 DEF IInv

-----------------------------------------------------------------------------
(* The inductive step, one lemma for the actions that leave rows alone, one *)
(* for inserts and one for archiving.                                      *)

\* Pages are made of the rows they are taken from.
LEMMA PageOf ==
  ASSUME NEW S \in SUBSET Ids, NEW n, NEW P \in Page(S, n)
  PROVE  P \subseteq S /\ \A p \in P, q \in S \ P : at[p] <= at[q]
BY DEF Page

\* What is archived once stays so, and so do the rows of two compactions that
\* were archived.
LEMMA CrossedStays ==
  ASSUME \A k \in Compactions : status[k] = "archived" =>
           /\ status'[k] = "archived" /\ holds'[k] = holds[k]
           /\ at'[k] = at[k] /\ before'[k] = before[k]
  PROVE  CrossedOut \subseteq CrossedOut'
BY DEF CrossedOut, Premature

\* A step that takes nothing out of view leaves events where compactions rely
\* on them.
LEMMA GatheredStays ==
  ASSUME Gathered, Live \subseteq Live', unkept \subseteq unkept',
         \A i \in Stored : holds'[i] = holds[i] /\ at'[i] = at[i],
         \A k \in Compactions : k \in Stored => k \in Stored' /\ before'[k] = before[k],
         \A k \in Compactions : pc'[k] = "archive" /\ status'[k] = "archived" =>
           pc[k] = "archive" /\ status[k] = "archived"
  PROVE  Gathered'
<1> SUFFICES ASSUME NEW k \in Compactions, pc'[k] = "archive", status'[k] = "archived",
                    NEW e \in holds'[k]
             PROVE  Kept(k, e)'
  BY DEF Gathered
<1>1. pc[k] = "archive" /\ status[k] = "archived" /\ k \in Stored
  BY DEF Stored, Ids
<1>2. e \in holds[k] /\ at'[k] = at[k] /\ before'[k] = before[k]
  BY <1>1
<1>3. Kept(k, e)
  BY <1>1, <1>2 DEF Gathered
<1>4. Live \subseteq Stored
  BY DEF Live, Stored
<1>5. CASE e \in unkept
  BY <1>5 DEF Kept
<1>6. ASSUME NEW i \in Live, e \in holds[i], at[i] >= before[k]
      PROVE  Kept(k, e)'
  <2>1. i \in Live' /\ e \in holds'[i] /\ at'[i] >= before'[k]
    BY <1>2, <1>4, <1>6
  <2> QED BY <2>1 DEF Kept
<1>7. ASSUME NEW j \in Compactions \ {k}, j \in Stored, e \in holds[j],
             Premature(j) \/ Premature(k)
      PROVE  Kept(k, e)'
  <2>1. j \in Stored' /\ e \in holds'[j] /\ (Premature(j)' \/ Premature(k)')
    BY <1>2, <1>7 DEF Premature
  <2> QED BY <2>1 DEF Kept
<1> QED BY <1>3, <1>5, <1>6, <1>7 DEF Kept

\* A step that at most lets time pass.
LEMMA ClockStep ==
  ASSUME IInv, UNCHANGED <<status, at, holds, pc, before, cursor, seen, unkept, behind>>,
         clock' \in 1..MaxClock, clock <= clock'
  PROVE  IInv'
<1>1. TypeOK'
  BY DEF IInv, TypeOK
<1>2. OwnRows' /\ Gathered'
  BY GatheredStays DEF IInv, OwnRows, Live, Stored
<1>3. CompactionKeepsEvents' /\ GapsAreLateOrTied'
  BY CrossedStays DEF IInv, CompactionKeepsEvents, Committed, EventsOf, Live, GapsAreLateOrTied
<1>4. CompactionStages'
  BY DEF IInv, CompactionStages
<1>5. QED BY <1>1, <1>2, <1>3, <1>4 DEF IInv

\* Replays.
LEMMA ReplayStep ==
  ASSUME IInv, NEW d \in Devices, NEW t \in Times, Replay(d, t)
  PROVE  IInv'
<1>1. PICK P \in Page(Replayable(t), ReplayLimit) :
        /\ seen' = [seen EXCEPT ![d] = @ \cup EventsOf(P)]
        /\ UNCHANGED <<clock, status, at, holds, pc, before, cursor, unkept, behind>>
  BY DEF Replay, rowVars
<1>2. Replayable(t) \subseteq Ids
  BY DEF Replayable, Stored
<1>3. P \subseteq Ids
  BY <1>2, PageOf
<1>4. EventsOf(P) \subseteq Events
  BY <1>3 DEF EventsOf, IInv, TypeOK
<1>5. /\ seen' \in [Devices -> SUBSET Events]
      /\ \A x \in Devices : seen[x] \subseteq seen'[x]
  BY <1>1, <1>4 DEF IInv, TypeOK
<1>6. TypeOK'
  BY <1>1, <1>5 DEF IInv, TypeOK
<1>7. OwnRows' /\ CompactionStages'
  BY <1>1 DEF IInv, OwnRows, CompactionStages
<1>8. CompactionKeepsEvents' /\ Gathered'
  BY <1>1, CrossedStays, GatheredStays
     DEF IInv, CompactionKeepsEvents, Committed, EventsOf, Live, Stored
<1>9. GapsAreLateOrTied'
  <2> SUFFICES ASSUME NEW x \in Devices, NEW i \in Live, at[i] <= cursor[x]
               PROVE  holds[i] \subseteq seen'[x] \/ i \in behind[x]
    BY <1>1 DEF GapsAreLateOrTied, Live
  <2> QED BY <1>5 DEF IInv, GapsAreLateOrTied
<1>10. QED BY <1>6, <1>7, <1>8, <1>9 DEF IInv

\* A pull gets every row up to its new cursor, but for those that tie with it.
LEMMA PullStep ==
  ASSUME IInv, NEW d \in Devices, Pull(d)
  PROVE  IInv'
<1> USE EventLogAssumption
<1>1. PICK P \in Page(Newer(d), PageSize), t \in Times :
        /\ IF P = {} THEN t = cursor[d] ELSE LatestOf(P, t)
        /\ cursor' = [cursor EXCEPT ![d] = t]
        /\ behind' = [behind EXCEPT ![d] = @ \cup {i \in Newer(d) \ P : at[i] = t}]
        /\ seen' = [seen EXCEPT ![d] = @ \cup EventsOf(P)]
  BY DEF Pull
<1>2. UNCHANGED <<clock, rowVars, pc, before, unkept>>
  BY DEF Pull
<1>3. P \subseteq Newer(d) /\ \A p \in P, q \in Newer(d) \ P : at[p] <= at[q]
  BY PageOf DEF Newer, Live
<1>4. Newer(d) \subseteq Ids
  BY DEF Newer, Live
<1>5. EventsOf(P) \subseteq Events
  BY <1>3, <1>4 DEF EventsOf, IInv, TypeOK
<1>6. TypeOK'
  BY <1>1, <1>2, <1>4, <1>5 DEF IInv, TypeOK, rowVars
<1>7. OwnRows' /\ CompactionKeepsEvents' /\ Gathered' /\ CompactionStages'
  BY <1>2, CrossedStays, GatheredStays
     DEF IInv, OwnRows, CompactionKeepsEvents, Committed, EventsOf, Live, Stored,
         CompactionStages, rowVars
<1>8. GapsAreLateOrTied'
  <2> SUFFICES ASSUME NEW x \in Devices, NEW i \in Live, at[i] <= cursor'[x]
               PROVE  holds[i] \subseteq seen'[x] \/ i \in behind'[x]
    BY <1>2 DEF GapsAreLateOrTied, Live, rowVars
  <2>1. CASE x # d \/ at[i] <= cursor[x]
    BY <1>1, <2>1 DEF IInv, GapsAreLateOrTied, TypeOK
  <2>2. CASE x = d /\ ~(at[i] <= cursor[x])
    <3>1. i \in Newer(d) /\ at[i] <= t
      BY <1>1, <2>2 DEF Newer, Live, IInv, TypeOK, Times
    <3>2. CASE i \in P
      <4>1. holds[i] \subseteq EventsOf(P)
        BY <3>2 DEF EventsOf
      <4>2. QED BY <1>1, <2>2, <4>1 DEF IInv, TypeOK
    <3>3. CASE i \notin P
      <4>1. P # {}
        BY <1>1, <2>2 DEF IInv, TypeOK
      <4>2. PICK p \in P : at[p] = t
        BY <1>1, <4>1 DEF LatestOf
      <4>3. at[i] = t
        BY <1>3, <1>4, <3>1, <3>3, <4>2 DEF IInv, TypeOK, Times
      <4>4. QED BY <1>1, <2>2, <3>1, <3>3, <4>3 DEF IInv, TypeOK
    <3>4. QED BY <3>2, <3>3
  <2>3. QED BY <2>1, <2>2
<1>9. QED BY <1>6, <1>7, <1>8 DEF IInv

-----------------------------------------------------------------------------
(* Inserts.                                                                *)

\* A row that begins to be inserted is not in view yet.
LEMMA StartInsertStep ==
  ASSUME IInv, NEW i \in Ids, StartInsert(i),
         UNCHANGED <<clock, holds, before, deviceVars, unkept, behind>>,
         \/ i \in Events /\ pc' = pc
         \/ i \in Compactions /\ pc[i] = "insert" /\ pc' = [pc EXCEPT ![i] = "commit"]
  PROVE  IInv'
<1> USE EventLogAssumption
<1>0. clock \in Times
  BY DEF IInv, TypeOK, Times
<1>1. /\ status[i] = "none" /\ status' = [status EXCEPT ![i] = "inserting"]
      /\ at' = [at EXCEPT ![i] = clock]
  BY DEF StartInsert
<1>2. status' \in [Ids -> {"none", "inserting", "live", "archived"}] /\ at' \in [Ids -> Times]
  BY <1>0, <1>1 DEF IInv, TypeOK
<1>3. pc' \in [Compactions -> {"select", "insert", "commit", "archive", "done"}]
  BY DEF IInv, TypeOK
<1>4. TypeOK'
  BY <1>2, <1>3 DEF IInv, TypeOK, deviceVars
<1>5. Live' = Live /\ Committed' = Committed /\ \A j \in Live : at'[j] = at[j]
  BY <1>1 DEF Live, Committed, IInv, TypeOK, Ids
<1>6. OwnRows'
  BY DEF IInv, OwnRows, deviceVars
<1>7. CompactionKeepsEvents'
  <2>1. CrossedOut \subseteq CrossedOut'
    BY <1>1, CrossedStays DEF IInv, TypeOK, Ids
  <2> QED BY <1>5, <2>1 DEF IInv, CompactionKeepsEvents, EventsOf
<1>8. GapsAreLateOrTied'
  BY <1>5 DEF IInv, GapsAreLateOrTied, deviceVars
<1>9. Gathered'
  <2>1. \A l \in Stored : at'[l] = at[l] /\ l \in Stored'
    BY <1>1 DEF Stored, IInv, TypeOK
  <2>2. \A k \in Compactions : pc'[k] = "archive" /\ status'[k] = "archived" =>
           pc[k] = "archive" /\ status[k] = "archived"
    BY <1>1 DEF IInv, TypeOK, Ids
  <2> QED BY <1>5, <2>1, <2>2, GatheredStays DEF IInv
<1>10. CompactionStages'
  <2> SUFFICES ASSUME NEW k \in Compactions
               PROVE  /\ pc'[k] \in {"select", "insert"} => status'[k] = "none"
                      /\ pc'[k] = "commit" => status'[k] = "inserting"
                      /\ pc'[k] = "archive" => status'[k] \in {"live", "archived"}
    BY DEF CompactionStages
  <2>1. CASE k = i
    <3>1. pc'[k] = "commit"
      BY <2>1 DEF IInv, TypeOK
    <3>2. QED BY <1>1, <1>2, <2>1, <3>1 DEF IInv, TypeOK, Ids
  <2>2. CASE k # i
    <3>1. pc'[k] = pc[k] /\ status'[k] = status[k]
      BY <1>1, <2>2 DEF IInv, TypeOK, Ids
    <3>2. QED BY <3>1 DEF IInv, CompactionStages
  <2>3. QED BY <2>1, <2>2
<1>11. QED BY <1>4, <1>6, <1>7, <1>8, <1>9, <1>10 DEF IInv

\* A row that comes into view behind a cursor is recorded as late.
LEMMA CommitInsertStep ==
  ASSUME IInv, NEW i \in Ids, CommitInsert(i),
         UNCHANGED <<clock, at, holds, before, deviceVars, unkept>>,
         \/ i \in Events /\ pc' = pc
         \/ i \in Compactions /\ pc[i] = "commit" /\ pc' = [pc EXCEPT ![i] = "archive"]
  PROVE  IInv'
<1> USE EventLogAssumption
<1>1. /\ status[i] = "inserting" /\ status' = [status EXCEPT ![i] = "live"]
      /\ behind' = [d \in Devices |->
                      IF cursor[d] >= at[i] THEN behind[d] \cup {i} ELSE behind[d]]
  BY DEF CommitInsert
<1>2. pc' \in [Compactions -> {"select", "insert", "commit", "archive", "done"}]
  BY DEF IInv, TypeOK
<1>3. TypeOK'
  BY <1>1, <1>2 DEF IInv, TypeOK, deviceVars
<1>4. Live' = Live \cup {i}
  BY <1>1 DEF Live, IInv, TypeOK
<1>5. OwnRows'
  BY DEF IInv, OwnRows, deviceVars
<1>6. CompactionKeepsEvents'
  <2> SUFFICES ASSUME NEW e \in Events, status'[e] \in {"live", "archived"}
               PROVE  e \in unkept \/ e \in CrossedOut' \/ \E j \in Live' : e \in holds[j]
    BY DEF CompactionKeepsEvents, Committed, EventsOf
  <2>0. CrossedOut \subseteq CrossedOut'
    BY <1>1, CrossedStays DEF IInv, TypeOK, Ids
  <2>1. CASE e = i
    BY <1>4, <2>1 DEF IInv, OwnRows
  <2>2. CASE e # i
    <3>1. e \in Committed
      BY <1>1, <2>2 DEF Committed, IInv, TypeOK, Ids
    <3>2. QED BY <1>4, <2>0, <3>1 DEF IInv, CompactionKeepsEvents, EventsOf
  <2>3. QED BY <2>1, <2>2
<1>7. GapsAreLateOrTied'
  <2> SUFFICES ASSUME NEW d \in Devices, NEW j \in Live', at[j] <= cursor[d]
               PROVE  holds[j] \subseteq seen[d] \/ j \in behind'[d]
    BY DEF GapsAreLateOrTied, deviceVars
  <2>1. CASE j = i
    BY <1>1, <2>1 DEF IInv, TypeOK, Times
  <2>2. CASE j # i
    BY <1>1, <1>4, <2>2 DEF IInv, GapsAreLateOrTied
  <2>3. QED BY <2>1, <2>2
<1>8. Gathered'
  <2>1. \A l \in Stored : l \in Stored'
    BY <1>1 DEF Stored, IInv, TypeOK
  <2>2. \A k \in Compactions : pc'[k] = "archive" /\ status'[k] = "archived" =>
           pc[k] = "archive" /\ status[k] = "archived"
    BY <1>1 DEF IInv, TypeOK, Ids
  <2> QED BY <1>4, <2>1, <2>2, GatheredStays DEF IInv
<1>9. CompactionStages'
  <2> SUFFICES ASSUME NEW k \in Compactions
               PROVE  /\ pc'[k] \in {"select", "insert"} => status'[k] = "none"
                      /\ pc'[k] = "commit" => status'[k] = "inserting"
                      /\ pc'[k] = "archive" => status'[k] \in {"live", "archived"}
    BY DEF CompactionStages
  <2>1. CASE k = i
    <3>1. pc'[k] = "archive" /\ status'[k] = "live"
      BY <1>1, <2>1 DEF IInv, TypeOK, Ids
    <3>2. QED BY <3>1
  <2>2. CASE k # i
    <3>1. pc'[k] = pc[k] /\ status'[k] = status[k]
      BY <1>1, <2>2 DEF IInv, TypeOK, Ids
    <3>2. QED BY <3>1 DEF IInv, CompactionStages
  <2>3. QED BY <2>1, <2>2
<1>10. QED BY <1>3, <1>5, <1>6, <1>7, <1>8, <1>9 DEF IInv

-----------------------------------------------------------------------------
(* Compactions and archiving.                                              *)

\* What a compaction selects goes into a row that is not there yet.
LEMMA SelectStep ==
  ASSUME IInv, NEW k \in Compactions, NEW b \in Befores, SelectRows(k, b)
  PROVE  IInv'
<1> USE EventLogAssumption
<1>1. PICK P \in Page(LiveBefore(b), CompactLimit) :
        /\ holds' = [holds EXCEPT ![k] = EventsOf(P)]
        /\ pc' = [pc EXCEPT ![k] = IF P = {} THEN "done" ELSE "insert"]
  BY DEF SelectRows
<1>2. /\ pc[k] = "select" /\ before' = [before EXCEPT ![k] = b]
      /\ UNCHANGED <<clock, status, at, cursor, seen, unkept, behind>>
  BY DEF SelectRows, deviceVars
<1>3. status[k] = "none"
  BY <1>2 DEF IInv, CompactionStages
<1>4. k \in Ids /\ k \notin Events
  BY DEF Ids
<1>5. EventsOf(P) \subseteq Events
  <2>1. P \subseteq Ids
    BY PageOf DEF LiveBefore, Live
  <2>2. QED BY <2>1 DEF EventsOf, IInv, TypeOK
<1>7. TypeOK'
  BY <1>1, <1>2, <1>4, <1>5 DEF IInv, TypeOK
<1>8. \A i \in Ids : i # k => holds'[i] = holds[i]
  BY <1>1 DEF IInv, TypeOK
<1>9. Live' = Live /\ k \notin Live /\ Live \subseteq Ids
  BY <1>2, <1>3 DEF Live
<1>10. OwnRows'
  BY <1>2, <1>4, <1>8 DEF IInv, OwnRows, Ids
<1>11. EventsOf(Live)' = EventsOf(Live)
  BY <1>8, <1>9 DEF EventsOf
<1>12. CompactionKeepsEvents'
  <2>1. \A j \in Compactions : status[j] = "archived" =>
           holds'[j] = holds[j] /\ before'[j] = before[j]
    BY <1>2, <1>3, <1>8 DEF IInv, TypeOK, Ids
  <2>2. CrossedOut \subseteq CrossedOut'
    BY <1>2, <2>1, CrossedStays
  <2> QED BY <1>2, <1>11, <2>2 DEF IInv, CompactionKeepsEvents, Committed
<1>13. GapsAreLateOrTied'
  BY <1>2, <1>8, <1>9 DEF IInv, GapsAreLateOrTied
<1>14. Gathered'
  <2>1. k \notin Stored /\ Stored' = Stored
    BY <1>2, <1>3 DEF Stored
  <2>2. \A i \in Stored : holds'[i] = holds[i]
    BY <1>8, <2>1 DEF Stored
  <2>3. \A j \in Compactions : j \in Stored => before'[j] = before[j]
    BY <1>2, <2>1 DEF IInv, TypeOK
  <2>4. \A j \in Compactions : pc'[j] = "archive" => pc[j] = "archive"
    BY <1>1, <1>2 DEF IInv, TypeOK
  <2> QED BY <1>2, <1>9, <2>1, <2>2, <2>3, <2>4, GatheredStays DEF IInv
<1>15. CompactionStages'
  <2> SUFFICES ASSUME NEW j \in Compactions
               PROVE  /\ pc'[j] \in {"select", "insert"} => status[j] = "none"
                      /\ pc'[j] = "commit" => status[j] = "inserting"
                      /\ pc'[j] = "archive" => status[j] \in {"live", "archived"}
    BY <1>2 DEF CompactionStages
  <2>1. CASE j = k
    BY <1>1, <1>3, <2>1 DEF IInv, TypeOK
  <2>2. CASE j # k
    BY <1>1, <2>2 DEF IInv, TypeOK, CompactionStages
  <2>3. QED BY <2>1, <2>2
<1>16. QED BY <1>7, <1>10, <1>12, <1>13, <1>14, <1>15 DEF IInv

\* Archiving a set S of live rows keeps the invariant when the events of S are
\* noted, in another live row or crossed out, and compactions can rely on that.
LEMMA ArchiveStep ==
  ASSUME IInv, NEW S \in SUBSET Live, Archive(S),
         UNCHANGED <<clock, at, holds, before, deviceVars, behind>>,
         unkept \subseteq unkept', unkept' \in SUBSET Events,
         pc' \in [Compactions -> {"select", "insert", "commit", "archive", "done"}],
         \A j \in Compactions : pc'[j] = pc[j] \/ pc'[j] = "done",
         \A i \in S : \A e \in holds[i] :
           \/ e \in unkept' \/ e \in CrossedOut'
           \/ \E l \in Live \ S : e \in holds[l],
         Gathered'
  PROVE  IInv'
<1> USE EventLogAssumption
<1>1. status' = [i \in Ids |-> IF i \in S THEN "archived" ELSE status[i]]
  BY DEF Archive
<1>2. TypeOK'
  BY <1>1 DEF IInv, TypeOK, deviceVars
<1>3. Live' = Live \ S /\ Live \subseteq Ids
  BY <1>1 DEF Live
<1>4. OwnRows'
  BY DEF IInv, OwnRows, deviceVars
<1>5. CompactionKeepsEvents'
  <2> SUFFICES ASSUME NEW e \in Events, status'[e] \in {"live", "archived"}
               PROVE  \/ e \in unkept' \/ e \in CrossedOut'
                      \/ \E j \in Live' : e \in holds[j]
    BY DEF CompactionKeepsEvents, Committed, EventsOf
  <2>0. CrossedOut \subseteq CrossedOut'
    BY <1>1, CrossedStays DEF Ids
  <2>1. status[e] \in {"live", "archived"}
    BY <1>1 DEF Live, Ids
  <2>2. e \in unkept \/ e \in CrossedOut \/ \E i \in Live : e \in holds[i]
    BY <2>1 DEF IInv, CompactionKeepsEvents, Committed, EventsOf
  <2>3. QED BY <1>3, <2>0, <2>2
<1>6. GapsAreLateOrTied'
  BY <1>3 DEF IInv, GapsAreLateOrTied, deviceVars
<1>7. CompactionStages'
  BY <1>1 DEF IInv, CompactionStages, Live, Ids
<1>8. QED BY <1>2, <1>4, <1>5, <1>6, <1>7 DEF IInv

\* What a compaction k about to archive holds: seen from another compaction m,
\* noted, in a live row that k leaves and that is k's own or dated at the time
\* k was asked for or later, or in the row of a compaction other than m, while
\* one of the two is premature.
LEMMA HeldByAnother ==
  ASSUME IInv, NEW k \in Compactions, pc[k] = "archive", NEW e \in holds[k],
         NEW m \in Compactions \ {k}
  PROVE  \/ e \in unkept
         \/ \E l \in Live : e \in holds[l] /\ at[l] >= before[k]
         \/ \E j \in Compactions \ {m} :
              j \in Stored /\ e \in holds[j] /\ (Premature(j) \/ Premature(m))
<1>1. k \in Stored
  BY DEF IInv, CompactionStages, Stored, Ids
<1>2. CASE status[k] = "live"
  <2>1. k \in Live
    BY <1>2 DEF Live, Ids
  <2>2. Premature(k) \/ at[k] >= before[k]
    BY EventLogAssumption DEF IInv, TypeOK, Premature, Times, Befores, Ids
  <2>3. QED BY <1>1, <2>1, <2>2
<1>3. CASE status[k] = "archived"
  <2>1. Kept(k, e)
    BY <1>3 DEF IInv, Gathered
  <2>2. ASSUME NEW j \in Compactions \ {k}, j \in Stored, e \in holds[j],
               Premature(j) \/ Premature(k)
        PROVE  \E q \in Compactions \ {m} :
                 q \in Stored /\ e \in holds[q] /\ (Premature(q) \/ Premature(m))
    <3>1. CASE Premature(k)
      BY <1>1, <3>1
    <3>2. CASE Premature(j) /\ j # m
      BY <2>2, <3>2
    <3>3. CASE Premature(j) /\ j = m
      BY <1>1, <3>3
    <3>4. QED BY <2>2, <3>1, <3>2, <3>3
  <2>3. QED BY <2>1, <2>2 DEF Kept
<1>4. QED BY <1>2, <1>3 DEF IInv, CompactionStages

\* The end of a compaction: the rows it archives are dated before the time it
\* was asked for, and what it relies on is not.
LEMMA ArchiveCompactedStep ==
  ASSUME IInv, NEW k \in Compactions, ArchiveCompacted(k)
  PROVE  IInv'
<1> DEFINE S == ReplacedBy(k)
<1>1. S \in SUBSET Live /\ k \notin S
  BY DEF ReplacedBy, LiveBefore
<1>2. EventsOf(S) \subseteq Events
  BY <1>1 DEF EventsOf, Live, IInv, TypeOK
<1>3. /\ pc[k] = "archive" /\ Archive(S) /\ pc' = [pc EXCEPT ![k] = "done"]
      /\ unkept' = unkept \cup (EventsOf(S) \ holds[k])
      /\ UNCHANGED <<clock, at, holds, before, deviceVars, behind>>
  BY DEF ArchiveCompacted
<1>4. /\ \A i \in Live : at[i] \in Int
      /\ \A j \in Compactions : at[j] \in Int /\ before[j] \in Int
  BY EventLogAssumption DEF IInv, TypeOK, Times, Befores, Live, Ids
<1>5. /\ \A i \in S : at[i] < before[k]
      /\ \A l \in Live : at[l] >= before[k] => l \notin S
  BY <1>4 DEF ReplacedBy, LiveBefore
<1>6. /\ Live' = Live \ S
      /\ Stored' = Stored
      /\ \A j \in Compactions : status'[j] = IF j \in S THEN "archived" ELSE status[j]
  BY <1>1, <1>3 DEF Archive, Live, Stored, Ids
<1>7. /\ pc' \in [Compactions -> {"select", "insert", "commit", "archive", "done"}]
      /\ \A j \in Compactions : pc'[j] = pc[j] \/ pc'[j] = "done"
      /\ pc'[k] = "done"
  BY <1>3 DEF IInv, TypeOK
<1>8. unkept \subseteq unkept' /\ unkept' \in SUBSET Events
  BY <1>2, <1>3 DEF IInv, TypeOK
<1>9. \A i \in S : \A e \in holds[i] : e \in unkept' \/ e \in holds[k]
  BY <1>3 DEF EventsOf
<1>10. k \in Stored /\ status[k] \in {"live", "archived"}
  BY <1>3 DEF IInv, CompactionStages, Stored, Ids
<1> HIDE DEF S
<1>11. ASSUME NEW i \in S, NEW e \in holds[i]
       PROVE  \/ e \in unkept' \/ e \in CrossedOut'
              \/ \E l \in Live \ S : e \in holds[l]
  <2>1. e \in Events
    BY <1>1 DEF Live, IInv, TypeOK
  <2>2. CASE e \notin holds[k]
    BY <1>9, <2>2
  <2>3. CASE e \in holds[k] /\ status[k] = "live"
    <3>1. k \in Live \ S
      BY <1>1, <2>3 DEF Live, Ids
    <3>2. QED BY <2>3, <3>1
  <2>4. CASE e \in holds[k] /\ status[k] = "archived"
    <3>1. Kept(k, e)
      BY <1>3, <2>4 DEF IInv, Gathered
    <3>2. ASSUME NEW j \in Compactions \ {k}, j \in Stored, e \in holds[j],
                 Premature(j) \/ Premature(k)
          PROVE  e \in CrossedOut' \/ \E l \in Live \ S : e \in holds[l]
      <4>1. CASE j \in Live \ S
        BY <3>2, <4>1
      <4>2. CASE j \notin Live \ S
        <5>1. status'[j] = "archived" /\ status'[k] = "archived"
          BY <1>1, <1>6, <2>4, <3>2, <4>2 DEF Stored, Live
        <5>2. Premature(j)' \/ Premature(k)'
          BY <1>3, <3>2 DEF Premature
        <5>3. holds' = holds
          BY <1>3
        <5>4. QED BY <2>1, <2>4, <3>2, <5>1, <5>2, <5>3 DEF CrossedOut
      <4>3. QED BY <4>1, <4>2
    <3>3. QED BY <1>5, <1>8, <3>1, <3>2 DEF Kept
  <2>5. QED BY <1>10, <2>2, <2>3, <2>4
<1>12. Gathered'
  <2> SUFFICES ASSUME NEW m \in Compactions, pc'[m] = "archive",
                      status'[m] = "archived", NEW e \in holds[m]
               PROVE  Kept(m, e)'
    BY <1>3 DEF Gathered
  <2>1. m # k /\ pc[m] = "archive"
    BY <1>7
  <2>2. UNCHANGED <<at, holds, before>>
    BY <1>3
  <2>3. ASSUME NEW j \in Compactions \ {m}, j \in Stored, e \in holds[j],
               Premature(j) \/ Premature(m)
        PROVE  Kept(m, e)'
    <3>1. Premature(j)' \/ Premature(m)'
      BY <2>2, <2>3 DEF Premature
    <3>2. QED BY <1>6, <2>2, <2>3, <3>1 DEF Kept
  <2>4. ASSUME NEW l \in Live \ S, e \in holds[l], at[l] >= before[m]
        PROVE  Kept(m, e)'
    BY <1>6, <2>2, <2>4 DEF Kept
  <2>5. ASSUME e \in unkept' PROVE Kept(m, e)'
    BY <2>5 DEF Kept
  <2>6. ASSUME e \in holds[k], before[m] <= before[k] \/ Premature(m)
        PROVE  Kept(m, e)'
    <3>1. CASE Premature(m)
      BY <1>10, <2>1, <2>3, <2>6, <3>1
    <3>2. CASE before[m] <= before[k]
      <4>1. \/ e \in unkept
            \/ \E l \in Live : e \in holds[l] /\ at[l] >= before[k]
            \/ \E j \in Compactions \ {m} :
                 j \in Stored /\ e \in holds[j] /\ (Premature(j) \/ Premature(m))
        BY <1>3, <2>1, <2>6, HeldByAnother
      <4>2. ASSUME NEW l \in Live, e \in holds[l], at[l] >= before[k]
            PROVE  Kept(m, e)'
        <5>1. l \in Live \ S /\ at[l] >= before[m]
          BY <1>4, <1>5, <3>2, <4>2
        <5>2. QED BY <2>4, <4>2, <5>1
      <4>3. QED BY <1>8, <2>3, <2>5, <4>1, <4>2
    <3>3. QED BY <2>6, <3>1, <3>2
  <2>7. CASE m \in S
    <3>1. e \in unkept' \/ e \in holds[k]
      BY <1>9, <2>7
    <3>2. before[m] <= before[k] \/ Premature(m)
      BY <1>4, <1>5, <2>7 DEF Premature
    <3>3. QED BY <2>5, <2>6, <3>1, <3>2
  <2>8. CASE m \notin S
    <3>1. Kept(m, e)
      BY <1>6, <2>1, <2>8 DEF IInv, Gathered
    <3>2. ASSUME NEW i \in Live, e \in holds[i], at[i] >= before[m]
          PROVE  Kept(m, e)'
      <4>1. CASE i \in S
        <5>1. before[m] <= before[k]
          BY <1>4, <1>5, <3>2, <4>1
        <5>2. e \in unkept' \/ e \in holds[k]
          BY <1>9, <3>2, <4>1
        <5>3. QED BY <2>5, <2>6, <5>1, <5>2
      <4>2. CASE i \notin S
        BY <2>4, <3>2, <4>2
      <4>3. QED BY <4>1, <4>2
    <3>3. QED BY <1>8, <2>3, <2>5, <3>1, <3>2 DEF Kept
  <2>9. QED BY <2>7, <2>8
<1>13. QED BY <1>1, <1>3, <1>7, <1>8, <1>11, <1>12, ArchiveStep

\* ArchiveEvents notes all it archives.
LEMMA ArchiveEventsStep ==
  ASSUME IInv, NEW b \in Int, ArchiveEvents(b)
  PROVE  IInv'
<1> DEFINE S == LiveBefore(b)
<1>1. S \in SUBSET Live
  BY DEF LiveBefore
<1>2. EventsOf(S) \subseteq Events
  BY <1>1 DEF EventsOf, Live, IInv, TypeOK
<1>3. /\ Archive(S) /\ unkept' = unkept \cup EventsOf(S) /\ pc' = pc
      /\ UNCHANGED <<clock, at, holds, before, deviceVars, behind>>
  BY DEF ArchiveEvents
<1>4. \A i \in S : \A e \in holds[i] : e \in unkept'
  BY <1>3 DEF EventsOf
<1>5. /\ pc' \in [Compactions -> {"select", "insert", "commit", "archive", "done"}]
      /\ \A j \in Compactions : pc'[j] = pc[j]
  BY <1>3 DEF IInv, TypeOK
<1>6. unkept \subseteq unkept' /\ unkept' \in SUBSET Events
  BY <1>2, <1>3 DEF IInv, TypeOK
<1>7. /\ Live' = Live \ S
      /\ Stored' = Stored
      /\ \A j \in Compactions : status'[j] = IF j \in S THEN "archived" ELSE status[j]
  BY <1>1, <1>3 DEF Archive, Live, Stored, Ids
<1> HIDE DEF S
<1>8. Gathered'
  <2> SUFFICES ASSUME NEW m \in Compactions, pc[m] = "archive",
                      status'[m] = "archived", NEW e \in holds[m]
               PROVE  Kept(m, e)'
    BY <1>3 DEF Gathered
  <2>1. UNCHANGED <<at, holds, before>>
    BY <1>3
  <2>2. CASE e \in unkept'
    BY <2>2 DEF Kept
  <2>3. CASE e \notin unkept'
    <3>1. m \notin S
      BY <1>4, <2>3
    <3>2. Kept(m, e) /\ e \notin unkept
      BY <1>6, <1>7, <2>3, <3>1 DEF IInv, Gathered
    <3>3. ASSUME NEW i \in Live, e \in holds[i], at[i] >= before[m]
          PROVE  Kept(m, e)'
      BY <1>4, <1>7, <2>1, <2>3, <3>3 DEF Kept
    <3>4. ASSUME NEW j \in Compactions \ {m}, j \in Stored, e \in holds[j],
                 Premature(j) \/ Premature(m)
          PROVE  Kept(m, e)'
      <4>1. Premature(j)' \/ Premature(m)'
        BY <2>1, <3>4 DEF Premature
      <4>2. QED BY <1>7, <2>1, <3>4, <4>1 DEF Kept
    <3>5. QED BY <3>2, <3>3, <3>4 DEF Kept
  <2>4. QED BY <2>2, <2>3
<1>9. QED BY <1>1, <1>3, <1>4, <1>5, <1>6, <1>8, ArchiveStep

\* A compaction that stops leaves a row only if it was in view already.
LEMMA StopStep ==
  ASSUME IInv, NEW k \in Compactions, CompactionStops(k)
  PROVE  IInv'
<1> USE EventLogAssumption
<1>1. /\ pc' = [pc EXCEPT ![k] = "done"]
      /\ status' = [status EXCEPT ![k] = IF @ = "inserting" THEN "none" ELSE @]
      /\ UNCHANGED <<clock, at, holds, before, cursor, seen, unkept, behind>>
  BY DEF CompactionStops, deviceVars
<1>2. k \notin Events
  OBVIOUS
<1>3. status'[k] \in {"none", "live", "archived"}
  BY <1>1 DEF IInv, TypeOK, Ids
<1>4. status' \in [Ids -> {"none", "inserting", "live", "archived"}]
  BY <1>1 DEF IInv, TypeOK, Ids
<1>5. TypeOK'
  BY <1>1, <1>4 DEF IInv, TypeOK
<1>6. Live' = Live
  BY <1>1 DEF Live, IInv, TypeOK
<1>7. Committed' = Committed
  BY <1>1, <1>2 DEF Committed, IInv, TypeOK, Ids
<1>8. \A j \in Compactions : status[j] = "archived" => status'[j] = "archived"
  BY <1>1 DEF IInv, TypeOK, Ids
<1>9. OwnRows' /\ CompactionKeepsEvents' /\ GapsAreLateOrTied'
  BY <1>1, <1>6, <1>7, <1>8, CrossedStays
     DEF IInv, OwnRows, CompactionKeepsEvents, EventsOf, GapsAreLateOrTied
<1>10. Gathered' /\ CompactionStages'
  <2>1. \A j \in Compactions :
          \/ pc'[j] = "done"
          \/ j # k /\ pc'[j] = pc[j] /\ status'[j] = status[j]
    BY <1>1 DEF IInv, TypeOK, Ids
  <2>2. \A i \in Stored : i \in Stored'
    BY <1>1 DEF Stored, IInv, TypeOK
  <2>3. Gathered'
    BY <1>1, <1>6, <2>1, <2>2, GatheredStays DEF IInv
  <2>4. CompactionStages'
    BY <2>1 DEF IInv, CompactionStages
  <2>5. QED BY <2>3, <2>4
<1>11. QED BY <1>5, <1>9, <1>10 DEF IInv

-----------------------------------------------------------------------------
(* The theorems.                                                           *)

LEMMA StepInvariant == IInv /\ [Next]_vars => IInv'
<1> SUFFICES ASSUME IInv, [Next]_vars PROVE IInv'
  OBVIOUS
<1>1. CASE UNCHANGED vars
  BY <1>1, ClockStep, EventLogAssumption DEF vars, IInv, TypeOK
<1>2. CASE Tick
  BY <1>2, ClockStep, EventLogAssumption DEF Tick, rowVars, deviceVars, IInv, TypeOK
<1>3. ASSUME NEW e \in Events, StartAppend(e) \/ CommitAppend(e)
      PROVE  IInv'
  BY <1>3, StartInsertStep, CommitInsertStep DEF StartAppend, CommitAppend, Ids
<1>4. ASSUME NEW d \in Devices, Pull(d) \/ \E t \in Times : Replay(d, t)
      PROVE  IInv'
  BY <1>4, PullStep, ReplayStep
<1>5. ASSUME NEW b \in Befores, ArchiveEvents(b)
      PROVE  IInv'
  <2>1. b \in Int
    BY EventLogAssumption DEF Befores
  <2>2. QED BY <1>5, <2>1, ArchiveEventsStep
<1>6. ASSUME NEW k \in Compactions, StartCompactionRow(k) \/ CommitCompactionRow(k)
      PROVE  IInv'
  BY <1>6, StartInsertStep, CommitInsertStep DEF StartCompactionRow, CommitCompactionRow, Ids
<1>7. ASSUME NEW k \in Compactions, \E b \in Befores : SelectRows(k, b)
      PROVE  IInv'
  BY <1>7, SelectStep
<1>8. ASSUME NEW k \in Compactions, ArchiveCompacted(k) \/ CompactionStops(k)
      PROVE  IInv'
  BY <1>8, ArchiveCompactedStep, StopStep
<1>9. QED BY <1>1, <1>2, <1>3, <1>4, <1>5, <1>6, <1>7, <1>8 DEF Next

\* The inductive invariant holds in every reachable state.
THEOREM Inductive == Spec => []IInv
BY InitInvariant, StepInvariant, PTL DEF Spec

\* The variables keep their types.
THEOREM TypeInvariance == Spec => []TypeOK
<1>1. IInv => TypeOK
  BY DEF IInv
<1>2. QED BY <1>1, Inductive, PTL

\* Whatever compactions overlap, fail or are cut short, every committed event
\* stays in a live row, except what was archived on request or unread, or what
\* two compactions, one of them premature, took from each other.
THEOREM NothingCompactedAway == Spec => []CompactionKeepsEvents
<1>1. IInv => CompactionKeepsEvents
  BY DEF IInv
<1>2. QED BY <1>1, Inductive, PTL

\* Paging by created_at misses only rows that commit late or tie at a page's end.
THEOREM PagingGaps == Spec => []GapsAreLateOrTied
<1>1. IInv => GapsAreLateOrTied
  BY DEF IInv
<1>2. QED BY <1>1, Inductive, PTL
=============================================================================
