--------------------------- MODULE MergedProgress ---------------------------
(***************************************************************************)
(* The devices of one user sharing a progress document through GetProgress,*)
(* PutProgress and the three-way merge (internal/sync).  Progress has the  *)
(* statements of PutProgress apart and takes a document for a set of edits;*)
(* here a request is one step and the document is one the merge takes      *)
(* apart: a counter, a note with a timestamp, and an array of items, each  *)
(* with a counter and maybe the tombstone the Merge handler speaks of.     *)
(*                                                                         *)
(* The row exists and every device has read it, so that nobody sends the   *)
(* baseVersion 0.  No device removes a field: the merge would bring it back.*)
(*                                                                         *)
(* A definition named after another with a reason added is what a slip in  *)
(* the code would make of it; no specification uses it.                    *)
(***************************************************************************)
EXTENDS ProgressRow, Merge, FiniteSets, Functions

CONSTANTS Items,      \* ids of items the devices can add
          Old,        \* id of the item that was there from the beginning
          MaxChanges  \* bound on the changes the devices make

ASSUME MergedProgressAssumption ==
  /\ IsFiniteSet(Devices)
  /\ Old \notin Items
  /\ MaxChanges \in Nat /\ MaxFaults \in Nat

VARIABLES
  base,     \* [Devices -> document] the document of that version
  counted,  \* history: how often "count" was increased
  scored,   \* history: how often the score of the old item was increased
  added,    \* history: items added by some device
  deleted,  \* history: items with a tombstone on some device
  alike,    \* history: a merge met a counter both sides had changed alike
  changes   \* changes so far, also the devices' clock

copies  == <<known, base, local>>
history == <<counted, scored, added, deleted, alike>>
mergedVars == <<version, payload, known, base, local, counted, scored, added, deleted,
          alike, changes, faults>>

Item(i)      == Obj([id |-> Num(i), score |-> Num(0)])
ItemsOf(doc) == doc.obj.items.arr
IdOf(v)      == v.obj.id.num
Ids(doc)     == {IdOf(v) : v \in ToSet(ItemsOf(doc))}
Find(doc, i) == CHOOSE v \in ToSet(ItemsOf(doc)) : IdOf(v) = i
IsDead(v)    == "deletedAt" \in DOMAIN v.obj
Dead(doc)    == {i \in Ids(doc) : IsDead(Find(doc, i))}

CountOf(doc) == doc.obj.count.num
ScoreOf(doc) == Find(doc, Old).obj.score.num
NoteOf(doc)  == doc.obj.note.num

First == Obj([count |-> Num(1), note |-> Num(0), items |-> Arr(<<Item(Old)>>)])

IsItem(x) ==
  /\ IsObj(x) /\ {"id", "score"} \subseteq DOMAIN x.obj
  /\ x.obj.id \in [num : Items \cup {Old}] /\ x.obj.score \in [num : Int]

\* A list of items with none twice.
AreItems(s) ==
  /\ s \in Seq(ToSet(s))
  /\ \A n \in DOMAIN s : IsItem(s[n])
  /\ \A m, n \in DOMAIN s : IdOf(s[m]) = IdOf(s[n]) => m = n

\* A document of the shape the devices give it.
IsDocument(doc) ==
  /\ IsObj(doc) /\ DOMAIN doc.obj = {"count", "note", "items"}
  /\ doc.obj.count \in [num : Int] /\ doc.obj.note \in [num : Int]
  /\ IsArr(doc.obj.items) /\ AreItems(ItemsOf(doc)) /\ Old \in Ids(doc)

DocumentsOK ==
  /\ version \in Nat \ {0} /\ IsDocument(payload)
  /\ known \in [Devices -> 1..version]
  /\ DOMAIN base = Devices /\ DOMAIN local = Devices
  /\ \A d \in Devices : IsDocument(base[d]) /\ IsDocument(local[d])
  /\ counted \in 0..changes /\ scored \in 0..changes
  /\ added \in SUBSET Items /\ deleted \in SUBSET (Items \cup {Old})
  /\ alike \in BOOLEAN
  /\ changes \in 0..MaxChanges /\ faults \in 0..MaxFaults

MergedInit ==
  /\ version = 1 /\ payload = First
  /\ known = [d \in Devices |-> 1]
  /\ base = [d \in Devices |-> First]
  /\ local = [d \in Devices |-> First]
  /\ counted = 0 /\ scored = 0 /\ added = {} /\ deleted = {} /\ alike = FALSE
  /\ changes = 0 /\ faults = 0

-----------------------------------------------------------------------------
(* What a device does to its own document (not part of the repository).    *)

Change(d, k, v) ==
  /\ changes < MaxChanges
  /\ changes' = changes + 1
  /\ local' = [local EXCEPT ![d].obj[k] = v]
  /\ UNCHANGED <<row, known, base, alike, faults>>

ChangeItem(d, i, k, v) ==
  Change(d, "items",
         Arr([n \in DOMAIN ItemsOf(local[d]) |->
                LET x == ItemsOf(local[d])[n] IN
                  IF IdOf(x) = i
                    THEN Obj([f \in DOMAIN x.obj \cup {k} |-> IF f = k THEN v ELSE x.obj[f]])
                    ELSE x]))

Count(d) ==
  /\ Change(d, "count", Num(CountOf(local[d]) + 1))
  /\ counted' = counted + 1
  /\ UNCHANGED <<scored, added, deleted>>

Score(d) ==
  /\ ChangeItem(d, Old, "score", Num(ScoreOf(local[d]) + 1))
  /\ scored' = scored + 1
  /\ UNCHANGED <<counted, added, deleted>>

\* A note is told from another by the time it was written.
WriteNote(d) ==
  /\ Change(d, "note", Num(changes + 1))
  /\ UNCHANGED <<counted, scored, added, deleted>>

Add(d, i) ==
  /\ i \notin Ids(local[d])
  /\ Change(d, "items", Arr(Append(ItemsOf(local[d]), Item(i))))
  /\ added' = added \cup {i}
  /\ UNCHANGED <<counted, scored, deleted>>

Delete(d, i) ==
  /\ i \in Ids(local[d]) \ Dead(local[d])
  /\ ChangeItem(d, i, "deletedAt", Num(changes + 1))
  /\ deleted' = deleted \cup {i}
  /\ UNCHANGED <<counted, scored, added>>

-----------------------------------------------------------------------------
(* The requests.                                                           *)

RewriteKeepingVersion(d) ==
  /\ local[d] # base[d] /\ known[d] = version
  /\ payload' = local[d]
  /\ UNCHANGED version

\* PutProgress with the current version: the row is written, ...
Rewrite(d) ==
  /\ local[d] # base[d] /\ known[d] = version
  /\ version' = version + 1
  /\ payload' = local[d]

\* ... and the device hears of it, ...
Store(d) ==
  /\ Rewrite(d)
  /\ known' = [known EXCEPT ![d] = version']
  /\ base' = [base EXCEPT ![d] = local[d]]
  /\ UNCHANGED <<local, history, changes, faults>>

\* ... or does not.
StoreUnheard(d) ==
  /\ Rewrite(d)
  /\ faults < MaxFaults /\ faults' = faults + 1
  /\ UNCHANGED <<copies, history, changes>>

Timestamps(doc) == [k \in {"note"} |-> NoteOf(doc)]

Merged(d) ==
  MergeDocuments(base[d], local[d], payload, Timestamps(local[d]), Timestamps(payload))

Both(d, f(_)) == f(local[d]) = f(payload) /\ f(local[d]) # f(base[d])

\* GetProgress, or PutProgress refusing an old version, gives the device the
\* row, and Merge its new document.
MergeIn(d) ==
  /\ known[d] # version
  /\ local' = [local EXCEPT ![d] = Merged(d)]
  /\ base' = [base EXCEPT ![d] = payload]
  /\ known' = [known EXCEPT ![d] = version]
  /\ alike' = (alike \/ Both(d, CountOf) \/ Both(d, ScoreOf))
  /\ UNCHANGED <<row, counted, scored, added, deleted, changes, faults>>

-----------------------------------------------------------------------------
MergedNext ==
  \E d \in Devices :
    \/ Count(d) \/ Score(d) \/ WriteNote(d)
    \/ \E i \in Items : Add(d, i)
    \/ \E i \in Items \cup {Old} : Delete(d, i)
    \/ Store(d) \/ StoreUnheard(d) \/ MergeIn(d)

MergedSpec == MergedInit /\ [][MergedNext]_mergedVars

\* Devices store what they changed and look for what others did.  The second
\* conjunct is WF_mergedVars(MergeIn(d)), as MergeIn can always be done when its guard
\* holds and ends with it false; TLC is slow to try it out.
MergedFairness == \A d \in Devices : WF_mergedVars(Store(d)) /\ []<>(known[d] = version)

FairMergedSpec == MergedSpec /\ MergedFairness

-----------------------------------------------------------------------------
(* Properties.                                                             *)

\* By how much a counter grew in the row, or on a device and not yet in the row.
Known(f(_)) ==
  f(payload) - f(First)
    + SumFunctionOnSet([d \in Devices |-> f(local[d]) - f(base[d])], Devices)

\* (mergeField's sum) Counters, in the document or within an item, lose no increment however
\* devices take turns, unless two had reached the same value, and gain none
\* unless an answer got lost.
IncrementsKept ==
  ~alike =>
    /\ Known(CountOf) >= counted /\ Known(ScoreOf) >= scored
    /\ faults = 0 => Known(CountOf) = counted /\ Known(ScoreOf) = scored

\* An item some device added, and a tombstone some device set, is in the row
\* or still on its way there from a device: neither merging nor a lost answer
\* drops or revives an item.
ItemsKept ==
  /\ added \subseteq Ids(payload) \cup UNION {Ids(local[d]) \ Ids(base[d]) : d \in Devices}
  /\ deleted \subseteq Dead(payload) \cup UNION {Dead(local[d]) \ Dead(base[d]) : d \in Devices}

\* The later note wins: the row never goes back to an earlier one.
NotesGoForward == [][NoteOf(payload') >= NoteOf(payload)]_payload

\* When the changes are over all devices come to hold the same document.
DevicesAgree == <>[](\A d \in Devices : local[d] = payload)

-----------------------------------------------------------------------------
(* What makes these inductive.                                             *)

\* One document has nothing that the other is without, and counts no further.
Extends(old, new) ==
  /\ NoteOf(old) <= NoteOf(new)
  /\ CountOf(old) <= CountOf(new) /\ ScoreOf(old) <= ScoreOf(new)
  /\ Ids(old) \subseteq Ids(new) /\ Dead(old) \subseteq Dead(new)

\* A device that knows the version of the row knows the row; nobody takes
\* anything back from what was in common, and no note is of the future.
MergedInv ==
  /\ NoteOf(payload) <= changes
  /\ \A d \in Devices :
       /\ known[d] = version => base[d] = payload
       /\ Extends(base[d], local[d])
       /\ NoteOf(local[d]) <= changes
=============================================================================
