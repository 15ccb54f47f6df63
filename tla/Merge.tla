------------------------------- MODULE Merge --------------------------------
(***************************************************************************)
(* The three-way merge of two JSON values (internal/sync/merge.go), as     *)
(* functions of values: what mergeField and mergeWithTimestamps return.    *)
(*                                                                         *)
(* A JSON value is a record whose only field says what it is: Num, Arr and *)
(* Obj make them, and Null is also what Go reads where an object has no    *)
(* such field.  The numbers stand for all scalars.                         *)
(*                                                                         *)
(* A definition named after another with a reason added is what a slip in  *)
(* the code would make of it; no specification uses it.                    *)
(***************************************************************************)
EXTENDS Integers, Sequences, SequencesExt

Null   == [null |-> TRUE]
Num(n) == [num |-> n]
Arr(s) == [arr |-> s]
Obj(f) == [obj |-> f]

IsNum(v) == "num" \in DOMAIN v
IsArr(v) == "arr" \in DOMAIN v
IsObj(v) == "obj" \in DOMAIN v

\* A field of an object; neither Null nor any other value has fields.
Field(v, k) == IF IsObj(v) /\ k \in DOMAIN v.obj THEN v.obj[k] ELSE Null

\* The fields that identify an item of an array, in order of preference.
KeyNames == <<"id", "lessonId", "questionId", "subjectId", "recordId">>
NoKey    == <<>>

\* itemKey
ItemKey(v) ==
  LET n == SelectInSeq(KeyNames, LAMBDA k : IsObj(v) /\ k \in DOMAIN v.obj)
  IN  IF n = 0 THEN NoKey ELSE <<KeyNames[n], v.obj[KeyNames[n]]>>

\* isCounter, of the names that occur here.
IsCounter(name) == name \in {"count", "seconds", "duration", "score"}

CountedTwice(b, l, r) == l + r
Counted(b, l, r) == b + (l - b) + (r - b)

\* The place of the item that an item of the other side is merged with.
PlaceOfLike(s, v) ==
  SelectLastInSeq(s, LAMBDA x : x = v)
Place(s, v) ==
  IF ItemKey(v) = NoKey
    THEN SelectInSeq(s, LAMBDA x : x = v)
    ELSE SelectLastInSeq(s, LAMBDA x : ItemKey(x) = ItemKey(v))

\* The item of the base with the same key; Null if the base is no array.
OldItem(b, v) ==
  LET n == IF IsArr(b) THEN SelectInSeq(b.arr, LAMBDA x : ItemKey(x) = ItemKey(v))
                       ELSE 0
  IN  IF n = 0 THEN Null ELSE b.arr[n]

-----------------------------------------------------------------------------
(* mergeField, level by level: of values without parts, of items, and of   *)
(* fields of a document.  Each level calls the one below where the code    *)
(* calls itself; what is nested deeper does not occur here.                *)

\* What the code asks first: what only one side changed is taken from it.
ThreeWay(b, l, r, both) ==
  IF l = r THEN l ELSE IF l = b THEN r ELSE IF r = b THEN l ELSE both

\* A counter gets both increments; otherwise local wins.
MergeValues(name, b, l, r) ==
  ThreeWay(b, l, r,
    IF IsCounter(name) /\ IsNum(b) /\ IsNum(l) /\ IsNum(r)
      THEN Num(Counted(b.num, l.num, r.num))
      ELSE l)

MergeObjectsLocally(b, l, r) ==
  Obj([k \in DOMAIN l.obj |-> MergeValues(k, Field(b, k), l.obj[k], Field(r, k))])

\* Fields of the remote side, over them those of the local side; a field that
\* only one side has deleted comes back, or is Null.
MergeObjects(b, l, r) ==
  Obj([k \in DOMAIN l.obj \cup DOMAIN r.obj |->
         IF k \in DOMAIN l.obj
           THEN MergeValues(k, Field(b, k), l.obj[k], Field(r, k))
           ELSE r.obj[k]])

MergeItems(name, b, l, r) ==
  IF IsObj(l) /\ IsObj(r)
    THEN ThreeWay(b, l, r, MergeObjects(b, l, r))
    ELSE MergeValues(name, b, l, r)

\* A local item is merged into its place among the others, or appended.
Into(name, b, out, v) ==
  LET n == Place(out, v) IN
    CASE n = 0                          -> Append(out, v)
      [] n # 0 /\ ItemKey(v) = NoKey -> out
      [] n # 0 /\ ItemKey(v) # NoKey ->
           [out EXCEPT ![n] = MergeItems(name, OldItem(b, v), v, @)]

\* The remote items, and into them each local one.
MergeArrays(name, b, l, r) ==
  LET out[n \in 0..Len(l.arr)] ==
        IF n = 0 THEN r.arr ELSE Into(name, b, out[n - 1], l.arr[n])
  IN  Arr(out[Len(l.arr)])

MergeFields(name, b, l, r) ==
  IF IsArr(l) /\ IsArr(r)
    THEN ThreeWay(b, l, r, MergeArrays(name, b, l, r))
    ELSE MergeItems(name, b, l, r)

-----------------------------------------------------------------------------
(* mergeWithTimestamps.                                                    *)

NewerNever(rt, lt) == FALSE
Newer(rt, lt) == rt > lt

TimeOf(ts, k) == IF k \in DOMAIN ts THEN ts[k] ELSE 0

\* As for an object's fields, but where both sides changed one of a document the
\* later timestamp decides for the remote side.
MergeDocuments(b, l, r, lts, rts) ==
  IF ~(IsObj(l) /\ IsObj(r))
    THEN MergeFields("", b, l, r)
    ELSE LET Remote(k) ==
               /\ l.obj[k] # Field(r, k)
               /\ l.obj[k] # Field(b, k) /\ Field(r, k) # Field(b, k)
               /\ Newer(TimeOf(rts, k), TimeOf(lts, k))
         IN  Obj([k \in DOMAIN l.obj \cup DOMAIN r.obj |->
                    CASE k \notin DOMAIN l.obj -> r.obj[k]
                      [] k \in DOMAIN l.obj /\ Remote(k) -> Field(r, k)
                      [] OTHER -> MergeFields(k, Field(b, k), l.obj[k], Field(r, k))])
=============================================================================
