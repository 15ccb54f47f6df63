--------------------------- MODULE SharedDocument ---------------------------
(***************************************************************************)
(* What the progress store promises the devices of one user, with no       *)
(* server, versions or messages in it: a document that devices write after *)
(* they merged all it holds, so that it grows.  There is one exception: a  *)
(* device that takes the document for empty hands in a draft, and a draft  *)
(* replaces the document, whatever it holds by then.                       *)
(***************************************************************************)
EXTENDS Integers

CONSTANTS Devices,  \* the devices of one user
          Edits     \* the edits the devices can make

VARIABLES doc,    \* the edits the shared document holds
          rev,    \* how many times the document was written
          made,   \* [Devices -> SUBSET Edits] what each device holds locally
          told,   \* [Devices -> SUBSET Edits] what each was told is stored
          sees,   \* [Devices -> BOOLEAN] whether the device knows of a document
          drafts  \* the copies handed in by devices that knew of none

vars == <<doc, rev, made, told, sees, drafts>>

Init ==
  /\ doc = {}
  /\ rev = 0
  /\ made = [d \in Devices |-> {}]
  /\ told = [d \in Devices |-> {}]
  /\ sees = [d \in Devices |-> FALSE]
  /\ drafts = {}

\* A device makes an edit of its own.
Make(d, e) ==
  /\ made' = [made EXCEPT ![d] = @ \cup {e}]
  /\ UNCHANGED <<doc, rev, told, sees, drafts>>

\* A device that knows of no document hands in its copy as one.
Draft(d) ==
  /\ ~sees[d]
  /\ drafts' = drafts \cup {made[d]}
  /\ UNCHANGED <<doc, rev, made, told, sees>>

\* A draft is not taken.
Withdraw(S) ==
  /\ drafts' = drafts \ {S}
  /\ UNCHANGED <<doc, rev, made, told, sees>>

\* A device learns that the document holds the edits S, and takes them over.
Learn(d, S) ==
  /\ told' = [told EXCEPT ![d] = @ \cup S]
  /\ made' = [made EXCEPT ![d] = @ \cup S]
  /\ sees' = [sees EXCEPT ![d] = rev' # 0]

\* One device may learn at once of what was written.
LearnAtOnce ==
  \/ UNCHANGED <<made, told, sees>>
  \/ \E d \in Devices : Learn(d, doc')

\* The document is written once more: it keeps what it had and gains only
\* edits that some device made.
Write ==
  /\ rev # 0
  /\ rev' = rev + 1
  /\ doc \subseteq doc'
  /\ doc' \subseteq doc \cup UNION {made[d] : d \in Devices}
  /\ LearnAtOnce
  /\ UNCHANGED drafts

\* The draft S replaces the document; somebody else's draft may be the same.
Replace(S) ==
  /\ S \in drafts
  /\ rev' = rev + 1
  /\ doc' = S
  /\ LearnAtOnce
  /\ drafts' \in {drafts, drafts \ {S}}

\* A device looks the document up.
Read(d) ==
  /\ Learn(d, doc)
  /\ UNCHANGED <<doc, rev, drafts>>

\* A device looks the document up in vain, and takes it for empty.
Misread(d) ==
  /\ sees' = [sees EXCEPT ![d] = FALSE]
  /\ UNCHANGED <<doc, rev, made, told, drafts>>

Next ==
  \/ \E d \in Devices, e \in Edits : Make(d, e)
  \/ \E d \in Devices : Draft(d) \/ Read(d) \/ Misread(d)
  \/ Write
  \/ \E S \in drafts : Replace(S) \/ Withdraw(S)

Spec == Init /\ [][Next]_vars
=============================================================================
