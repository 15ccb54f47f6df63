--------------------------- MODULE ProgressProofs ---------------------------
(***************************************************************************)
(* Proofs about Progress, for any number of devices, requests and edits:   *)
(* only a request with baseVersion 0 can take edits out of the document,   *)
(* whoever carries the current version has merged all the row holds, and   *)
(* the store implements the shared document.                               *)
(*                                                                         *)
(* Proofs about the three-way merge and MergedProgress, for any number of  *)
(* devices and items: what the merge makes of three documents, and that    *)
(* increments, items, tombstones and later notes survive every order in    *)
(* which devices change, store and merge.                                  *)
(***************************************************************************)
EXTENDS Progress, MergedProgress, FoldTheorems, SequenceTheorems, TLAPS

(***************************************************************************)
(* Types.                                                                  *)
(***************************************************************************)

\* An answer leaves the handlers' and the devices' state well typed.
LEMMA AnswerTyped ==
  ASSUME TypeOK, NEW r \in Requests, NEW v \in Nat, NEW S \in SUBSET Edits,
         Answer(r, v, S)
  PROVE  /\ pc' \in [Requests -> {"idle", "upsert", "select"}]
         /\ body' \in [Requests -> [base : Nat, edits : SUBSET Edits]]
         /\ waiting' \in [Devices -> Requests \cup {NoRequest}]
         /\ known' \in [Devices -> Nat]
         /\ local' \in [Devices -> SUBSET Edits]
         /\ stored' \in [Devices -> SUBSET Edits]
<1>1. /\ pc' \in [Requests -> {"idle", "upsert", "select"}]
      /\ body' \in [Requests -> [base : Nat, edits : SUBSET Edits]]
  BY DEF TypeOK, Answer, NoBody
<1>2. ASSUME NEW d \in Devices,
             waiting' = [waiting EXCEPT ![d] = NoRequest],
             Adopts(d, v, S)
      PROVE  /\ waiting' \in [Devices -> Requests \cup {NoRequest}]
             /\ known' \in [Devices -> Nat]
             /\ local' \in [Devices -> SUBSET Edits]
             /\ stored' \in [Devices -> SUBSET Edits]
  BY <1>2 DEF TypeOK, Adopts
<1>3. \/ \E d \in Devices : /\ waiting[d] = r
                            /\ waiting' = [waiting EXCEPT ![d] = NoRequest]
                            /\ Adopts(d, v, S)
      \/ UNCHANGED device
  BY DEF Answer
<1>4. CASE UNCHANGED device
  BY <1>1, <1>4 DEF TypeOK, device
<1> QED BY <1>1, <1>2, <1>3, <1>4

\* Every step keeps the state well typed.
LEMMA TypeStep == TypeOK /\ [Next]_vars => TypeOK'
<1> SUFFICES ASSUME TypeOK, [Next]_vars PROVE TypeOK'
  OBVIOUS
<1>1. CASE UNCHANGED vars
  BY <1>1 DEF TypeOK, vars
<1>2. ASSUME NEW d \in Devices, NEW e \in Edits, Edit(d, e) PROVE TypeOK'
  BY <1>2 DEF TypeOK, Edit, row
<1>3. ASSUME NEW d \in Devices, NEW r \in Requests, Send(d, r) PROVE TypeOK'
  BY <1>3 DEF TypeOK, Send, row
<1>4. ASSUME NEW d \in Devices, GiveUp(d) PROVE TypeOK'
  BY <1>4, ProgressAssumption DEF TypeOK, GiveUp, Fault, row
<1>5. ASSUME NEW d \in Devices, GetProgress(d) PROVE TypeOK'
  BY <1>5 DEF TypeOK, GetProgress, Adopts, CurrentVersion, CurrentPayload, row
<1>6. ASSUME NEW d \in Devices, GetProgressFails(d) PROVE TypeOK'
  BY <1>6, ProgressAssumption DEF TypeOK, GetProgressFails, Fault, Adopts, row
<1>7. ASSUME NEW r \in Requests, PutProgress(r) PROVE TypeOK'
  <2>1. /\ version + 1 \in Nat
        /\ body[r].edits \in SUBSET Edits
        /\ version' = version + 1
        /\ payload' = body[r].edits
        /\ faults' = faults
    BY <1>7 DEF TypeOK, PutProgress, Write
  <2>2. Answer(r, version + 1, body[r].edits)
    BY <1>7 DEF PutProgress
  <2> QED BY <2>1, <2>2, AnswerTyped DEF TypeOK
<1>8. ASSUME NEW r \in Requests, PutConflict(r) PROVE TypeOK'
  BY <1>8 DEF TypeOK, PutConflict, row, device
<1>9. ASSUME NEW r \in Requests, PutFails(r) PROVE TypeOK'
  <2>1. version' \in Nat /\ payload' \in SUBSET Edits
    BY <1>9 DEF TypeOK, PutFails, Write, row
  <2> QED BY <1>9, <2>1, ProgressAssumption DEF TypeOK, PutFails, Fault, device
<1>10. ASSUME NEW r \in Requests, ConflictAnswer(r) PROVE TypeOK'
  <2>1. Answer(r, version, payload) /\ UNCHANGED <<version, payload, faults>>
    BY <1>10 DEF ConflictAnswer, CurrentVersion, CurrentPayload, row
  <2>2. version \in Nat /\ payload \in SUBSET Edits
    BY DEF TypeOK
  <2> QED BY <2>1, <2>2, AnswerTyped DEF TypeOK
<1>11. ASSUME NEW r \in Requests, ConflictAnswerFails(r) PROVE TypeOK'
  <2>1. Answer(r, 0, {}) /\ UNCHANGED <<version, payload>>
    BY <1>11 DEF ConflictAnswerFails, row
  <2>2. faults' \in 0..MaxFaults
    BY <1>11, ProgressAssumption DEF TypeOK, ConflictAnswerFails, Fault
  <2>3. {} \in SUBSET Edits /\ 0 \in Nat
    OBVIOUS
  <2> QED BY <2>1, <2>2, <2>3, AnswerTyped DEF TypeOK
<1> QED
  BY <1>1, <1>2, <1>3, <1>4, <1>5, <1>6, <1>7, <1>8, <1>9, <1>10, <1>11
     DEF Next, DeviceStep, HandlerStep

\* Types: versions are naturals, payloads and copies are sets of edits.
THEOREM TypeInvariance == Spec => []TypeOK
<1>1. Init => TypeOK
  BY ProgressAssumption DEF Init, TypeOK, NoBody
<1> QED BY <1>1, TypeStep, PTL DEF Spec

(***************************************************************************)
(* The inductive invariant.                                                *)
(***************************************************************************)

\* What every statement does to the row: the version never stays while the
\* payload changes, and a new payload is the copy of some device.
RowAdvances ==
  /\ version' \in Nat /\ version <= version'
  /\ version' = version => payload' = payload
  /\ payload' \subseteq UNION {local[d] : d \in Devices}

\* A request that satisfies the condition of the upsert advances the row, and
\* carries all the row holds unless it is blind.
LEMMA WriteAdvances ==
  ASSUME IInv, NEW r \in Requests, pc[r] = "upsert",
         CanWrite(body[r].base), Write(body[r].edits)
  PROVE  /\ RowAdvances /\ version' = version + 1 /\ payload' = body[r].edits
         /\ Blind(r) \/ (version # 0 /\ payload \subseteq payload')
<1>1. version \in Nat /\ body[r].base \in Nat
  BY DEF IInv, TypeOK
<1>2. RequestSound(r) /\ RowSound
  BY DEF IInv
<1>3. Blind(r) \/ (version # 0 /\ payload \subseteq body[r].edits)
  BY <1>1, <1>2 DEF Blind, CanWrite, RequestSound
<1> QED BY <1>1, <1>2, <1>3 DEF RowAdvances, Write, RequestSound

\* Copies that only grow keep the union of the copies growing.
LEMMA CopiesGrow ==
  ASSUME \A d \in Devices : local[d] \subseteq local'[d]
  PROVE  UNION {local[d] : d \in Devices} \subseteq UNION {local'[d] : d \in Devices}
OBVIOUS

\* A device that takes over (v, S) from an advancing row is sound, and so are
\* the devices that do not notice.
LEMMA AdoptSound ==
  ASSUME IInv, TypeOK', RowAdvances, NEW v \in Nat, NEW S \in SUBSET Edits,
         v <= version', v = version' => S = payload',
         (\E d \in Devices : Adopts(d, v, S)) \/ UNCHANGED <<known, local, stored>>
  PROVE  /\ \A d \in Devices : local[d] \subseteq local'[d]
         /\ \A d \in Devices : DeviceSound(d)'
<1>1. ASSUME NEW d \in Devices, local'[d] = local[d], known'[d] = known[d],
             stored'[d] = stored[d]
      PROVE  DeviceSound(d)'
  <2>1. DeviceSound(d) /\ version \in Nat /\ known[d] \in Nat
    BY DEF IInv, TypeOK
  <2> QED BY <1>1, <2>1 DEF DeviceSound, RowAdvances
<1>2. CASE UNCHANGED <<known, local, stored>>
  BY <1>1, <1>2
<1>3. ASSUME NEW c \in Devices, Adopts(c, v, S)
      PROVE  /\ \A d \in Devices : local[d] \subseteq local'[d]
             /\ \A d \in Devices : DeviceSound(d)'
  <2>1. /\ known'[c] = v
        /\ local'[c] = local[c] \cup S
        /\ stored'[c] = stored[c] \cup S
        /\ \A d \in Devices \ {c} :
             local'[d] = local[d] /\ known'[d] = known[d] /\ stored'[d] = stored[d]
    BY <1>3 DEF IInv, TypeOK, Adopts
  <2>2. DeviceSound(c)'
    BY <2>1 DEF DeviceSound
  <2> QED BY <1>1, <2>1, <2>2
<1> QED BY <1>2, <1>3

\* Requests that are left alone stay sound when the row advances.
LEMMA RequestStaysSound ==
  ASSUME IInv, RowAdvances, NEW r \in Requests,
         \A d \in Devices : local[d] \subseteq local'[d],
         body'[r] = body[r], pc'[r] = pc[r] \/ pc'[r] # "upsert"
  PROVE  RequestSound(r)'
<1>1. RequestSound(r) /\ version \in Nat /\ body[r].base \in Nat
  BY DEF IInv, TypeOK
<1>2. body'[r].edits \subseteq UNION {local'[d] : d \in Devices}
  BY <1>1, CopiesGrow DEF RequestSound
<1>3. ASSUME pc'[r] = "upsert"
      PROVE  /\ body'[r].base <= version'
             /\ body'[r].base = version' => payload' \subseteq body'[r].edits
  BY <1>1, <1>3 DEF RequestSound, RowAdvances
<1> QED BY <1>2, <1>3 DEF RequestSound

\* An advancing row stays sound when copies only grow.
LEMMA RowStaysSound ==
  ASSUME IInv, RowAdvances, \A d \in Devices : local[d] \subseteq local'[d]
  PROVE  RowSound'
<1>1. RowSound /\ version \in Nat
  BY DEF IInv, TypeOK
<1> QED BY <1>1, CopiesGrow DEF RowSound, RowAdvances

\* The end of a handler, whatever answer about the row it gives.
LEMMA AnswerSound ==
  ASSUME IInv, TypeOK', RowAdvances, NEW r \in Requests,
         NEW v \in Nat, NEW S \in SUBSET Edits, Answer(r, v, S),
         v <= version', v = version' => S = payload'
  PROVE  IInv'
<1>1. (\E d \in Devices : Adopts(d, v, S)) \/ UNCHANGED <<known, local, stored>>
  BY DEF Answer, device
<1>2. /\ \A d \in Devices : local[d] \subseteq local'[d]
      /\ \A d \in Devices : DeviceSound(d)'
  BY <1>1, AdoptSound
<1>3. ASSUME NEW q \in Requests PROVE RequestSound(q)'
  <2>1. CASE q = r
    BY <2>1 DEF IInv, TypeOK, Answer, NoBody, RequestSound
  <2>2. CASE q # r
    <3>1. body'[q] = body[q] /\ pc'[q] = pc[q]
      BY <2>2 DEF IInv, TypeOK, Answer
    <3> QED BY <1>2, <3>1, RequestStaysSound
  <2> QED BY <2>1, <2>2
<1>4. RowSound'
  BY <1>2, RowStaysSound
<1> QED BY <1>2, <1>3, <1>4 DEF IInv

\* Every step keeps the invariant.
LEMMA IInvStep ==
  ASSUME IInv, [Next]_vars
  PROVE  IInv'
<1> TypeOK /\ TypeOK'
  BY TypeStep DEF IInv
<1> version \in Nat /\ RowSound
  BY DEF IInv, TypeOK
<1>1. ASSUME UNCHANGED row
      PROVE  RowAdvances
  BY <1>1 DEF RowAdvances, row, RowSound
<1>2. CASE UNCHANGED vars
  <2>1. UNCHANGED row /\ \A r \in Requests : body'[r] = body[r] /\ pc'[r] = pc[r]
    BY <1>2 DEF vars, row
  <2>2. UNCHANGED <<known, local, stored>>
    BY <1>2 DEF vars
  <2>3. 0 \in Nat /\ {} \in SUBSET Edits /\ (0 = version' => {} = payload')
    BY <1>1, <2>1 DEF row, RowSound
  <2>4. RowAdvances /\ 0 <= version'
    BY <1>1, <2>1 DEF RowAdvances
  <2>5. \A d \in Devices : local[d] \subseteq local'[d] /\ DeviceSound(d)'
    BY <2>2, <2>3, <2>4, AdoptSound
  <2> QED BY <2>1, <2>4, <2>5, RequestStaysSound, RowStaysSound DEF IInv
<1>3. ASSUME NEW d \in Devices, NEW e \in Edits, Edit(d, e) PROVE IInv'
  <2>1. /\ UNCHANGED <<row, pc, body, known, stored>>
        /\ \A c \in Devices : local[c] \subseteq local'[c]
    BY <1>3 DEF Edit, TypeOK
  <2>2. \A c \in Devices : DeviceSound(c)'
    BY <2>1 DEF IInv, DeviceSound, row
  <2> QED BY <1>1, <2>1, <2>2, RequestStaysSound, RowStaysSound DEF IInv
<1>4. ASSUME NEW d \in Devices, NEW r \in Requests, Send(d, r) PROVE IInv'
  <2>1. /\ UNCHANGED <<row, known, local, stored>>
        /\ body'[r] = [base |-> known[d], edits |-> local[d]]
        /\ \A q \in Requests \ {r} : body'[q] = body[q] /\ pc'[q] = pc[q]
    BY <1>4 DEF Send, TypeOK
  <2>2. DeviceSound(d) /\ known[d] \in Nat
    BY DEF IInv, TypeOK
  <2>3. RequestSound(r)'
    BY <2>1, <2>2 DEF RequestSound, DeviceSound, row
  <2>4. \A q \in Requests : RequestSound(q)'
    BY <1>1, <2>1, <2>3, RequestStaysSound
  <2>5. \A c \in Devices : DeviceSound(c)'
    BY <2>1 DEF IInv, DeviceSound, row
  <2> QED BY <1>1, <2>1, <2>4, <2>5, RowStaysSound DEF IInv
<1>5. ASSUME NEW d \in Devices, GiveUp(d) PROVE IInv'
  <2>1. UNCHANGED <<row, pc, body, known, local, stored>>
    BY <1>5 DEF GiveUp
  <2>2. \A c \in Devices : DeviceSound(c)'
    BY <2>1 DEF IInv, DeviceSound, row
  <2> QED BY <1>1, <2>1, <2>2, RequestStaysSound, RowStaysSound DEF IInv
<1>6. ASSUME NEW d \in Devices, NEW v \in Nat, NEW S \in SUBSET Edits,
             Adopts(d, v, S), UNCHANGED <<row, pc, body>>,
             v <= version, v = version => S = payload
      PROVE  IInv'
  <2>1. \A c \in Devices : local[c] \subseteq local'[c] /\ DeviceSound(c)'
    BY <1>1, <1>6, AdoptSound DEF row
  <2> QED BY <1>1, <1>6, <2>1, RequestStaysSound, RowStaysSound DEF IInv
<1>7. ASSUME NEW d \in Devices, GetProgress(d) PROVE IInv'
  <2>1. Adopts(d, version, payload) /\ UNCHANGED <<row, pc, body>>
    BY <1>7 DEF GetProgress, CurrentVersion, CurrentPayload
  <2> QED BY <1>6, <2>1 DEF TypeOK
<1>8. ASSUME NEW d \in Devices, GetProgressFails(d) PROVE IInv'
  <2>1. Adopts(d, 0, {}) /\ UNCHANGED <<row, pc, body>>
    BY <1>8 DEF GetProgressFails
  <2>2. 0 = version => {} = payload
    BY DEF RowSound
  <2>3. 0 \in Nat /\ {} \in SUBSET Edits /\ 0 <= version
    OBVIOUS
  <2> QED BY <1>6, <2>1, <2>2, <2>3
<1>9. ASSUME NEW r \in Requests, PutProgress(r) PROVE IInv'
  <2>1. /\ pc[r] = "upsert" /\ CanWrite(body[r].base) /\ Write(body[r].edits)
        /\ Answer(r, version + 1, body[r].edits)
    BY <1>9 DEF PutProgress
  <2>2. RowAdvances /\ version' = version + 1 /\ payload' = body[r].edits
    BY <2>1, WriteAdvances
  <2>3. version + 1 \in Nat /\ body[r].edits \in SUBSET Edits
    BY DEF TypeOK
  <2> QED BY <2>1, <2>2, <2>3, AnswerSound
<1>10. ASSUME NEW r \in Requests, PutConflict(r) \/ PutFails(r) PROVE IInv'
  <2>1. /\ pc[r] = "upsert"
        /\ pc' = [pc EXCEPT ![r] = "select"]
        /\ UNCHANGED <<body, known, local, stored>>
    BY <1>10 DEF PutConflict, PutFails, device
  <2>2. RowAdvances
    BY <1>1, <1>10, WriteAdvances DEF PutConflict, PutFails
  <2>3. \A q \in Requests : RequestSound(q)'
    <3>1. \A q \in Requests :
             body'[q] = body[q] /\ (pc'[q] = pc[q] \/ pc'[q] # "upsert")
      BY <2>1 DEF TypeOK
    <3> QED BY <2>1, <2>2, <3>1, RequestStaysSound
  <2>4. \A c \in Devices : DeviceSound(c)'
    <3> TAKE c \in Devices
    <3>1. DeviceSound(c) /\ known[c] \in Nat
      BY DEF IInv, TypeOK
    <3> QED BY <2>1, <2>2, <3>1 DEF DeviceSound, RowAdvances
  <2> QED BY <2>1, <2>2, <2>3, <2>4, RowStaysSound DEF IInv
<1>11. ASSUME NEW r \in Requests, ConflictAnswer(r) PROVE IInv'
  <2>1. Answer(r, version, payload) /\ UNCHANGED row
    BY <1>11 DEF ConflictAnswer, CurrentVersion, CurrentPayload
  <2> QED BY <1>1, <2>1, AnswerSound DEF row, TypeOK
<1>12. ASSUME NEW r \in Requests, ConflictAnswerFails(r) PROVE IInv'
  <2>1. Answer(r, 0, {}) /\ UNCHANGED row
    BY <1>12 DEF ConflictAnswerFails
  <2>2. 0 = version' => {} = payload'
    BY <2>1 DEF RowSound, row
  <2>3. 0 \in Nat /\ {} \in SUBSET Edits /\ 0 <= version'
    BY DEF TypeOK
  <2> QED BY <1>1, <2>1, <2>2, <2>3, AnswerSound
<1> QED
  BY <1>2, <1>3, <1>4, <1>5, <1>7, <1>8, <1>9, <1>10, <1>11, <1>12
     DEF Next, DeviceStep, HandlerStep

\* The inductive invariant: versions known or carried are of the row, and who
\* has the current one has all the row holds.
THEOREM Inductive == Spec => []IInv
<1>1. Init => IInv
  <2>1. Init => TypeOK
    BY ProgressAssumption DEF Init, TypeOK, NoBody
  <2> QED
    BY <2>1 DEF Init, IInv, RowSound, DeviceSound, RequestSound, NoBody
<1>2. IInv /\ [Next]_vars => IInv'
  BY IInvStep
<1> QED BY <1>1, <1>2, PTL DEF Spec

(***************************************************************************)
(* What follows from it.                                                   *)
(***************************************************************************)

\* Whoever carries the current version has merged everything the row holds.
THEOREM WritersHaveMerged == Spec => []WriterHasMerged
<1>1. IInv => WriterHasMerged
  BY DEF IInv, DeviceSound, RequestSound, WriterHasMerged
<1> QED BY <1>1, Inductive, PTL

\* Every step leaves the row alone or writes the copy of a request to it.
LEMMA RowSteps ==
  ASSUME [Next]_vars
  PROVE  \/ UNCHANGED row
         \/ \E r \in Requests : /\ pc[r] = "upsert"
                                /\ CanWrite(body[r].base)
                                /\ Write(body[r].edits)
<1>1. CASE UNCHANGED vars
  BY <1>1 DEF vars, row
<1>2. ASSUME NEW d \in Devices, DeviceStep(d) PROVE UNCHANGED row
  BY <1>2 DEF DeviceStep, Edit, Send, GiveUp, GetProgress, GetProgressFails
<1>3. ASSUME NEW r \in Requests, HandlerStep(r)
      PROVE  \/ UNCHANGED row
             \/ pc[r] = "upsert" /\ CanWrite(body[r].base) /\ Write(body[r].edits)
  BY <1>3 DEF HandlerStep, PutProgress, PutConflict, PutFails, ConflictAnswer,
              ConflictAnswerFails
<1> QED BY <1>1, <1>2, <1>3 DEF Next

\* Only a request with baseVersion 0 takes edits out of the document.
THEOREM OnlyTheBlindErase == Spec => OnlyBlindErases
<1> DEFINE Erased == \/ payload \subseteq payload'
                     \/ \E r \in Requests : Blind(r) /\ payload' = body[r].edits
<1>1. IInv /\ [Next]_vars => [Erased]_vars
  <2> SUFFICES ASSUME IInv, [Next]_vars PROVE Erased
    OBVIOUS
  <2>1. CASE UNCHANGED row
    BY <2>1 DEF row
  <2>2. ASSUME NEW r \in Requests, pc[r] = "upsert",
               CanWrite(body[r].base), Write(body[r].edits)
        PROVE  Erased
    BY <2>2, WriteAdvances
  <2> QED BY <2>1, <2>2, RowSteps
<1> QED BY <1>1, Inductive, PTL DEF Spec, OnlyBlindErases

(***************************************************************************)
(* The row, the retries and the lost answers implement the shared document.*)
(***************************************************************************)

\* What the document shows of the devices and of the requests.
Sees   == [d \in Devices |-> known[d] # 0]
Drafts == {body[r].edits : r \in {q \in Requests : Blind(q)}}

\* A device that takes over the row learns what the document holds.
LEMMA AdoptLearns ==
  ASSUME TypeOK, NEW d \in Devices, Adopts(d, version', payload')
  PROVE  Document!Learn(d, payload')
BY DEF TypeOK, Adopts, Document!Learn

\* A device that is told of version 0 takes the document for empty.
LEMMA AdoptsNothing ==
  ASSUME TypeOK, NEW d \in Devices, Adopts(d, 0, {})
  PROVE  UNCHANGED <<local, stored>> /\ Sees' = [Sees EXCEPT ![d] = FALSE]
<1>1. local[d] \cup {} = local[d] /\ stored[d] \cup {} = stored[d]
  OBVIOUS
<1> QED BY <1>1 DEF TypeOK, Adopts, Sees

\* An answer about the row teaches at most one device what the row holds.
LEMMA AnswerLearns ==
  ASSUME TypeOK, NEW r \in Requests, Answer(r, version', payload')
  PROVE  \/ UNCHANGED <<local, stored, Sees>>
         \/ \E d \in Devices : Document!Learn(d, payload')
<1>1. CASE UNCHANGED device
  BY <1>1 DEF device, Sees
<1> QED BY <1>1, AdoptLearns DEF Answer

\* Requests that are left alone leave the drafts alone.
LEMMA SameDrafts == UNCHANGED <<pc, body>> => Drafts' = Drafts
BY DEF Drafts, Blind

\* When the upsert of one request is over, its draft goes with it, unless
\* another request carries the same.
LEMMA DraftGoes ==
  ASSUME NEW r \in Requests, pc'[r] # "upsert",
         \A q \in Requests \ {r} : pc'[q] = pc[q] /\ body'[q] = body[q]
  PROVE  /\ ~Blind(r) => Drafts' = Drafts
         /\ Blind(r) => /\ body[r].edits \in Drafts
                        /\ Drafts' \in {Drafts, Drafts \ {body[r].edits}}
<1>1. /\ ~Blind(r)'
      /\ \A q \in Requests \ {r} : Blind(q)' = Blind(q)
  BY DEF Blind
<1>2. Drafts' = {body[q].edits : q \in {x \in Requests \ {r} : Blind(x)}}
  <2>1. Drafts' = {body'[q].edits : q \in {x \in Requests : Blind(x)'}}
    BY DEF Drafts
  <2> QED BY <1>1, <2>1
<1>3. CASE ~Blind(r)
  BY <1>2, <1>3 DEF Drafts
<1>4. CASE Blind(r)
  <2>1. body[r].edits \in Drafts
    BY <1>4 DEF Drafts
  <2>2. CASE \E q \in Requests \ {r} : Blind(q) /\ body[q].edits = body[r].edits
    <3>1. Drafts' = Drafts
      BY <1>2, <2>2 DEF Drafts
    <3> QED BY <1>4, <2>1, <3>1
  <2>3. CASE ~\E q \in Requests \ {r} : Blind(q) /\ body[q].edits = body[r].edits
    <3>1. Drafts' = Drafts \ {body[r].edits}
      BY <1>2, <2>3 DEF Drafts
    <3> QED BY <1>4, <2>1, <3>1
  <2> QED BY <2>2, <2>3
<1> QED BY <1>3, <1>4

\* Only the request that is answered is changed.
LEMMA AnswerOthers ==
  ASSUME TypeOK, NEW r \in Requests, NEW v, NEW S, Answer(r, v, S)
  PROVE  /\ pc'[r] # "upsert"
         /\ \A q \in Requests \ {r} : pc'[q] = pc[q] /\ body'[q] = body[q]
BY DEF TypeOK, Answer

\* A device that sends its copy without a version hands in a draft.
LEMMA SendImplements ==
  ASSUME TypeOK, NEW d \in Devices, NEW r \in Requests, Send(d, r)
  PROVE  Document!Next \/ UNCHANGED Document!vars
<1>1. /\ UNCHANGED <<version, payload, local, stored, known>>
      /\ pc[r] = "idle" /\ pc'[r] = "upsert"
      /\ body'[r] = [base |-> known[d], edits |-> local[d]]
      /\ \A q \in Requests \ {r} : pc'[q] = pc[q] /\ body'[q] = body[q]
  BY DEF TypeOK, Send, row
<1>2. /\ Blind(r)' <=> known[d] = 0
      /\ ~Blind(r)
      /\ \A q \in Requests \ {r} : Blind(q)' = Blind(q)
  BY <1>1 DEF Blind
<1>3. Drafts' = {body'[q].edits : q \in {x \in Requests : Blind(x)'}}
  BY DEF Drafts
<1>4. CASE known[d] = 0
  <2>1. Drafts' = Drafts \cup {local[d]}
    BY <1>1, <1>2, <1>3, <1>4 DEF Drafts
  <2>2. ~Sees[d] /\ Sees' = Sees
    BY <1>1, <1>4 DEF Sees
  <2>3. Document!Draft(d)
    BY <1>1, <2>1, <2>2 DEF Document!Draft, Drafts, Sees
  <2> QED BY <2>3 DEF Document!Next
<1>5. CASE known[d] # 0
  <2>1. Drafts' = Drafts
    BY <1>1, <1>2, <1>3, <1>5 DEF Drafts
  <2> QED BY <1>1, <2>1 DEF Document!vars, Drafts
<1> QED BY <1>4, <1>5

\* A statement that writes is a write of the document, or puts a draft in its
\* place; whoever hears of it learns what the document holds then.
LEMMA WriteImplements ==
  ASSUME IInv, NEW r \in Requests, pc[r] = "upsert",
         CanWrite(body[r].base), Write(body[r].edits),
         \/ UNCHANGED <<local, stored, Sees>>
         \/ \E d \in Devices : Document!Learn(d, payload'),
         pc'[r] # "upsert",
         \A q \in Requests \ {r} : pc'[q] = pc[q] /\ body'[q] = body[q]
  PROVE  Document!Next
<1>1. /\ RowAdvances /\ version' = version + 1 /\ payload' = body[r].edits
      /\ Blind(r) \/ (version # 0 /\ payload \subseteq payload')
  BY WriteAdvances
<1>2. Document!LearnAtOnce
  BY DEF Document!LearnAtOnce, Sees
<1>3. CASE Blind(r)
  <2>1. PICK S \in Drafts : S = body[r].edits /\ Drafts' \in {Drafts, Drafts \ {S}}
    BY <1>3, DraftGoes
  <2>2. Document!Replace(S)
    BY <1>1, <1>2, <2>1 DEF Document!Replace, Drafts
  <2>3. \E T \in Drafts : Document!Replace(T) \/ Document!Withdraw(T)
    BY <2>2
  <2> QED BY <2>3 DEF Document!Next, Drafts
<1>4. CASE ~Blind(r)
  <2>1. Drafts' = Drafts
    BY <1>4, DraftGoes
  <2>2. Document!Write
    BY <1>1, <1>2, <1>4, <2>1 DEF RowAdvances, Document!Write, Drafts
  <2> QED BY <2>2 DEF Document!Next
<1> QED BY <1>3, <1>4

\* Every step is a step of the shared document, or changes nothing it shows.
LEMMA StepImplements ==
  ASSUME IInv, [Next]_vars
  PROVE  [Document!Next]_(Document!vars)
<1> TypeOK
  BY DEF IInv
<1>1. ASSUME UNCHANGED <<version, payload, local, stored, known>>, Drafts' = Drafts
      PROVE  UNCHANGED Document!vars
  BY <1>1 DEF Document!vars, Drafts
<1>2. CASE UNCHANGED vars
  BY <1>1, <1>2, SameDrafts DEF vars
<1>3. ASSUME NEW d \in Devices, NEW e \in Edits, Edit(d, e)
      PROVE  Document!Next
  <2>1. /\ local' = [local EXCEPT ![d] = @ \cup {e}]
        /\ UNCHANGED <<version, payload, pc, body, stored, known>>
    BY <1>3 DEF Edit, row
  <2>2. Document!Make(d, e)
    BY <2>1, SameDrafts DEF Document!Make, Drafts
  <2> QED BY <2>2 DEF Document!Next
<1>4. ASSUME NEW d \in Devices, NEW r \in Requests, Send(d, r)
      PROVE  Document!Next \/ UNCHANGED Document!vars
  BY <1>4, SendImplements
<1>5. ASSUME NEW d \in Devices, GiveUp(d)
      PROVE  UNCHANGED Document!vars
  BY <1>1, <1>5, SameDrafts DEF GiveUp, row
<1>6. ASSUME NEW d \in Devices, GetProgress(d)
      PROVE  Document!Next
  <2>1. UNCHANGED <<version, payload, pc, body>> /\ Adopts(d, version', payload')
    BY <1>6 DEF GetProgress, CurrentVersion, CurrentPayload, row
  <2>2. Document!Learn(d, payload)
    BY <2>1, AdoptLearns DEF Document!Learn
  <2>3. Document!Read(d)
    BY <2>1, <2>2, SameDrafts DEF Document!Read, Drafts
  <2> QED BY <2>3 DEF Document!Next
<1>7. ASSUME NEW d \in Devices, Adopts(d, 0, {}),
             UNCHANGED <<version, payload>>, Drafts' = Drafts
      PROVE  Document!Next
  <2>1. UNCHANGED <<local, stored>> /\ Sees' = [Sees EXCEPT ![d] = FALSE]
    BY <1>7, AdoptsNothing
  <2>2. Document!Misread(d)
    BY <1>7, <2>1 DEF Document!Misread, Drafts, Sees
  <2> QED BY <2>2 DEF Document!Next
<1>8. ASSUME NEW d \in Devices, GetProgressFails(d)
      PROVE  Document!Next
  BY <1>7, <1>8, SameDrafts DEF GetProgressFails, row
<1>9. ASSUME NEW r \in Requests, PutProgress(r)
      PROVE  Document!Next
  <2>1. /\ pc[r] = "upsert" /\ CanWrite(body[r].base) /\ Write(body[r].edits)
        /\ Answer(r, version + 1, body[r].edits)
    BY <1>9 DEF PutProgress
  <2>2. Answer(r, version', payload')
    BY <2>1 DEF Write
  <2> QED BY <2>1, <2>2, AnswerLearns, AnswerOthers, WriteImplements
<1>10. ASSUME NEW r \in Requests, PutConflict(r) \/ PutFails(r)
       PROVE  Document!Next \/ UNCHANGED Document!vars
  <2>1. /\ pc[r] = "upsert" /\ UNCHANGED <<local, stored, known>>
        /\ pc'[r] # "upsert"
        /\ \A q \in Requests \ {r} : pc'[q] = pc[q] /\ body'[q] = body[q]
    BY <1>10 DEF TypeOK, PutConflict, PutFails, device
  <2>2. CASE UNCHANGED row
    <3>1. CASE Drafts' = Drafts
      BY <1>1, <2>1, <2>2, <3>1 DEF row
    <3>2. CASE Drafts' # Drafts
      <4>1. PICK S \in Drafts : Drafts' = Drafts \ {S}
        BY <2>1, <3>2, DraftGoes
      <4>2. Document!Withdraw(S)
        BY <2>1, <2>2, <4>1 DEF Document!Withdraw, Drafts, row
      <4>3. \E T \in Drafts : Document!Replace(T) \/ Document!Withdraw(T)
        BY <4>2
      <4> QED BY <4>3 DEF Document!Next, Drafts
    <3> QED BY <3>1, <3>2
  <2>3. CASE CanWrite(body[r].base) /\ Write(body[r].edits)
    BY <2>1, <2>3, WriteImplements DEF Sees
  <2> QED BY <1>10, <2>2, <2>3 DEF PutConflict, PutFails
<1>11. ASSUME NEW r \in Requests, ConflictAnswer(r) \/ ConflictAnswerFails(r)
       PROVE  Document!Next \/ UNCHANGED Document!vars
  <2>1. UNCHANGED <<version, payload>> /\ pc[r] = "select"
    BY <1>11 DEF ConflictAnswer, ConflictAnswerFails, row
  <2>2. Answer(r, version, payload) \/ Answer(r, 0, {})
    BY <1>11 DEF ConflictAnswer, ConflictAnswerFails, CurrentVersion, CurrentPayload
  <2>3. Drafts' = Drafts
    <3>1. ~Blind(r)
      BY <2>1 DEF Blind
    <3> QED BY <2>2, <3>1, AnswerOthers, DraftGoes
  <2>4. CASE UNCHANGED device
    BY <1>1, <2>1, <2>3, <2>4 DEF device
  <2>5. ASSUME NEW d \in Devices, Adopts(d, version, payload)
        PROVE  Document!Next
    <3>1. Adopts(d, version', payload')
      BY <2>1, <2>5
    <3>2. Document!Learn(d, payload)
      BY <2>1, <3>1, AdoptLearns DEF Document!Learn
    <3>3. Document!Read(d)
      BY <2>1, <2>3, <3>2 DEF Document!Read, Drafts
    <3> QED BY <3>3 DEF Document!Next
  <2>6. ASSUME NEW d \in Devices, Adopts(d, 0, {})
        PROVE  Document!Next
    BY <1>7, <2>1, <2>3, <2>6
  <2> QED BY <2>2, <2>4, <2>5, <2>6 DEF Answer
<1> QED
  BY <1>2, <1>3, <1>4, <1>5, <1>6, <1>8, <1>9, <1>10, <1>11
     DEF Next, DeviceStep, HandlerStep

\* Refinement: the progress store implements the shared document.
THEOREM Refinement == Spec => ImplementsDocument
<1>1. Init => Document!Init
  BY DEF Init, Blind, Document!Init
<1>2. IInv /\ [Next]_vars => [Document!Next]_(Document!vars)
  BY StepImplements
<1> QED BY <1>1, <1>2, Inductive, PTL DEF Spec, ImplementsDocument, Document!Spec

(***************************************************************************)
(* The merge of values, items, arrays and documents.                       *)
(***************************************************************************)

\* What the merge makes of a counter.
Increments(b, l, r) == IF l = r THEN l ELSE l + r - b

\* A merge of numbers is a number: of a counter the sum of both increments,
\* otherwise one of the two.
LEMMA ValuesMerge ==
  ASSUME NEW name, NEW b, NEW l \in [num : Int], NEW r \in [num : Int],
         b \in [num : Int] \/ b = Null
  PROVE  /\ MergeValues(name, b, l, r) \in [num : Int]
         /\ IsCounter(name) /\ b \in [num : Int] =>
              MergeValues(name, b, l, r).num = Increments(b.num, l.num, r.num)
         /\ ~IsCounter(name) => MergeValues(name, b, l, r) \in {l, r}
<1>1. CASE b = Null
  <2>1. ~IsNum(b) /\ l # b
    BY <1>1 DEF IsNum, Null
  <2>2. ~(b \in [num : Int])
    BY <2>1 DEF IsNum
  <2> QED BY <2>1, <2>2 DEF MergeValues, ThreeWay
<1>2. CASE b \in [num : Int]
  <2>1. IsNum(b) /\ IsNum(l) /\ IsNum(r)
    BY <1>2 DEF IsNum
  <2>2. \A x, y \in [num : Int] : x = y <=> x.num = y.num
    OBVIOUS
  <2>3. CASE l = r \/ l = b \/ r = b
    BY <1>2, <2>2, <2>3 DEF MergeValues, ThreeWay, Increments
  <2>4. CASE ~(l = r \/ l = b \/ r = b)
    BY <1>2, <2>1, <2>2, <2>4 DEF MergeValues, ThreeWay, Increments, Counted, Num
  <2> QED BY <2>3, <2>4
<1> QED BY <1>1, <1>2

\* An item merged with one of the same id is one again, dead if the remote one
\* is or the local side has deleted it.
LEMMA ItemsMerge ==
  ASSUME NEW name, NEW b, NEW l, NEW r, IsItem(l), IsItem(r), IdOf(l) = IdOf(r),
         b = Null \/ (IsItem(b) /\ IdOf(b) = IdOf(l)),
         NEW x, x = MergeItems(name, b, l, r)
  PROVE  /\ IsItem(x) /\ IdOf(x) = IdOf(l)
         /\ b # Null =>
              x.obj.score.num = Increments(b.obj.score.num, l.obj.score.num, r.obj.score.num)
         /\ IsDead(r) /\ (b # Null /\ IsDead(b) => IsDead(l)) => IsDead(x)
         /\ IsDead(l) /\ (b = Null \/ ~IsDead(b)) => IsDead(x)
<1>1. x = ThreeWay(b, l, r, MergeObjects(b, l, r))
  BY DEF MergeItems, IsItem
<1>2. CASE l = r
  BY <1>1, <1>2 DEF ThreeWay, Increments, IsItem
<1>3. CASE l # r /\ l = b
  <2>1. b # Null
    BY <1>3 DEF IsItem, IsObj, Null
  <2> QED BY <1>1, <1>3, <2>1 DEF ThreeWay, Increments, IsItem
<1>4. CASE l # r /\ l # b /\ r = b
  <2>1. b # Null
    BY <1>4 DEF IsItem, IsObj, Null
  <2> QED BY <1>1, <1>4, <2>1 DEF ThreeWay, Increments, IsItem
<1>5. CASE l # r /\ l # b /\ r # b
  <2>1. x = MergeObjects(b, l, r)
    BY <1>1, <1>5 DEF ThreeWay
  <2>2. /\ IsObj(x) /\ DOMAIN x.obj = DOMAIN l.obj \cup DOMAIN r.obj
        /\ \A k \in DOMAIN l.obj : x.obj[k] = MergeValues(k, Field(b, k), l.obj[k], Field(r, k))
    BY <2>1 DEF MergeObjects, Obj, IsObj
  <2>3. /\ {"id", "score"} \subseteq DOMAIN l.obj
        /\ Field(r, "id") = r.obj["id"] /\ Field(r, "score") = r.obj["score"]
        /\ l.obj["id"] \in [num : Items \cup {Old}] /\ r.obj["id"] = l.obj["id"]
        /\ l.obj["score"] \in [num : Int] /\ r.obj["score"] \in [num : Int]
    BY DEF IsItem, Field, IdOf
  <2>4. x.obj["id"] = l.obj["id"]
    BY <2>2, <2>3 DEF MergeValues, ThreeWay
  <2>5. b = Null => Field(b, "score") = Null
    BY DEF Field, IsObj, Null
  <2>6. b # Null => Field(b, "score") = b.obj["score"] /\ b.obj["score"] \in [num : Int]
    BY DEF Field, IsItem
  <2>7. /\ x.obj["score"] \in [num : Int]
        /\ b # Null =>
             x.obj["score"].num = Increments(b.obj["score"].num, l.obj["score"].num, r.obj["score"].num)
    <3>1. IsCounter("score") /\ x.obj["score"] = MergeValues("score", Field(b, "score"), l.obj["score"], r.obj["score"])
      BY <2>2, <2>3 DEF IsCounter
    <3> QED BY <2>3, <2>5, <2>6, <3>1, ValuesMerge
  <2>8. IsItem(x) /\ IdOf(x) = IdOf(l)
    BY <2>2, <2>3, <2>4, <2>7 DEF IsItem, IdOf
  <2>9. IsDead(l) \/ IsDead(r) => IsDead(x)
    BY <2>2 DEF IsDead
  <2> QED BY <2>7, <2>8, <2>9
<1> QED BY <1>2, <1>3, <1>4, <1>5

\* Items have the key of their id.
LEMMA ItemsHaveKeys ==
  ASSUME NEW v, IsItem(v)
  PROVE  ItemKey(v) = <<"id", Num(IdOf(v))>> /\ ItemKey(v) # NoKey
<1> DEFINE I == {i \in 1..Len(KeyNames) : IsObj(v) /\ KeyNames[i] \in DOMAIN v.obj}
<1>1. KeyNames[1] = "id" /\ Len(KeyNames) = 5
  BY DEF KeyNames
<1>2. 1 \in I /\ \A i \in I : 1 <= i
  BY <1>1 DEF IsItem
<1>3. Min(I) = 1
  BY <1>2 DEF Min
<1>4. ItemKey(v) = LET n == IF I # {} THEN Min(I) ELSE 0
                   IN  IF n = 0 THEN NoKey ELSE <<KeyNames[n], v.obj[KeyNames[n]]>>
  BY DEF ItemKey, SelectInSeq
<1>5. v.obj["id"] = Num(IdOf(v))
  BY DEF IsItem, IdOf, Num
<1>6. ItemKey(v) = <<KeyNames[1], v.obj[KeyNames[1]]>>
  <2>1. (IF I # {} THEN Min(I) ELSE 0) = 1
    BY <1>2, <1>3
  <2> HIDE DEF I
  <2> QED BY <1>4, <2>1
<1>7. ItemKey(v) = <<"id", Num(IdOf(v))>>
  BY <1>1, <1>5, <1>6
<1> QED BY <1>7 DEF NoKey

\* Two items have the same key when they have the same id.
LEMMA KeysAreIds ==
  ASSUME NEW v, IsItem(v), NEW x, IsItem(x)
  PROVE  ItemKey(x) = ItemKey(v) <=> IdOf(x) = IdOf(v)
<1>1. Num(IdOf(x)) = Num(IdOf(v)) <=> IdOf(x) = IdOf(v)
  BY DEF Num
<1> QED BY <1>1, ItemsHaveKeys

\* An item is merged with the one of its id, if there is one.
LEMMA PlaceOfId ==
  ASSUME NEW s, AreItems(s), NEW v, IsItem(v)
  PROVE  /\ Place(s, v) = 0 => \A n \in DOMAIN s : IdOf(s[n]) # IdOf(v)
         /\ Place(s, v) # 0 => Place(s, v) \in DOMAIN s /\ IdOf(s[Place(s, v)]) = IdOf(v)
<1> DEFINE I == {i \in 1..Len(s) : ItemKey(s[i]) = ItemKey(v)}
<1>1. Len(s) \in Nat /\ DOMAIN s = 1..Len(s)
  BY DEF AreItems
<1>2. Place(s, v) = IF I # {} THEN Max(I) ELSE 0
  BY ItemsHaveKeys DEF Place, SelectLastInSeq
<1>3. \A i \in 1..Len(s) : i \in I <=> IdOf(s[i]) = IdOf(v)
  BY <1>1, KeysAreIds DEF AreItems
<1>4. ASSUME NEW i \in I PROVE Max(I) = i
  <2>1. \A j \in I : j = i
    BY <1>1, <1>3 DEF AreItems
  <2> QED BY <2>1 DEF Max
<1>5. \A i \in I : i # 0
  BY <1>1
<1> QED BY <1>1, <1>2, <1>3, <1>4, <1>5

\* The item of the base that a merge of items is against.
LEMMA OldItemOfId ==
  ASSUME NEW b, IsArr(b), AreItems(b.arr), NEW v, IsItem(v)
  PROVE  /\ OldItem(b, v) = Null => \A n \in DOMAIN b.arr : IdOf(b.arr[n]) # IdOf(v)
         /\ OldItem(b, v) # Null => /\ \E n \in DOMAIN b.arr : OldItem(b, v) = b.arr[n]
                                    /\ IsItem(OldItem(b, v)) /\ IdOf(OldItem(b, v)) = IdOf(v)
<1> DEFINE s == b.arr
           I == {i \in 1..Len(s) : ItemKey(s[i]) = ItemKey(v)}
           n == IF I # {} THEN Min(I) ELSE 0
<1>1. Len(s) \in Nat /\ DOMAIN s = 1..Len(s)
  BY DEF AreItems
<1>2. OldItem(b, v) = IF n = 0 THEN Null ELSE s[n]
  BY DEF OldItem, SelectInSeq
<1>3. \A i \in 1..Len(s) : i \in I <=> IdOf(s[i]) = IdOf(v)
  BY <1>1, KeysAreIds DEF AreItems
<1>4. ASSUME NEW i \in I PROVE Min(I) = i
  <2>1. \A j \in I : j = i
    BY <1>1, <1>3 DEF AreItems
  <2> QED BY <2>1 DEF Min
<1>5. \A i \in I : i # 0
  BY <1>1
<1>6. \A i \in DOMAIN s : IsItem(s[i]) /\ s[i] # Null
  BY DEF AreItems, IsItem, IsObj, Null
<1>7. CASE I = {}
  <2>1. OldItem(b, v) = Null
    BY <1>2, <1>7
  <2> QED BY <1>1, <1>3, <1>7, <2>1
<1>8. ASSUME NEW i \in I
      PROVE  /\ i \in DOMAIN s /\ OldItem(b, v) = s[i] /\ OldItem(b, v) # Null
             /\ IsItem(s[i]) /\ IdOf(s[i]) = IdOf(v)
  <2>1. n = i
    BY <1>4, <1>5, <1>8
  <2>2. i \in 1..Len(s)
    BY <1>8
  <2> QED BY <1>1, <1>2, <1>3, <1>5, <1>6, <1>8, <2>1, <2>2
<1> HIDE DEF I, n
<1> QED BY <1>7, <1>8

\* A sequence is one of its own elements.
LEMMA OwnElements ==
  ASSUME NEW S, NEW s \in Seq(S)
  PROVE  s \in Seq(ToSet(s))
<1>1. Len(s) \in Nat /\ s \in [1..Len(s) -> S] /\ DOMAIN s = 1..Len(s)
  BY LenProperties
<1>2. s \in [1..Len(s) -> ToSet(s)]
  BY <1>1 DEF ToSet
<1> QED BY <1>1, <1>2, SeqDef

\* What one step of the merge of two arrays makes of the items so far: only
\* the place of the local item changes.
LEMMA IntoStep ==
  ASSUME NEW name, NEW b, IsArr(b), AreItems(b.arr), NEW s, AreItems(s),
         NEW v, IsItem(v), NEW t, t = Into(name, b, s, v)
  PROVE  /\ AreItems(t)
         /\ \A x \in ToSet(s) : IdOf(x) # IdOf(v) => x \in ToSet(t)
         /\ \A x \in ToSet(t) : IdOf(x) # IdOf(v) => x \in ToSet(s)
         /\ \A y \in ToSet(s) : IdOf(y) = IdOf(v) =>
              MergeItems(name, OldItem(b, v), v, y) \in ToSet(t)
         /\ (\A y \in ToSet(s) : IdOf(y) # IdOf(v)) => v \in ToSet(t)
<1> DEFINE n == Place(s, v)
           y == s[n]
           x == MergeItems(name, OldItem(b, v), v, y)
<1>1. /\ Len(s) \in Nat /\ DOMAIN s = 1..Len(s) /\ s \in Seq(ToSet(s))
      /\ \A m \in 1..Len(s) : IsItem(s[m]) /\ s[m] \in ToSet(s)
      /\ \A k, m \in 1..Len(s) : IdOf(s[k]) = IdOf(s[m]) => k = m
      /\ \A z \in ToSet(s) : \E m \in 1..Len(s) : z = s[m]
  BY DEF AreItems, ToSet
<1>2. CASE n = 0
  <2> DEFINE S == ToSet(s) \cup {v}
  <2>1. t = Append(s, v)
    BY <1>2 DEF Into
  <2>2. s \in Seq(S) /\ v \in S
    BY <1>1, SeqMonotonic
  <2>3. /\ t \in Seq(S) /\ Len(t) = Len(s) + 1 /\ t[Len(s) + 1] = v
        /\ \A m \in 1..Len(s) : t[m] = s[m]
    <3> HIDE DEF S
    <3> QED BY <2>1, <2>2
  <2>4. DOMAIN t = 1..Len(s) + 1
    BY <1>1, <2>3
  <2>5. \A m \in 1..Len(s) : IdOf(s[m]) # IdOf(v)
    BY <1>1, <1>2, PlaceOfId
  <2>6. AreItems(t)
    <3>1. \A m \in DOMAIN t : m \in 1..Len(s) \/ m = Len(s) + 1
      BY <1>1, <2>4
    <3>2. \A m \in DOMAIN t : IsItem(t[m])
      BY <1>1, <2>3, <3>1
    <3>3. ASSUME NEW k \in DOMAIN t, NEW m \in DOMAIN t, IdOf(t[k]) = IdOf(t[m])
          PROVE  k = m
      BY <1>1, <2>3, <2>5, <3>1, <3>3
    <3> QED BY <2>3, <3>2, <3>3, OwnElements DEF AreItems
  <2>7. ToSet(t) = ToSet(s) \cup {v}
    <3>1. \A m \in 1..Len(s) + 1 : m \in 1..Len(s) \/ m = Len(s) + 1
      BY <1>1
    <3>2. \A m \in 1..Len(s) : m \in 1..Len(s) + 1
      BY <1>1
    <3>3. Len(s) + 1 \in 1..Len(s) + 1
      BY <1>1
    <3> QED BY <1>1, <2>3, <2>4, <3>1, <3>2, <3>3 DEF ToSet
  <2>8. \A z \in ToSet(s) : IdOf(z) # IdOf(v)
    BY <1>1, <2>5
  <2> QED BY <2>6, <2>7, <2>8
<1>3. CASE n # 0
  <2>1. n \in 1..Len(s) /\ IdOf(y) = IdOf(v) /\ IsItem(y)
    BY <1>1, <1>3, PlaceOfId
  <2>2. t = [s EXCEPT ![n] = x]
    BY <1>3, ItemsHaveKeys DEF Into
  <2>3. IsItem(x) /\ IdOf(x) = IdOf(v)
    <3> HIDE DEF y, n
    <3>1. OldItem(b, v) = Null \/ (IsItem(OldItem(b, v)) /\ IdOf(OldItem(b, v)) = IdOf(v))
      BY OldItemOfId
    <3> QED BY <2>1, <3>1, ItemsMerge
  <2> HIDE DEF x, n
  <2> DEFINE S == ToSet(s) \cup {x}
  <2>4. s \in Seq(S) /\ x \in S
    BY <1>1, SeqMonotonic
  <2>5. /\ t \in Seq(S) /\ Len(t) = Len(s) /\ DOMAIN t = 1..Len(s) /\ t[n] = x
        /\ \A m \in 1..Len(s) : m # n => t[m] = s[m]
    <3> HIDE DEF S
    <3> QED BY <1>1, <2>1, <2>2, <2>4, ExceptSeq
  <2>6. \A m \in 1..Len(s) : IsItem(t[m]) /\ IdOf(t[m]) = IdOf(s[m])
    BY <1>1, <2>1, <2>3, <2>5
  <2>7. AreItems(t)
    <3>1. \A k, m \in DOMAIN t : IdOf(t[k]) = IdOf(t[m]) => k = m
      BY <1>1, <2>5, <2>6
    <3> QED BY <2>5, <2>6, <3>1, OwnElements DEF AreItems
  <2>8. \A z \in ToSet(s) : IdOf(z) = IdOf(v) => z = y
    BY <1>1, <2>1
  <2>9. \A z \in ToSet(s) : z # y => z \in ToSet(t)
    BY <1>1, <2>5 DEF ToSet
  <2>10. \A z \in ToSet(t) : z = x \/ z \in ToSet(s)
    BY <1>1, <2>5 DEF ToSet
  <2>11. x \in ToSet(t) /\ y \in ToSet(s)
    BY <1>1, <2>1, <2>5 DEF ToSet
  <2>12. \A z \in ToSet(s) : IdOf(z) = IdOf(v) => MergeItems(name, OldItem(b, v), v, z) \in ToSet(t)
    BY <2>8, <2>11 DEF x
  <2> QED BY <2>1, <2>3, <2>7, <2>8, <2>9, <2>10, <2>11, <2>12
<1> QED BY <1>2, <1>3

\* The items so far after each local item, as MergeArrays goes through them.
Stages(name, b, l, r, out) ==
  out = [n \in 0..Len(l.arr) |->
           IF n = 0 THEN r.arr ELSE Into(name, b, out[n - 1], l.arr[n])]

\* There are such stages, and the last one is the result.
LEMMA ArraysByStages ==
  ASSUME NEW name, NEW b, NEW l, NEW r, Len(l.arr) \in Nat
  PROVE  \E out : /\ Stages(name, b, l, r, out)
                  /\ MergeArrays(name, b, l, r) = Arr(out[Len(l.arr)])
<1> DEFINE Made(f, n) == f = [m \in 0..n |-> IF m = 0 THEN r.arr
                                             ELSE Into(name, b, f[m - 1], l.arr[m])]
           P == {n \in Nat : \E f : Made(f, n)}
<1>1. 0 \in P
  <2> DEFINE f == [m \in 0..0 |-> r.arr]
  <2>1. \A m \in 0..0 : m = 0
    OBVIOUS
  <2>2. Made(f, 0)
    BY <2>1
  <2> QED BY <2>2
<1>2. ASSUME NEW n \in P PROVE n + 1 \in P
  <2>1. PICK f : Made(f, n)
    OBVIOUS
  <2>2. n \in Nat /\ DOMAIN f = 0..n
    BY <2>1
  <2> DEFINE g == [m \in 0..n + 1 |-> IF m \in 0..n THEN f[m]
                                      ELSE Into(name, b, f[n], l.arr[n + 1])]
             h == [m \in 0..n + 1 |-> IF m = 0 THEN r.arr
                                      ELSE Into(name, b, g[m - 1], l.arr[m])]
  <2>3. ASSUME NEW m \in 0..n + 1 PROVE g[m] = h[m]
    <3>1. CASE m = 0
      <4>1. 0 \in 0..n /\ g[0] = f[0]
        BY <2>2
      <4>2. f[0] = r.arr
        BY <2>1, <4>1
      <4> QED BY <3>1, <4>1, <4>2
    <3>2. CASE m \in 1..n
      <4>1. m \in 0..n /\ m # 0 /\ m - 1 \in 0..n /\ m - 1 \in 0..n + 1
        BY <2>2, <3>2
      <4>2. f[m] = Into(name, b, f[m - 1], l.arr[m])
        BY <2>1, <4>1
      <4>3. g[m] = f[m] /\ g[m - 1] = f[m - 1]
        BY <4>1
      <4> QED BY <4>1, <4>2, <4>3
    <3>3. CASE m = n + 1
      <4>1. m \notin 0..n /\ m # 0 /\ m - 1 = n /\ n \in 0..n /\ n \in 0..n + 1
        BY <2>2, <3>3
      <4>2. g[m] = Into(name, b, f[n], l.arr[n + 1]) /\ g[n] = f[n]
        BY <4>1
      <4> QED BY <3>3, <4>1, <4>2
    <3> QED BY <2>2, <3>1, <3>2, <3>3
  <2>4. g = h
    BY <2>3
  <2>5. Made(g, n + 1)
    BY <2>4
  <2> HIDE DEF g
  <2> QED BY <2>2, <2>5
<1>3. P = Nat
  <2>1. P \in SUBSET Nat
    OBVIOUS
  <2> HIDE DEF P
  <2> QED BY <1>1, <1>2, <2>1, NaturalsByInduction
<1>4. \E f : Made(f, Len(l.arr))
  BY <1>3
<1> DEFINE out == CHOOSE f : Made(f, Len(l.arr))
<1>5. Made(out, Len(l.arr))
  BY <1>4
<1>6. MergeArrays(name, b, l, r) = Arr(out[Len(l.arr)])
  BY Zenon DEF MergeArrays
<1> HIDE DEF out
<1> QED BY <1>5, <1>6 DEF Stages

\* What a merged array holds of each local and each remote item.
Combines(name, b, l, r, a) ==
  /\ \A v \in ToSet(l) : (\A y \in ToSet(r) : IdOf(y) # IdOf(v)) => v \in ToSet(a)
  /\ \A v \in ToSet(l), y \in ToSet(r) : IdOf(y) = IdOf(v) =>
       MergeItems(name, OldItem(b, v), v, y) \in ToSet(a)
  /\ \A y \in ToSet(r) : (\A v \in ToSet(l) : IdOf(v) # IdOf(y)) => y \in ToSet(a)

\* The merge of two arrays is an array of items and holds that, by induction
\* over the local items.
LEMMA ArraysMerge ==
  ASSUME NEW name, NEW b, IsArr(b), AreItems(b.arr), NEW l, AreItems(l.arr),
         NEW r, AreItems(r.arr), NEW a, a = MergeArrays(name, b, l, r)
  PROVE  IsArr(a) /\ AreItems(a.arr) /\ Combines(name, b, l.arr, r.arr, a.arr)
<1> DEFINE L == l.arr
           R == r.arr
           Mix(v, y) == MergeItems(name, OldItem(b, v), v, y)
<1>1. /\ Len(L) \in Nat /\ DOMAIN L = 1..Len(L)
      /\ \A m \in 1..Len(L) : IsItem(L[m])
      /\ \A k, m \in 1..Len(L) : IdOf(L[k]) = IdOf(L[m]) => k = m
      /\ \A y \in ToSet(R) : IsItem(y)
      /\ \A y, z \in ToSet(R) : IdOf(y) = IdOf(z) => y = z
  BY DEF AreItems, ToSet
<1>2. PICK out : Stages(name, b, l, r, out) /\ a = Arr(out[Len(L)])
  BY <1>1, ArraysByStages
<1>3. /\ out[0] = R
      /\ \A n \in 1..Len(L) : out[n] = Into(name, b, out[n - 1], L[n])
  <2>1. 0 \in 0..Len(L) /\ \A n \in 1..Len(L) : n \in 0..Len(L) /\ n # 0
    BY <1>1
  <2>2. out = [n \in 0..Len(L) |->
                 IF n = 0 THEN R ELSE Into(name, b, out[n - 1], L[n])]
    BY <1>2 DEF Stages
  <2>3. \A n \in 0..Len(L) : out[n] = IF n = 0 THEN R ELSE Into(name, b, out[n - 1], L[n])
    <3> HIDE DEF L, R
    <3> QED BY <2>2
  <2> HIDE DEF L, R
  <2> QED BY <2>1, <2>3
<1>4. ASSUME NEW m \in 1..Len(L), NEW y \in ToSet(R), IdOf(y) = IdOf(L[m])
      PROVE  IdOf(Mix(L[m], y)) = IdOf(L[m])
  <2>1. OldItem(b, L[m]) = Null \/ (IsItem(OldItem(b, L[m])) /\ IdOf(OldItem(b, L[m])) = IdOf(L[m]))
    BY <1>1, OldItemOfId
  <2> QED BY <1>1, <1>4, <2>1, ItemsMerge
<1> HIDE DEF L, R, Mix
<1> DEFINE Kept(n) == \A y \in ToSet(R) :
                        (\A m \in 1..n : IdOf(L[m]) # IdOf(y)) => y \in ToSet(out[n])
           Appended(n) == \A m \in 1..n :
                        (\A y \in ToSet(R) : IdOf(y) # IdOf(L[m])) => L[m] \in ToSet(out[n])
           Mixed(n) == \A m \in 1..n, y \in ToSet(R) :
                        IdOf(y) = IdOf(L[m]) => Mix(L[m], y) \in ToSet(out[n])
           Sourced(n) == \A x \in ToSet(out[n]) :
                        \/ \E y \in ToSet(R) : IdOf(x) = IdOf(y)
                        \/ \E m \in 1..n : IdOf(x) = IdOf(L[m])
           Q(n) == AreItems(out[n]) /\ Kept(n) /\ Appended(n) /\ Mixed(n) /\ Sourced(n)
           P == {n \in Nat : n <= Len(L) => Q(n)}
<1>5. 0 \in P
  BY <1>3 DEF R
<1>6. ASSUME NEW n \in P PROVE n + 1 \in P
  <2> SUFFICES ASSUME n + 1 <= Len(L) PROVE Q(n + 1)
    OBVIOUS
  <2>1. /\ n \in Nat /\ Q(n) /\ n + 1 \in 1..Len(L) /\ (n + 1) - 1 = n
        /\ \A m \in 1..n : m \in 1..Len(L) /\ m # n + 1
        /\ \A m \in 1..n + 1 : m \in 1..n \/ m = n + 1
        /\ \A m \in 1..n : m \in 1..n + 1
        /\ n + 1 \in 1..n + 1
    BY <1>1
  <2> DEFINE v == L[n + 1]
             s == out[n]
             t == out[n + 1]
  <2>2. t = Into(name, b, s, v) /\ IsItem(v) /\ AreItems(s)
    BY <1>1, <1>3, <2>1
  <2>3. \A m \in 1..n : IdOf(L[m]) # IdOf(v)
    BY <1>1, <2>1
  <2> HIDE DEF v, s, t, Kept, Appended, Mixed, Sourced
  <2>4. /\ AreItems(t)
        /\ \A x \in ToSet(s) : IdOf(x) # IdOf(v) => x \in ToSet(t)
        /\ \A x \in ToSet(t) : IdOf(x) # IdOf(v) => x \in ToSet(s)
        /\ \A y \in ToSet(s) : IdOf(y) = IdOf(v) => Mix(v, y) \in ToSet(t)
        /\ (\A y \in ToSet(s) : IdOf(y) # IdOf(v)) => v \in ToSet(t)
    BY <2>2, IntoStep DEF Mix
  <2>5. Kept(n) /\ Appended(n) /\ Mixed(n) /\ Sourced(n)
    BY <2>1
  <2>6. Kept(n + 1)
    BY <2>1, <2>4, <2>5 DEF Kept, v, s, t
  <2>7. Appended(n + 1)
    <3> SUFFICES ASSUME NEW m \in 1..n + 1, \A y \in ToSet(R) : IdOf(y) # IdOf(L[m])
                 PROVE  L[m] \in ToSet(t)
      BY DEF Appended, t
    <3>1. CASE m \in 1..n
      BY <2>3, <2>4, <2>5, <3>1 DEF Appended, s
    <3>2. CASE m = n + 1
      <4>1. \A x \in ToSet(s) : IdOf(x) # IdOf(v)
        BY <2>3, <2>5, <3>2 DEF Sourced, s, v
      <4> QED BY <2>4, <3>2, <4>1 DEF v
    <3> QED BY <2>1, <3>1, <3>2
  <2>8. Mixed(n + 1)
    <3> SUFFICES ASSUME NEW m \in 1..n + 1, NEW y \in ToSet(R), IdOf(y) = IdOf(L[m])
                 PROVE  Mix(L[m], y) \in ToSet(t)
      BY DEF Mixed, t
    <3>1. CASE m \in 1..n
      <4>1. Mix(L[m], y) \in ToSet(s)
        BY <2>5, <3>1 DEF Mixed, s
      <4>2. IdOf(Mix(L[m], y)) = IdOf(L[m])
        BY <1>4, <2>1, <3>1
      <4> QED BY <2>3, <2>4, <3>1, <4>1, <4>2
    <3>2. CASE m = n + 1
      <4>1. y \in ToSet(s) /\ IdOf(y) = IdOf(v)
        BY <2>3, <2>5, <3>2 DEF Kept, s, v
      <4> QED BY <2>4, <3>2, <4>1 DEF v
    <3> QED BY <2>1, <3>1, <3>2
  <2>9. Sourced(n + 1)
    <3> SUFFICES ASSUME NEW x \in ToSet(t),
                        ~ \E m \in 1..n + 1 : IdOf(x) = IdOf(L[m])
                 PROVE  \E y \in ToSet(R) : IdOf(x) = IdOf(y)
      BY DEF Sourced, t
    <3>1. IdOf(x) # IdOf(v) /\ ~ \E m \in 1..n : IdOf(x) = IdOf(L[m])
      BY <2>1 DEF v
    <3>2. x \in ToSet(s)
      BY <2>4, <3>1
    <3> QED BY <2>5, <3>1, <3>2 DEF Sourced, s
  <2> QED BY <2>4, <2>6, <2>7, <2>8, <2>9 DEF t
<1>7. P = Nat
  <2>1. P \in SUBSET Nat
    OBVIOUS
  <2> HIDE DEF P
  <2> QED BY <1>5, <1>6, <2>1, NaturalsByInduction
<1>8. Q(Len(L))
  BY <1>1, <1>7
<1>9. a.arr = out[Len(L)] /\ IsArr(a)
  BY <1>2 DEF Arr, IsArr
<1>10. \A v : v \in ToSet(L) <=> \E m \in 1..Len(L) : v = L[m]
  BY <1>1 DEF ToSet
<1> QED BY <1>8, <1>9, <1>10 DEF L, R, Mix, Combines

\* The items of a document and their ids determine each other.
LEMMA ItemsById ==
  ASSUME NEW doc, AreItems(ItemsOf(doc))
  PROVE  /\ \A v \in ToSet(ItemsOf(doc)) :
              /\ IsItem(v) /\ IdOf(v) \in Ids(doc) /\ Find(doc, IdOf(v)) = v
              /\ IdOf(v) \in Dead(doc) <=> IsDead(v)
         /\ \A i \in Ids(doc) :
              Find(doc, i) \in ToSet(ItemsOf(doc)) /\ IdOf(Find(doc, i)) = i
<1> DEFINE S == ToSet(ItemsOf(doc))
<1>1. /\ \A v \in S : IsItem(v)
      /\ \A v, w \in S : IdOf(v) = IdOf(w) => v = w
  BY DEF AreItems, ToSet
<1>2. Ids(doc) = {IdOf(v) : v \in S}
  BY DEF Ids
<1>3. \A i : Find(doc, i) = CHOOSE v \in S : IdOf(v) = i
  BY DEF Find
<1> HIDE DEF S
<1>4. ASSUME NEW v \in S PROVE Find(doc, IdOf(v)) = v
  BY <1>1, <1>3
<1>5. \A v \in S : IdOf(v) \in Ids(doc)
  BY <1>2
<1>6. \A v \in S : IdOf(v) \in Dead(doc) <=> IsDead(v)
  BY <1>4, <1>5 DEF Dead
<1>7. ASSUME NEW i \in Ids(doc) PROVE Find(doc, i) \in S /\ IdOf(Find(doc, i)) = i
  BY <1>2, <1>3
<1> QED BY <1>1, <1>4, <1>5, <1>6, <1>7 DEF S

\* What the merged items of two documents hold: the remote items, those that
\* the local side has added, the tombstones of both, and the increments of the
\* score.
ListsMerge(b, l, r, m) ==
  /\ IsArr(m.obj.items) /\ AreItems(ItemsOf(m))
  /\ Ids(r) \subseteq Ids(m) /\ Ids(l) \ Ids(b) \subseteq Ids(m)
  /\ Dead(r) \subseteq Dead(m) /\ Dead(l) \ Dead(b) \subseteq Dead(m)
  /\ ScoreOf(m) = Increments(ScoreOf(b), ScoreOf(l), ScoreOf(r))
  /\ ScoreOf(b) \in Int /\ ScoreOf(l) \in Int /\ ScoreOf(r) \in Int

\* They do, whichever side has changed them.
LEMMA ItemListsMerge ==
  ASSUME NEW b, NEW l, NEW r, IsDocument(b), IsDocument(l), IsDocument(r),
         Ids(b) \subseteq Ids(l), Dead(b) \subseteq Dead(l),
         NEW m, m.obj.items = MergeFields("items", b.obj.items, l.obj.items, r.obj.items)
  PROVE  ListsMerge(b, l, r, m)
<1>1. /\ IsArr(b.obj.items) /\ IsArr(l.obj.items) /\ IsArr(r.obj.items)
      /\ AreItems(ItemsOf(b)) /\ AreItems(ItemsOf(l)) /\ AreItems(ItemsOf(r))
      /\ Old \in Ids(b) /\ Old \in Ids(l) /\ Old \in Ids(r)
  BY DEF IsDocument
<1>2. m.obj.items = ThreeWay(b.obj.items, l.obj.items, r.obj.items,
                             MergeArrays("items", b.obj.items, l.obj.items, r.obj.items))
  BY <1>1 DEF MergeFields
<1>3. \A x, y : ItemsOf(x) = ItemsOf(y) =>
        Ids(x) = Ids(y) /\ Dead(x) = Dead(y) /\ ScoreOf(x) = ScoreOf(y)
  BY DEF Ids, Dead, ScoreOf, Find
<1>4. ScoreOf(b) \in Int /\ ScoreOf(l) \in Int /\ ScoreOf(r) \in Int
  BY <1>1, ItemsById DEF ScoreOf, IsItem
<1>5. CASE l.obj.items = r.obj.items
  <2>1. m.obj.items = l.obj.items
    BY <1>2, <1>5 DEF ThreeWay
  <2>2. ItemsOf(m) = ItemsOf(l) /\ ItemsOf(l) = ItemsOf(r)
    BY <1>5, <2>1 DEF ItemsOf
  <2>3. /\ Ids(m) = Ids(l) /\ Dead(m) = Dead(l) /\ ScoreOf(m) = ScoreOf(l)
        /\ Ids(l) = Ids(r) /\ Dead(l) = Dead(r) /\ ScoreOf(l) = ScoreOf(r)
    BY <1>3, <2>2
  <2> QED BY <1>1, <1>4, <2>1, <2>2, <2>3 DEF Increments, ListsMerge
<1>6. CASE l.obj.items # r.obj.items /\ l.obj.items = b.obj.items
  <2>1. m.obj.items = r.obj.items
    BY <1>2, <1>6 DEF ThreeWay
  <2>2. ItemsOf(m) = ItemsOf(r) /\ ItemsOf(l) = ItemsOf(b)
    BY <1>6, <2>1 DEF ItemsOf
  <2>3. /\ Ids(m) = Ids(r) /\ Dead(m) = Dead(r) /\ ScoreOf(m) = ScoreOf(r)
        /\ Ids(l) = Ids(b) /\ Dead(l) = Dead(b) /\ ScoreOf(l) = ScoreOf(b)
    BY <1>3, <2>2
  <2> QED BY <1>1, <1>4, <2>1, <2>2, <2>3 DEF Increments, ListsMerge
<1>7. CASE l.obj.items # r.obj.items /\ l.obj.items # b.obj.items /\ r.obj.items = b.obj.items
  <2>1. m.obj.items = l.obj.items
    BY <1>2, <1>7 DEF ThreeWay
  <2>2. ItemsOf(m) = ItemsOf(l) /\ ItemsOf(r) = ItemsOf(b)
    BY <1>7, <2>1 DEF ItemsOf
  <2>3. /\ Ids(m) = Ids(l) /\ Dead(m) = Dead(l) /\ ScoreOf(m) = ScoreOf(l)
        /\ Ids(r) = Ids(b) /\ Dead(r) = Dead(b) /\ ScoreOf(r) = ScoreOf(b)
    BY <1>3, <2>2
  <2> QED BY <1>1, <1>4, <2>1, <2>2, <2>3 DEF Increments, ListsMerge
<1>8. CASE l.obj.items # r.obj.items /\ l.obj.items # b.obj.items /\ r.obj.items # b.obj.items
  <2> DEFINE M == ToSet(ItemsOf(m))
             Mix(v, y) == MergeItems("items", OldItem(b.obj.items, v), v, y)
  <2>1. m.obj.items = MergeArrays("items", b.obj.items, l.obj.items, r.obj.items)
    BY <1>2, <1>8 DEF ThreeWay
  <2>2. /\ IsArr(m.obj.items) /\ AreItems(ItemsOf(m))
        /\ \A v \in ToSet(ItemsOf(l)) :
             (\A y \in ToSet(ItemsOf(r)) : IdOf(y) # IdOf(v)) => v \in M
        /\ \A v \in ToSet(ItemsOf(l)), y \in ToSet(ItemsOf(r)) :
             IdOf(y) = IdOf(v) => Mix(v, y) \in M
        /\ \A y \in ToSet(ItemsOf(r)) :
             (\A v \in ToSet(ItemsOf(l)) : IdOf(v) # IdOf(y)) => y \in M
    <3> DEFINE B == b.obj.items
               L == l.obj.items
               R == r.obj.items
               A == m.obj.items
    <3>1. /\ IsArr(B) /\ AreItems(B.arr) /\ AreItems(L.arr) /\ AreItems(R.arr)
          /\ A = MergeArrays("items", B, L, R)
      BY <1>1, <2>1 DEF ItemsOf
    <3> HIDE DEF B, L, R, A
    <3>2. IsArr(A) /\ AreItems(A.arr) /\ Combines("items", B, L.arr, R.arr, A.arr)
      BY <3>1, ArraysMerge
    <3> QED BY <3>2 DEF Combines, ItemsOf, M, Mix, A, B, L, R
  <2> HIDE DEF M, Mix
  <2>3. \A x \in M : IdOf(x) \in Ids(m) /\ (IsDead(x) => IdOf(x) \in Dead(m)) /\ Find(m, IdOf(x)) = x
    BY <2>2, ItemsById DEF M
  <2>4. ASSUME NEW v \in ToSet(ItemsOf(l)), NEW y \in ToSet(ItemsOf(r)), IdOf(y) = IdOf(v)
        PROVE  /\ IdOf(Mix(v, y)) = IdOf(v)
               /\ IsDead(y) => IsDead(Mix(v, y))
               /\ IsDead(v) /\ IdOf(v) \notin Dead(b) => IsDead(Mix(v, y))
               /\ IdOf(v) \in Ids(b) =>
                    Mix(v, y).obj.score.num =
                      Increments(Find(b, IdOf(v)).obj.score.num, v.obj.score.num, y.obj.score.num)
    <3> DEFINE o == OldItem(b.obj.items, v)
    <3>1. /\ IsItem(v) /\ IsItem(y) /\ IdOf(v) = IdOf(y)
          /\ IdOf(v) \in Dead(l) <=> IsDead(v)
      BY <1>1, <2>4, ItemsById
    <3>2. /\ o = Null => \A z \in ToSet(ItemsOf(b)) : IdOf(z) # IdOf(v)
          /\ o # Null => o \in ToSet(ItemsOf(b)) /\ IsItem(o) /\ IdOf(o) = IdOf(v)
      BY <1>1, <3>1, OldItemOfId DEF ItemsOf, ToSet
    <3>3. o # Null => Find(b, IdOf(v)) = o /\ (IsDead(o) <=> IdOf(v) \in Dead(b))
      BY <1>1, <3>2, ItemsById
    <3>4. IdOf(v) \in Ids(b) => o # Null
      BY <1>1, <3>2, ItemsById
    <3> HIDE DEF o
    <3>5. o # Null /\ IsDead(o) => IsDead(v)
      BY <3>1, <3>3
    <3>6. Mix(v, y) = MergeItems("items", o, v, y)
      BY DEF Mix, o
    <3>7. /\ IdOf(Mix(v, y)) = IdOf(v)
          /\ o # Null => Mix(v, y).obj.score.num =
                           Increments(o.obj.score.num, v.obj.score.num, y.obj.score.num)
          /\ IsDead(y) /\ (o # Null /\ IsDead(o) => IsDead(v)) => IsDead(Mix(v, y))
          /\ IsDead(v) /\ (o = Null \/ ~IsDead(o)) => IsDead(Mix(v, y))
      BY <3>1, <3>2, <3>6, ItemsMerge
    <3> QED BY <3>3, <3>4, <3>5, <3>7
  <2>5. ASSUME NEW y \in ToSet(ItemsOf(r))
        PROVE  IdOf(y) \in Ids(m) /\ (IsDead(y) => IdOf(y) \in Dead(m))
    <3>1. CASE \A v \in ToSet(ItemsOf(l)) : IdOf(v) # IdOf(y)
      BY <2>2, <2>3, <3>1
    <3>2. ASSUME NEW v \in ToSet(ItemsOf(l)), IdOf(v) = IdOf(y)
          PROVE  IdOf(y) \in Ids(m) /\ (IsDead(y) => IdOf(y) \in Dead(m))
      BY <2>2, <2>3, <2>4, <3>2
    <3> QED BY <3>1, <3>2
  <2>6. ASSUME NEW v \in ToSet(ItemsOf(l))
        PROVE  IdOf(v) \in Ids(m) /\ (IsDead(v) /\ IdOf(v) \notin Dead(b) => IdOf(v) \in Dead(m))
    <3>1. CASE \A y \in ToSet(ItemsOf(r)) : IdOf(y) # IdOf(v)
      BY <2>2, <2>3, <3>1
    <3>2. ASSUME NEW y \in ToSet(ItemsOf(r)), IdOf(v) = IdOf(y)
          PROVE  IdOf(v) \in Ids(m) /\ (IsDead(v) /\ IdOf(v) \notin Dead(b) => IdOf(v) \in Dead(m))
      BY <2>2, <2>3, <2>4, <3>2
    <3> QED BY <3>1, <3>2
  <2>7. Ids(r) \subseteq Ids(m) /\ Dead(r) \subseteq Dead(m)
    BY <1>1, <2>5, ItemsById DEF Dead
  <2>8. Ids(l) \subseteq Ids(m) /\ Dead(l) \ Dead(b) \subseteq Dead(m)
    BY <1>1, <2>6, ItemsById DEF Dead
  <2>9. ScoreOf(m) = Increments(ScoreOf(b), ScoreOf(l), ScoreOf(r))
    <3>1. /\ Find(l, Old) \in ToSet(ItemsOf(l)) /\ IdOf(Find(l, Old)) = Old
          /\ Find(r, Old) \in ToSet(ItemsOf(r)) /\ IdOf(Find(r, Old)) = Old
      BY <1>1, ItemsById
    <3>2. Find(m, Old) = Mix(Find(l, Old), Find(r, Old))
      BY <2>2, <2>3, <2>4, <3>1
    <3> QED BY <1>1, <2>4, <3>1, <3>2 DEF ScoreOf
  <2> QED BY <1>4, <2>2, <2>7, <2>8, <2>9 DEF ListsMerge
<1> QED BY <1>5, <1>6, <1>7, <1>8

\* Fields that are numbers are merged as such.
LEMMA NumbersMerge ==
  ASSUME NEW name, NEW b, NEW l \in [num : Int], NEW r
  PROVE  MergeFields(name, b, l, r) = MergeValues(name, b, l, r)
<1>1. DOMAIN l = {"num"}
  OBVIOUS
<1>2. ~IsArr(l) /\ ~IsObj(l)
  BY <1>1 DEF IsArr, IsObj
<1> QED BY <1>2 DEF MergeFields, MergeItems

\* The merge of a document that extends the common one with the remote one
\* extends the remote one by all that was added locally.
THEOREM DocumentsMerge ==
  ASSUME NEW b, NEW l, NEW r, IsDocument(b), IsDocument(l), IsDocument(r), Extends(b, l),
         NEW m, m = MergeDocuments(b, l, r, Timestamps(l), Timestamps(r))
  PROVE  /\ IsDocument(m) /\ Extends(r, m)
         /\ NoteOf(m) \in {NoteOf(l), NoteOf(r)}
         /\ Ids(l) \ Ids(b) \subseteq Ids(m) /\ Dead(l) \ Dead(b) \subseteq Dead(m)
         /\ CountOf(m) = Increments(CountOf(b), CountOf(l), CountOf(r))
         /\ ScoreOf(m) = Increments(ScoreOf(b), ScoreOf(l), ScoreOf(r))
<1> DEFINE K == {"count", "note", "items"}
           Remote(k) == /\ l.obj[k] # r.obj[k] /\ l.obj[k] # b.obj[k] /\ r.obj[k] # b.obj[k]
                        /\ Newer(TimeOf(Timestamps(r), k), TimeOf(Timestamps(l), k))
<1>1. /\ IsObj(b) /\ IsObj(l) /\ IsObj(r)
      /\ DOMAIN b.obj = K /\ DOMAIN l.obj = K /\ DOMAIN r.obj = K
  BY DEF IsDocument
<1>2. \A k \in K : Field(b, k) = b.obj[k] /\ Field(r, k) = r.obj[k]
  BY <1>1 DEF Field
<1>3. m = Obj([k \in K |-> IF Remote(k) THEN r.obj[k]
                           ELSE MergeFields(k, b.obj[k], l.obj[k], r.obj[k])])
  BY <1>1, <1>2 DEF MergeDocuments
<1> HIDE DEF Remote
<1>4. /\ IsObj(m) /\ DOMAIN m.obj = K
      /\ \A k \in K : m.obj[k] = IF Remote(k) THEN r.obj[k]
                                 ELSE MergeFields(k, b.obj[k], l.obj[k], r.obj[k])
  BY <1>3 DEF Obj, IsObj
<1>5. /\ l.obj["count"] \in [num : Int] /\ b.obj["count"] \in [num : Int]
      /\ r.obj["count"] \in [num : Int]
      /\ l.obj["note"] \in [num : Int] /\ b.obj["note"] \in [num : Int]
      /\ r.obj["note"] \in [num : Int]
  BY DEF IsDocument
<1>6. /\ ~Remote("count") /\ ~Remote("items")
      /\ TimeOf(Timestamps(r), "note") = NoteOf(r) /\ TimeOf(Timestamps(l), "note") = NoteOf(l)
  BY DEF Remote, Newer, TimeOf, Timestamps
<1>7. m.obj["count"] \in [num : Int] /\ CountOf(m) = Increments(CountOf(b), CountOf(l), CountOf(r))
  <2>1. m.obj["count"] = MergeValues("count", b.obj["count"], l.obj["count"], r.obj["count"])
    BY <1>4, <1>5, <1>6, NumbersMerge
  <2> QED BY <1>5, <2>1, ValuesMerge DEF IsCounter, CountOf
<1>8. CountOf(b) \in Int /\ CountOf(l) \in Int /\ CountOf(r) \in Int
  BY <1>5 DEF CountOf
<1>9. NoteOf(b) \in Int /\ NoteOf(l) \in Int /\ NoteOf(r) \in Int
  BY <1>5 DEF NoteOf
<1>10. /\ m.obj["note"] \in [num : Int] /\ NoteOf(m) \in {NoteOf(l), NoteOf(r)}
       /\ NoteOf(r) <= NoteOf(m)
  <2>1. CASE Remote("note")
    <3>1. m.obj["note"] = r.obj["note"]
      BY <1>4, <2>1
    <3> QED BY <1>5, <1>9, <3>1 DEF NoteOf
  <2>2. CASE ~Remote("note")
    <3>1. m.obj["note"] = MergeValues("note", b.obj["note"], l.obj["note"], r.obj["note"])
      BY <1>4, <1>5, <2>2, NumbersMerge
    <3>2. m.obj["note"] = ThreeWay(b.obj["note"], l.obj["note"], r.obj["note"], l.obj["note"])
      BY <3>1 DEF MergeValues, IsCounter
    <3>3. NoteOf(b) <= NoteOf(l)
      BY DEF Extends
    <3>4. CASE l.obj["note"] # r.obj["note"] /\ l.obj["note"] # b.obj["note"] /\ r.obj["note"] # b.obj["note"]
      <4>1. ~(NoteOf(r) > NoteOf(l))
        BY <1>6, <2>2, <3>4 DEF Remote, Newer
      <4>2. m.obj["note"] = l.obj["note"]
        BY <3>2, <3>4 DEF ThreeWay
      <4> QED BY <1>5, <1>9, <4>1, <4>2 DEF NoteOf
    <3>5. CASE ~(l.obj["note"] # r.obj["note"] /\ l.obj["note"] # b.obj["note"] /\ r.obj["note"] # b.obj["note"])
      BY <1>5, <1>9, <3>2, <3>3, <3>5 DEF ThreeWay, NoteOf
    <3> QED BY <3>4, <3>5
  <2> QED BY <2>1, <2>2
<1>11. /\ Ids(b) \subseteq Ids(l) /\ Dead(b) \subseteq Dead(l)
       /\ CountOf(b) <= CountOf(l) /\ ScoreOf(b) <= ScoreOf(l)
  BY DEF Extends
<1>12. m.obj.items = MergeFields("items", b.obj.items, l.obj.items, r.obj.items)
  BY <1>4, <1>6
<1>13. /\ IsArr(m.obj.items) /\ AreItems(ItemsOf(m))
       /\ Ids(r) \subseteq Ids(m) /\ Ids(l) \ Ids(b) \subseteq Ids(m)
       /\ Dead(r) \subseteq Dead(m) /\ Dead(l) \ Dead(b) \subseteq Dead(m)
       /\ ScoreOf(m) = Increments(ScoreOf(b), ScoreOf(l), ScoreOf(r))
       /\ ScoreOf(b) \in Int /\ ScoreOf(l) \in Int /\ ScoreOf(r) \in Int
  <2>1. ListsMerge(b, l, r, m)
    <3> HIDE DEF K
    <3> QED BY ONLY IsDocument(b), IsDocument(l), IsDocument(r), <1>11, <1>12, ItemListsMerge
  <2> QED BY <2>1 DEF ListsMerge
<1>14. Old \in Ids(m)
  BY <1>13 DEF IsDocument
<1>15. IsDocument(m)
  BY <1>4, <1>7, <1>10, <1>13, <1>14 DEF IsDocument
<1>16. CountOf(r) <= CountOf(m) /\ ScoreOf(r) <= ScoreOf(m)
  BY <1>7, <1>8, <1>11, <1>13 DEF Increments
<1>17. Extends(r, m)
  BY <1>10, <1>13, <1>16 DEF Extends
<1> QED BY <1>7, <1>10, <1>13, <1>15, <1>17

(***************************************************************************)
(* Changes of a device's document.                                         *)
(***************************************************************************)

\* The numbers of a document.
LEMMA DocumentNumbers ==
  ASSUME NEW doc, IsDocument(doc)
  PROVE  /\ CountOf(doc) \in Int /\ ScoreOf(doc) \in Int /\ NoteOf(doc) \in Int
         /\ Ids(doc) \subseteq Items \cup {Old} /\ Dead(doc) \subseteq Ids(doc)
<1>1. AreItems(ItemsOf(doc)) /\ Old \in Ids(doc)
  BY DEF IsDocument
<1>2. CountOf(doc) \in Int /\ NoteOf(doc) \in Int
  BY DEF IsDocument, CountOf, NoteOf
<1>3. ScoreOf(doc) \in Int
  BY <1>1, ItemsById DEF ScoreOf, IsItem
<1>4. \A i \in Ids(doc) : i \in Items \cup {Old}
  BY <1>1, ItemsById DEF IsItem, IdOf
<1> QED BY <1>2, <1>3, <1>4 DEF Dead

\* Extends is reflexive ...
LEMMA ExtendsItself ==
  ASSUME NEW doc, IsDocument(doc)
  PROVE  Extends(doc, doc)
BY DocumentNumbers DEF Extends

\* ... and transitive.
LEMMA ExtendsFurther ==
  ASSUME NEW a, NEW b, NEW c, IsDocument(a), IsDocument(b), IsDocument(c),
         Extends(a, b), Extends(b, c)
  PROVE  Extends(a, c)
<1>1. /\ CountOf(a) \in Int /\ ScoreOf(a) \in Int /\ NoteOf(a) \in Int
      /\ CountOf(b) \in Int /\ ScoreOf(b) \in Int /\ NoteOf(b) \in Int
      /\ CountOf(c) \in Int /\ ScoreOf(c) \in Int /\ NoteOf(c) \in Int
  BY DocumentNumbers
<1> QED BY <1>1 DEF Extends

\* One field of a device's document changes.
LEMMA ChangeOfField ==
  ASSUME DocumentsOK, NEW d \in Devices, NEW k \in {"count", "note", "items"}, NEW v,
         Change(d, k, v)
  PROVE  /\ DOMAIN local' = Devices /\ \A e \in Devices : e # d => local'[e] = local[e]
         /\ IsObj(local'[d]) /\ DOMAIN local'[d].obj = {"count", "note", "items"}
         /\ local'[d].obj[k] = v
         /\ \A f \in {"count", "note", "items"} : f # k => local'[d].obj[f] = local[d].obj[f]
<1>1. /\ DOMAIN local = Devices /\ IsObj(local[d])
      /\ DOMAIN local[d].obj = {"count", "note", "items"}
  BY DEF DocumentsOK, IsDocument
<1>2. local' = [local EXCEPT ![d].obj[k] = v]
  BY DEF Change
<1>3. local'[d] = [local[d] EXCEPT !.obj[k] = v]
  BY <1>1, <1>2
<1>4. local'[d].obj = [local[d].obj EXCEPT ![k] = v] /\ DOMAIN local'[d] = DOMAIN local[d]
  BY <1>1, <1>3 DEF IsObj
<1> QED BY <1>1, <1>2, <1>4 DEF IsObj

\* What depends on the items only.
LEMMA SameItems ==
  ASSUME NEW x, NEW y, ItemsOf(x) = ItemsOf(y)
  PROVE  Ids(x) = Ids(y) /\ Dead(x) = Dead(y) /\ ScoreOf(x) = ScoreOf(y)
BY DEF Ids, Dead, ScoreOf, Find

\* What a change of a number makes of a device's document.
LEMMA NumberChanged ==
  ASSUME DocumentsOK, NEW d \in Devices, NEW k \in {"count", "note"}, NEW n \in Int,
         Change(d, k, Num(n))
  PROVE  /\ IsDocument(local'[d])
         /\ CountOf(local'[d]) = IF k = "count" THEN n ELSE CountOf(local[d])
         /\ NoteOf(local'[d]) = IF k = "note" THEN n ELSE NoteOf(local[d])
         /\ Ids(local'[d]) = Ids(local[d]) /\ Dead(local'[d]) = Dead(local[d])
         /\ ScoreOf(local'[d]) = ScoreOf(local[d])
<1> DEFINE old == local[d]
           new == local'[d]
<1>1. IsDocument(old)
  BY DEF DocumentsOK
<1>2. /\ IsObj(new) /\ DOMAIN new.obj = {"count", "note", "items"}
      /\ new.obj[k] = Num(n)
      /\ \A f \in {"count", "note", "items"} : f # k => new.obj[f] = old.obj[f]
  BY ChangeOfField
<1> HIDE DEF old, new
<1>3. ItemsOf(new) = ItemsOf(old) /\ IsArr(new.obj["items"])
  BY <1>1, <1>2 DEF ItemsOf, IsDocument
<1>4. /\ Ids(new) = Ids(old) /\ Dead(new) = Dead(old)
      /\ ScoreOf(new) = ScoreOf(old)
  BY <1>3, SameItems
<1>5. Num(n) \in [num : Int] /\ Num(n).num = n
  BY DEF Num
<1>6. /\ new.obj["count"] \in [num : Int] /\ new.obj["note"] \in [num : Int]
      /\ CountOf(new) = IF k = "count" THEN n ELSE CountOf(old)
      /\ NoteOf(new) = IF k = "note" THEN n ELSE NoteOf(old)
  BY <1>1, <1>2, <1>5 DEF IsDocument, CountOf, NoteOf
<1>7. IsDocument(new)
  BY <1>1, <1>2, <1>3, <1>4, <1>6 DEF IsDocument
<1> QED BY <1>4, <1>6, <1>7 DEF old, new

\* What a change of the items makes of a device's document.
LEMMA ItemsChanged ==
  ASSUME DocumentsOK, NEW d \in Devices, NEW s, Change(d, "items", Arr(s)), AreItems(s),
         \E v \in ToSet(s) : IdOf(v) = Old
  PROVE  /\ IsDocument(local'[d]) /\ ItemsOf(local'[d]) = s
         /\ CountOf(local'[d]) = CountOf(local[d])
         /\ NoteOf(local'[d]) = NoteOf(local[d])
<1> DEFINE old == local[d]
           new == local'[d]
<1>1. IsDocument(old)
  BY DEF DocumentsOK
<1>2. /\ IsObj(new) /\ DOMAIN new.obj = {"count", "note", "items"}
      /\ new.obj["items"] = Arr(s)
      /\ \A f \in {"count", "note", "items"} : f # "items" => new.obj[f] = old.obj[f]
  BY ChangeOfField
<1> HIDE DEF old, new
<1>3. ItemsOf(new) = s /\ IsArr(new.obj["items"])
  BY <1>2 DEF ItemsOf, IsArr, Arr
<1>4. Old \in Ids(new)
  BY <1>3 DEF Ids
<1>5. new.obj["count"] = old.obj["count"] /\ new.obj["note"] = old.obj["note"]
  BY <1>2
<1>6. IsDocument(new)
  BY <1>1, <1>2, <1>3, <1>4, <1>5 DEF IsDocument
<1> QED BY <1>3, <1>5, <1>6 DEF old, new, CountOf, NoteOf

\* One item of a device's document gets another score or a tombstone.
LEMMA ItemChanged ==
  ASSUME DocumentsOK, NEW d \in Devices, NEW i, NEW k \in {"score", "deletedAt"}, NEW n \in Int,
         ChangeItem(d, i, k, Num(n))
  PROVE  /\ IsDocument(local'[d])
         /\ CountOf(local'[d]) = CountOf(local[d]) /\ NoteOf(local'[d]) = NoteOf(local[d])
         /\ Ids(local'[d]) = Ids(local[d])
         /\ Dead(local'[d]) = IF k = "deletedAt" /\ i \in Ids(local[d])
                                THEN Dead(local[d]) \cup {i} ELSE Dead(local[d])
         /\ ScoreOf(local'[d]) = IF k = "score" /\ i = Old THEN n ELSE ScoreOf(local[d])
<1> DEFINE s == ItemsOf(local[d])
           Of(x) == IF IdOf(x) = i
                      THEN Obj([f \in DOMAIN x.obj \cup {k} |-> IF f = k THEN Num(n) ELSE x.obj[f]])
                      ELSE x
           t == [m \in DOMAIN s |-> Of(s[m])]
           old == local[d]
           new == local'[d]
<1>1. IsDocument(old) /\ AreItems(s) /\ Old \in Ids(old)
  BY DEF DocumentsOK, IsDocument
<1>2. Change(d, "items", Arr(t))
  BY DEF ChangeItem
<1>3. ASSUME NEW x, IsItem(x)
      PROVE  /\ IsItem(Of(x)) /\ IdOf(Of(x)) = IdOf(x)
             /\ IsDead(Of(x)) <=> IsDead(x) \/ (k = "deletedAt" /\ IdOf(x) = i)
             /\ Of(x).obj.score.num = IF k = "score" /\ IdOf(x) = i THEN n ELSE x.obj.score.num
  <2>1. CASE IdOf(x) # i
    BY <1>3, <2>1
  <2>2. CASE IdOf(x) = i
    <3> DEFINE o == [f \in DOMAIN x.obj \cup {k} |-> IF f = k THEN Num(n) ELSE x.obj[f]]
    <3>1. Of(x) = Obj(o)
      BY <2>2
    <3>2. /\ DOMAIN o = DOMAIN x.obj \cup {k} /\ o[k] = Num(n)
          /\ \A f \in DOMAIN x.obj : f # k => o[f] = x.obj[f]
      OBVIOUS
    <3> HIDE DEF o, Of
    <3>3. IsObj(Of(x)) /\ Of(x).obj = o
      BY <3>1 DEF Obj, IsObj
    <3>4. Num(n) \in [num : Int] /\ Num(n).num = n
      BY DEF Num
    <3>5. o["id"] = x.obj["id"]
      BY <1>3, <3>2 DEF IsItem
    <3>6. o["score"] = IF k = "score" THEN Num(n) ELSE x.obj["score"]
      BY <1>3, <3>2 DEF IsItem
    <3>7. IsItem(Of(x)) /\ IdOf(Of(x)) = IdOf(x)
      BY <1>3, <3>2, <3>3, <3>4, <3>5, <3>6 DEF IsItem, IdOf
    <3>8. IsDead(Of(x)) <=> IsDead(x) \/ k = "deletedAt"
      BY <3>2, <3>3 DEF IsDead
    <3> QED BY <2>2, <3>3, <3>4, <3>6, <3>7, <3>8
  <2> QED BY <2>1, <2>2
<1> HIDE DEF Of
<1>4. /\ Len(s) \in Nat /\ DOMAIN s = 1..Len(s) /\ DOMAIN t = 1..Len(s)
      /\ \A m \in 1..Len(s) : IsItem(s[m]) /\ t[m] = Of(s[m])
      /\ \A m, j \in 1..Len(s) : IdOf(s[m]) = IdOf(s[j]) => m = j
  BY <1>1 DEF AreItems
<1> HIDE DEF s, t
<1>5. t \in Seq(ToSet(t))
  <2>1. t \in [1..Len(s) -> ToSet(t)]
    BY <1>4 DEF t, ToSet
  <2> QED BY <1>4, <2>1, SeqDef
<1>6. AreItems(t)
  <2>1. \A m \in 1..Len(s) : IsItem(t[m]) /\ IdOf(t[m]) = IdOf(s[m])
    BY <1>3, <1>4
  <2> QED BY <1>4, <1>5, <2>1 DEF AreItems
<1>7. /\ \A v \in ToSet(s) : IsItem(v) /\ Of(v) \in ToSet(t)
      /\ \A w \in ToSet(t) : \E v \in ToSet(s) : w = Of(v)
  BY <1>4 DEF ToSet
<1>8. Old \in {IdOf(v) : v \in ToSet(s)}
  BY <1>1 DEF Ids, s
<1>9. \E w \in ToSet(t) : IdOf(w) = Old
  BY <1>3, <1>7, <1>8
<1>10. /\ IsDocument(new) /\ ItemsOf(new) = t
       /\ CountOf(new) = CountOf(old) /\ NoteOf(new) = NoteOf(old)
  BY <1>2, <1>6, <1>9, ItemsChanged
<1>11. ItemsOf(old) = s
  BY DEF s
<1> HIDE DEF old, new
<1>12. Ids(new) = Ids(old)
  BY <1>3, <1>7, <1>10, <1>11 DEF Ids
<1>13. ASSUME NEW j \in Ids(old) PROVE Find(new, j) = Of(Find(old, j))
  <2>1. Find(old, j) \in ToSet(s) /\ IdOf(Find(old, j)) = j
    BY <1>1, <1>11, ItemsById
  <2>2. Of(Find(old, j)) \in ToSet(t) /\ IdOf(Of(Find(old, j))) = j
    BY <1>3, <1>7, <2>1
  <2> QED BY <1>6, <1>10, <2>2, ItemsById
<1>14. \A j \in Ids(old) : IsItem(Find(old, j)) /\ IdOf(Find(old, j)) = j
  BY <1>1, <1>7, <1>11, ItemsById
<1>15. \A j \in Ids(old) : j \in Dead(new) <=> j \in Dead(old) \/ (k = "deletedAt" /\ j = i)
  BY <1>3, <1>12, <1>13, <1>14 DEF Dead
<1>16. Dead(new) \subseteq Ids(old) /\ Dead(old) \subseteq Ids(old)
  BY <1>12 DEF Dead
<1>17. Dead(new) = IF k = "deletedAt" /\ i \in Ids(old) THEN Dead(old) \cup {i} ELSE Dead(old)
  BY <1>15, <1>16
<1>18. ScoreOf(new) = IF k = "score" /\ i = Old THEN n ELSE ScoreOf(old)
  BY <1>1, <1>3, <1>13, <1>14 DEF ScoreOf
<1> QED BY <1>10, <1>12, <1>17, <1>18 DEF old, new

\* An item is added to a device's document.
LEMMA ItemAdded ==
  ASSUME DocumentsOK, NEW d \in Devices, NEW i \in Items, Add(d, i)
  PROVE  /\ IsDocument(local'[d])
         /\ CountOf(local'[d]) = CountOf(local[d]) /\ NoteOf(local'[d]) = NoteOf(local[d])
         /\ Ids(local'[d]) = Ids(local[d]) \cup {i}
         /\ Dead(local[d]) \subseteq Dead(local'[d])
         /\ ScoreOf(local'[d]) = ScoreOf(local[d])
<1> DEFINE s == ItemsOf(local[d])
           v == Item(i)
           t == Append(s, v)
           old == local[d]
           new == local'[d]
<1>1. AreItems(s) /\ Old \in Ids(old) /\ i \notin Ids(old) /\ Change(d, "items", Arr(t))
  BY DEF DocumentsOK, IsDocument, Add
<1>2. IsItem(v) /\ IdOf(v) = i
  BY DEF Item, IsItem, IdOf, IsObj, Obj, Num
<1>3. ItemsOf(old) = s
  OBVIOUS
<1> HIDE DEF s, v, old
<1>4. /\ Len(s) \in Nat /\ DOMAIN s = 1..Len(s) /\ s \in Seq(ToSet(s))
      /\ \A m \in 1..Len(s) : IsItem(s[m]) /\ IdOf(s[m]) # i
      /\ \A m, j \in 1..Len(s) : IdOf(s[m]) = IdOf(s[j]) => m = j
  <2>1. Len(s) \in Nat /\ DOMAIN s = 1..Len(s)
    BY <1>1 DEF AreItems
  <2>2. \A m \in 1..Len(s) : s[m] \in ToSet(s)
    BY <2>1 DEF ToSet
  <2>3. \A m \in 1..Len(s) : IdOf(s[m]) \in Ids(old)
    BY <1>3, <2>2 DEF Ids
  <2> QED BY <1>1, <2>1, <2>3 DEF AreItems
<1>5. /\ t \in Seq(ToSet(s) \cup {v}) /\ Len(t) = Len(s) + 1 /\ DOMAIN t = 1..Len(s) + 1
      /\ t[Len(s) + 1] = v /\ \A m \in 1..Len(s) : t[m] = s[m]
  <2> DEFINE S == ToSet(s) \cup {v}
  <2>1. s \in Seq(S) /\ v \in S
    BY <1>4, SeqMonotonic
  <2> HIDE DEF S
  <2>2. /\ t \in Seq(S) /\ Len(t) = Len(s) + 1
        /\ t[Len(s) + 1] = v /\ \A m \in 1..Len(s) : t[m] = s[m]
    BY <2>1
  <2> QED BY <2>2 DEF S
<1> HIDE DEF t
<1>6. \A m \in 1..Len(s) + 1 : m \in 1..Len(s) \/ m = Len(s) + 1
  BY <1>4
<1>7. AreItems(t)
  <2>1. \A m \in 1..Len(s) + 1 : IsItem(t[m])
    BY <1>2, <1>4, <1>5, <1>6
  <2>2. ASSUME NEW m \in 1..Len(s) + 1, NEW j \in 1..Len(s) + 1, IdOf(t[m]) = IdOf(t[j])
        PROVE  m = j
    BY <1>2, <1>4, <1>5, <1>6, <2>2
  <2> QED BY <1>5, <2>1, <2>2, OwnElements DEF AreItems
<1>8. ToSet(t) = ToSet(s) \cup {v}
  <2>1. Len(s) + 1 \in 1..Len(s) + 1 /\ \A m \in 1..Len(s) : m \in 1..Len(s) + 1
    BY <1>4
  <2> QED BY <1>4, <1>5, <1>6, <2>1 DEF ToSet
<1>9. Old \in {IdOf(w) : w \in ToSet(s)}
  BY <1>1, <1>3 DEF Ids
<1>10. \E w \in ToSet(t) : IdOf(w) = Old
  BY <1>8, <1>9
<1>11. /\ IsDocument(new) /\ ItemsOf(new) = t
       /\ CountOf(new) = CountOf(old) /\ NoteOf(new) = NoteOf(old)
  BY <1>1, <1>7, <1>10, ItemsChanged DEF old
<1> HIDE DEF new
<1>12. Ids(new) = Ids(old) \cup {i}
  BY <1>2, <1>3, <1>8, <1>11 DEF Ids
<1>13. \A j \in Ids(old) : Find(new, j) = Find(old, j)
  BY <1>1, <1>3, <1>7, <1>8, <1>11, ItemsById
<1>14. Dead(old) \subseteq Dead(new) /\ ScoreOf(new) = ScoreOf(old)
  BY <1>1, <1>12, <1>13 DEF Dead, ScoreOf
<1> QED BY <1>11, <1>12, <1>14 DEF old, new

\* What a change leaves as it was, and that it only adds to a document.
Adds(d) ==
  /\ changes < MaxChanges /\ changes' = changes + 1
  /\ UNCHANGED <<version, payload, known, base, alike, faults>>
  /\ DOMAIN local' = Devices /\ \A e \in Devices : e # d => local'[e] = local[e]
  /\ IsDocument(local'[d]) /\ Extends(local[d], local'[d])
  /\ NoteOf(local'[d]) <= changes + 1
  /\ counted' \in {counted, counted + 1} /\ scored' \in {scored, scored + 1}
  /\ CountOf(local'[d]) - CountOf(local[d]) = counted' - counted
  /\ ScoreOf(local'[d]) - ScoreOf(local[d]) = scored' - scored
  /\ added' \subseteq Items /\ deleted' \subseteq Items \cup {Old}
  /\ added' \subseteq added \cup (Ids(local'[d]) \ Ids(local[d]))
  /\ deleted' \subseteq deleted \cup (Dead(local'[d]) \ Dead(local[d]))

DeviceChanges(d) ==
  \/ Count(d) \/ Score(d) \/ WriteNote(d)
  \/ \E i \in Items : Add(d, i)
  \/ \E i \in Items \cup {Old} : Delete(d, i)

\* Whatever a device does to its own document adds to it.
LEMMA ChangesAdd ==
  ASSUME DocumentsOK, MergedInv, NEW d \in Devices, DeviceChanges(d)
  PROVE  Adds(d)
<1>1. /\ IsDocument(local[d]) /\ NoteOf(local[d]) <= changes
      /\ counted \in Int /\ scored \in Int /\ changes \in Int
      /\ added \subseteq Items /\ deleted \subseteq Items \cup {Old}
  BY MergedProgressAssumption DEF DocumentsOK, MergedInv
<1>2. /\ CountOf(local[d]) \in Int /\ ScoreOf(local[d]) \in Int /\ NoteOf(local[d]) \in Int
      /\ Ids(local[d]) \subseteq Items \cup {Old} /\ Dead(local[d]) \subseteq Ids(local[d])
  BY <1>1, DocumentNumbers
<1>3. ASSUME NEW k \in {"count", "note", "items"}, NEW v, Change(d, k, v)
      PROVE  /\ changes < MaxChanges /\ changes' = changes + 1
             /\ UNCHANGED <<version, payload, known, base, alike, faults>>
             /\ DOMAIN local' = Devices /\ \A e \in Devices : e # d => local'[e] = local[e]
  BY <1>3, ChangeOfField DEF Change, row
<1>4. CASE Count(d)
  <2>1. Change(d, "count", Num(CountOf(local[d]) + 1)) /\ CountOf(local[d]) + 1 \in Int
    BY <1>2, <1>4 DEF Count
  <2>2. /\ IsDocument(local'[d]) /\ CountOf(local'[d]) = CountOf(local[d]) + 1
        /\ NoteOf(local'[d]) = NoteOf(local[d])
        /\ Ids(local'[d]) = Ids(local[d]) /\ Dead(local'[d]) = Dead(local[d])
        /\ ScoreOf(local'[d]) = ScoreOf(local[d])
    BY <2>1, NumberChanged
  <2>3. counted' = counted + 1 /\ scored' = scored /\ added' = added /\ deleted' = deleted
    BY <1>4 DEF Count
  <2> QED BY <1>1, <1>2, <1>3, <2>1, <2>2, <2>3 DEF Adds, Extends
<1>5. CASE Score(d)
  <2>1. /\ ChangeItem(d, Old, "score", Num(ScoreOf(local[d]) + 1)) /\ ScoreOf(local[d]) + 1 \in Int
    BY <1>2, <1>5 DEF Score
  <2>2. /\ IsDocument(local'[d]) /\ CountOf(local'[d]) = CountOf(local[d])
        /\ NoteOf(local'[d]) = NoteOf(local[d])
        /\ Ids(local'[d]) = Ids(local[d]) /\ Dead(local'[d]) = Dead(local[d])
        /\ ScoreOf(local'[d]) = ScoreOf(local[d]) + 1
    BY <2>1, ItemChanged
  <2>3. counted' = counted /\ scored' = scored + 1 /\ added' = added /\ deleted' = deleted
    BY <1>5 DEF Score
  <2>4. \E v : Change(d, "items", v)
    BY <2>1 DEF ChangeItem
  <2> QED BY <1>1, <1>2, <1>3, <2>2, <2>3, <2>4 DEF Adds, Extends
<1>6. CASE WriteNote(d)
  <2>1. Change(d, "note", Num(changes + 1)) /\ changes + 1 \in Int
    BY <1>1, <1>6 DEF WriteNote
  <2>2. /\ IsDocument(local'[d]) /\ CountOf(local'[d]) = CountOf(local[d])
        /\ NoteOf(local'[d]) = changes + 1
        /\ Ids(local'[d]) = Ids(local[d]) /\ Dead(local'[d]) = Dead(local[d])
        /\ ScoreOf(local'[d]) = ScoreOf(local[d])
    BY <2>1, NumberChanged
  <2>3. counted' = counted /\ scored' = scored /\ added' = added /\ deleted' = deleted
    BY <1>6 DEF WriteNote
  <2> QED BY <1>1, <1>2, <1>3, <2>1, <2>2, <2>3 DEF Adds, Extends
<1>7. ASSUME NEW i \in Items, Add(d, i) PROVE Adds(d)
  <2>1. /\ IsDocument(local'[d]) /\ CountOf(local'[d]) = CountOf(local[d])
        /\ NoteOf(local'[d]) = NoteOf(local[d])
        /\ Ids(local'[d]) = Ids(local[d]) \cup {i} /\ Dead(local[d]) \subseteq Dead(local'[d])
        /\ ScoreOf(local'[d]) = ScoreOf(local[d])
    BY <1>7, ItemAdded
  <2>2. /\ counted' = counted /\ scored' = scored /\ added' = added \cup {i} /\ deleted' = deleted
        /\ i \notin Ids(local[d]) /\ \E v : Change(d, "items", v)
    BY <1>7 DEF Add
  <2> QED BY <1>1, <1>2, <1>3, <2>1, <2>2 DEF Adds, Extends
<1>8. ASSUME NEW i \in Items \cup {Old}, Delete(d, i) PROVE Adds(d)
  <2>1. ChangeItem(d, i, "deletedAt", Num(changes + 1)) /\ changes + 1 \in Int
        /\ i \in Ids(local[d]) /\ i \notin Dead(local[d])
    BY <1>1, <1>8 DEF Delete
  <2>2. /\ IsDocument(local'[d]) /\ CountOf(local'[d]) = CountOf(local[d])
        /\ NoteOf(local'[d]) = NoteOf(local[d])
        /\ Ids(local'[d]) = Ids(local[d]) /\ Dead(local'[d]) = Dead(local[d]) \cup {i}
        /\ ScoreOf(local'[d]) = ScoreOf(local[d])
    BY <2>1, ItemChanged
  <2>3. counted' = counted /\ scored' = scored /\ added' = added /\ deleted' = deleted \cup {i}
    BY <1>8 DEF Delete
  <2>4. \E v : Change(d, "items", v)
    BY <2>1 DEF ChangeItem
  <2> QED BY <1>1, <1>2, <1>3, <2>1, <2>2, <2>3, <2>4 DEF Adds, Extends
<1> QED BY <1>4, <1>5, <1>6, <1>7, <1>8 DEF DeviceChanges

(***************************************************************************)
(* The invariants behind the properties, and the notes.                    *)
(***************************************************************************)

\* The document to begin with is one.
LEMMA FirstDocument ==
  IsDocument(First) /\ NoteOf(First) = 0 /\ CountOf(First) = 1
<1> DEFINE s == <<Item(Old)>>
<1>1. ItemsOf(First) = s /\ IsArr(First.obj["items"])
  BY DEF First, ItemsOf, Obj, Arr, IsArr
<1>2. IsItem(Item(Old)) /\ IdOf(Item(Old)) = Old
  BY DEF Item, IsItem, IdOf, IsObj, Obj, Num
<1>3. DOMAIN s = 1..1 /\ Len(s) = 1 /\ s[1] = Item(Old) /\ \A m \in 1..1 : m = 1
  OBVIOUS
<1>4. s \in Seq(ToSet(s))
  <2>1. s \in Seq({Item(Old)})
    OBVIOUS
  <2> QED BY <2>1, OwnElements
<1> HIDE DEF s
<1>5. AreItems(s) /\ Item(Old) \in ToSet(s)
  BY <1>2, <1>3, <1>4 DEF AreItems, ToSet
<1>6. Old \in Ids(First)
  BY <1>1, <1>2, <1>5 DEF Ids
<1>7. /\ IsObj(First) /\ DOMAIN First.obj = {"count", "note", "items"}
      /\ First.obj["count"] = Num(1) /\ First.obj["note"] = Num(0)
  BY DEF First, Obj, IsObj
<1> QED BY <1>1, <1>5, <1>6, <1>7 DEF IsDocument, NoteOf, CountOf, Num

\* The invariants hold at the beginning, ...
LEMMA DocumentsInit == MergedInit => DocumentsOK /\ MergedInv
<1> SUFFICES ASSUME MergedInit PROVE DocumentsOK /\ MergedInv
  OBVIOUS
<1>1. IsDocument(First) /\ NoteOf(First) = 0 /\ Extends(First, First)
  BY FirstDocument, ExtendsItself
<1>2. known \in [Devices -> 1..version]
  BY DEF MergedInit
<1>3. DocumentsOK
  <2>1. /\ counted \in 0..changes /\ scored \in 0..changes
        /\ changes \in 0..MaxChanges /\ faults \in 0..MaxFaults
    BY MergedProgressAssumption DEF MergedInit
  <2>2. version \in Nat \ {0} /\ added \in SUBSET Items /\ deleted \in SUBSET (Items \cup {Old})
    BY DEF MergedInit
  <2>3. /\ IsDocument(payload) /\ DOMAIN base = Devices /\ DOMAIN local = Devices
        /\ \A d \in Devices : IsDocument(base[d]) /\ IsDocument(local[d])
    BY <1>1 DEF MergedInit
  <2> QED BY <1>2, <2>1, <2>2, <2>3 DEF DocumentsOK, MergedInit
<1>4. MergedInv
  BY <1>1 DEF MergedInit, MergedInv
<1> QED BY <1>3, <1>4

\* ... after a change of a device's document, ...
LEMMA AddsOK ==
  ASSUME DocumentsOK, MergedInv, NEW d \in Devices, Adds(d)
  PROVE  DocumentsOK' /\ MergedInv'
<1>1. DocumentsOK'
  <2>1. \A e \in Devices : IsDocument(base'[e]) /\ IsDocument(local'[e])
    BY DEF DocumentsOK, Adds
  <2>2. counted' \in 0..changes' /\ scored' \in 0..changes' /\ changes' \in 0..MaxChanges
    BY MergedProgressAssumption DEF DocumentsOK, Adds
  <2>3. added' \in SUBSET Items /\ deleted' \in SUBSET (Items \cup {Old})
    BY DEF Adds
  <2> QED BY <2>1, <2>2, <2>3 DEF DocumentsOK, Adds
<1>2. changes \in Int /\ changes' = changes + 1
  BY DEF DocumentsOK, Adds
<1>3. NoteOf(payload') <= changes'
  <2>1. NoteOf(payload) \in Int /\ NoteOf(payload) <= changes /\ payload' = payload
    BY DocumentNumbers DEF DocumentsOK, MergedInv, Adds
  <2> QED BY <1>2, <2>1
<1>4. ASSUME NEW e \in Devices
      PROVE  /\ known'[e] = version' => base'[e] = payload'
             /\ Extends(base'[e], local'[e])
             /\ NoteOf(local'[e]) <= changes'
  <2>1. known'[e] = version' => base'[e] = payload'
    BY DEF MergedInv, Adds
  <2>2. CASE e = d
    <3>1. Extends(base[d], local[d]) /\ Extends(local[d], local'[d])
          /\ IsDocument(base[d]) /\ IsDocument(local[d]) /\ IsDocument(local'[d])
          /\ base' = base /\ NoteOf(local'[d]) <= changes + 1
      BY DEF MergedInv, DocumentsOK, Adds
    <3>2. Extends(base[d], local'[d])
      BY <3>1, ExtendsFurther
    <3> QED BY <1>2, <2>1, <2>2, <3>1, <3>2
  <2>3. CASE e # d
    <3>1. /\ local'[e] = local[e] /\ base' = base /\ Extends(base[e], local[e])
          /\ NoteOf(local[e]) <= changes /\ NoteOf(local[e]) \in Int
      BY <2>3, DocumentNumbers DEF MergedInv, DocumentsOK, Adds
    <3> QED BY <1>2, <2>1, <3>1
  <2> QED BY <2>2, <2>3
<1> QED BY <1>1, <1>3, <1>4 DEF MergedInv

\* What a merge makes of the device's document.
MergesIn(d) ==
  /\ IsDocument(Merged(d)) /\ Extends(payload, Merged(d))
  /\ NoteOf(Merged(d)) \in {NoteOf(local[d]), NoteOf(payload)}
  /\ Ids(local[d]) \ Ids(base[d]) \subseteq Ids(Merged(d))
  /\ Dead(local[d]) \ Dead(base[d]) \subseteq Dead(Merged(d))
  /\ CountOf(Merged(d)) = Increments(CountOf(base[d]), CountOf(local[d]), CountOf(payload))
  /\ ScoreOf(Merged(d)) = Increments(ScoreOf(base[d]), ScoreOf(local[d]), ScoreOf(payload))

\* It does so whenever a device may merge.
LEMMA MergeOfDevice ==
  ASSUME DocumentsOK, MergedInv, NEW d \in Devices
  PROVE  MergesIn(d)
<1>1. /\ IsDocument(base[d]) /\ IsDocument(local[d]) /\ IsDocument(payload)
      /\ Extends(base[d], local[d])
  BY DEF DocumentsOK, MergedInv
<1> DEFINE b == base[d]
           l == local[d]
           m == Merged(d)
<1>2. m = MergeDocuments(b, l, payload, Timestamps(l), Timestamps(payload))
  BY DEF Merged
<1> HIDE DEF b, l, m
<1>3. /\ IsDocument(m) /\ Extends(payload, m)
      /\ NoteOf(m) \in {NoteOf(l), NoteOf(payload)}
      /\ Ids(l) \ Ids(b) \subseteq Ids(m) /\ Dead(l) \ Dead(b) \subseteq Dead(m)
      /\ CountOf(m) = Increments(CountOf(b), CountOf(l), CountOf(payload))
      /\ ScoreOf(m) = Increments(ScoreOf(b), ScoreOf(l), ScoreOf(payload))
  BY <1>1, <1>2, DocumentsMerge DEF b, l
<1> QED BY <1>3 DEF MergesIn, b, l, m

\* ... after a request, ...
LEMMA RequestsOK ==
  ASSUME DocumentsOK, MergedInv, NEW d \in Devices,
         Store(d) \/ StoreUnheard(d) \/ MergeIn(d)
  PROVE  DocumentsOK' /\ MergedInv'
<1>1. /\ version \in Nat \ {0} /\ known \in [Devices -> 1..version] /\ IsDocument(payload)
      /\ DOMAIN base = Devices /\ DOMAIN local = Devices
      /\ \A e \in Devices : IsDocument(base[e]) /\ IsDocument(local[e])
      /\ faults \in 0..MaxFaults
  BY DEF DocumentsOK
<1>2. /\ NoteOf(payload) <= changes
      /\ \A e \in Devices : /\ known[e] = version => base[e] = payload
                            /\ Extends(base[e], local[e]) /\ NoteOf(local[e]) <= changes
  BY DEF MergedInv
<1>3. \A e \in Devices : known[e] \in 1..version
  BY <1>1
<1>4. CASE Store(d)
  <2>1. /\ version' = version + 1 /\ payload' = local[d] /\ local' = local
        /\ known' = [known EXCEPT ![d] = version + 1]
        /\ base' = [base EXCEPT ![d] = local[d]]
        /\ UNCHANGED <<counted, scored, added, deleted, alike, changes, faults>>
    BY <1>4 DEF Store, Rewrite, history
  <2>2. known' \in [Devices -> 1..version']
    <3>1. \A e \in Devices : known'[e] \in 1..version + 1
      BY <1>1, <1>3, <2>1
    <3> QED BY <1>1, <2>1, <3>1
  <2>3. DOMAIN base' = Devices /\ base'[d] = local[d]
        /\ \A e \in Devices : e # d => base'[e] = base[e]
    BY <1>1, <2>1
  <2>4. DocumentsOK'
    BY <1>1, <2>1, <2>2, <2>3 DEF DocumentsOK
  <2>5. \A e \in Devices : e # d => known'[e] # version'
    BY <1>1, <1>3, <2>1
  <2>6. \A e \in Devices : Extends(base'[e], local'[e])
    BY <1>1, <1>2, <2>1, <2>3, ExtendsItself
  <2> QED BY <1>2, <2>1, <2>3, <2>4, <2>5, <2>6 DEF MergedInv
<1>5. CASE StoreUnheard(d)
  <2>1. /\ version' = version + 1 /\ payload' = local[d] /\ local' = local
        /\ known' = known /\ base' = base /\ faults < MaxFaults /\ faults' = faults + 1
        /\ UNCHANGED <<counted, scored, added, deleted, alike, changes>>
    BY <1>5 DEF StoreUnheard, Rewrite, history, copies
  <2>2. known' \in [Devices -> 1..version'] /\ faults' \in 0..MaxFaults
    <3>1. \A e \in Devices : known'[e] \in 1..version + 1
      BY <1>1, <1>3, <2>1
    <3> QED BY <1>1, <2>1, <3>1, MergedProgressAssumption
  <2>3. DocumentsOK'
    BY <1>1, <2>1, <2>2 DEF DocumentsOK
  <2>4. \A e \in Devices : known'[e] # version'
    BY <1>1, <1>3, <2>1
  <2> QED BY <1>2, <2>1, <2>3, <2>4 DEF MergedInv
<1>6. CASE MergeIn(d)
  <2>1. /\ version' = version /\ payload' = payload
        /\ known' = [known EXCEPT ![d] = version]
        /\ base' = [base EXCEPT ![d] = payload]
        /\ local' = [local EXCEPT ![d] = Merged(d)] /\ alike' \in BOOLEAN
        /\ UNCHANGED <<counted, scored, added, deleted, changes, faults>>
    BY <1>6 DEF MergeIn, row
  <2>2. known' \in [Devices -> 1..version']
    BY <1>1, <2>1
  <2>3. /\ DOMAIN base' = Devices /\ base'[d] = payload
        /\ DOMAIN local' = Devices /\ local'[d] = Merged(d)
        /\ \A e \in Devices : e # d => base'[e] = base[e] /\ local'[e] = local[e]
    BY <1>1, <2>1
  <2>4. MergesIn(d)
    BY MergeOfDevice
  <2>5. DocumentsOK'
    BY <1>1, <2>1, <2>2, <2>3, <2>4 DEF DocumentsOK, MergesIn
  <2>6. \A e \in Devices : Extends(base'[e], local'[e]) /\ NoteOf(local'[e]) <= changes'
    BY <1>2, <2>1, <2>3, <2>4 DEF MergesIn
  <2>7. \A e \in Devices : known'[e] = version' => base'[e] = payload'
    BY <1>1, <1>2, <2>1, <2>3
  <2> QED BY <1>2, <2>1, <2>5, <2>6, <2>7 DEF MergedInv
<1> QED BY <1>4, <1>5, <1>6

\* ... and so after every step.
LEMMA DocumentsNext ==
  ASSUME DocumentsOK, MergedInv, [MergedNext]_mergedVars
  PROVE  DocumentsOK' /\ MergedInv'
<1>1. CASE UNCHANGED mergedVars
  BY <1>1 DEF mergedVars, DocumentsOK, MergedInv
<1>2. ASSUME NEW d \in Devices, DeviceChanges(d)
      PROVE  DocumentsOK' /\ MergedInv'
  BY <1>2, ChangesAdd, AddsOK
<1>3. ASSUME NEW d \in Devices, Store(d) \/ StoreUnheard(d) \/ MergeIn(d)
      PROVE  DocumentsOK' /\ MergedInv'
  BY <1>3, RequestsOK
<1> QED BY <1>1, <1>2, <1>3 DEF MergedNext, DeviceChanges

\* Types: whatever the devices store and merge, they and the row hold documents,
\* with every item once; and devices only add to what they have in common.
THEOREM DocumentTypes == MergedSpec => [](DocumentsOK /\ MergedInv)
<1>1. MergedInit => DocumentsOK /\ MergedInv
  BY DocumentsInit
<1>2. (DocumentsOK /\ MergedInv) /\ [MergedNext]_mergedVars => (DocumentsOK /\ MergedInv)'
  BY DocumentsNext
<1> QED BY <1>1, <1>2, PTL DEF MergedSpec

\* The note of the row only changes for a later one (mergeWithTimestamps with
\* PutProgress).
THEOREM NotesForward == MergedSpec => NotesGoForward
<1>1. DocumentsOK /\ MergedInv /\ [MergedNext]_mergedVars
        => [NoteOf(payload') >= NoteOf(payload)]_payload
  <2> SUFFICES ASSUME DocumentsOK, MergedInv, [MergedNext]_mergedVars, payload' # payload
               PROVE  NoteOf(payload') >= NoteOf(payload)
    OBVIOUS
  <2>1. \A d \in Devices : ~DeviceChanges(d) /\ ~MergeIn(d)
    BY ChangesAdd DEF Adds, MergeIn, row
  <2>2. PICK d \in Devices : Rewrite(d)
    BY <2>1 DEF MergedNext, DeviceChanges, mergedVars, Store, StoreUnheard
  <2>3. payload' = local[d] /\ Extends(payload, local[d])
    BY <2>2 DEF Rewrite, MergedInv
  <2>4. NoteOf(payload) \in Int /\ NoteOf(local[d]) \in Int
    BY DocumentNumbers DEF DocumentsOK
  <2> QED BY <2>3, <2>4 DEF Extends
<1> QED BY <1>1, DocumentTypes, PTL DEF MergedSpec, NotesGoForward

(***************************************************************************)
(* Items and tombstones.                                                   *)
(***************************************************************************)

\* At the beginning nothing was added, ...
LEMMA ItemsInit == MergedInit => ItemsKept
BY DEF MergedInit, ItemsKept

\* ... and no step loses an item or a tombstone: what is stored had merged the
\* row, and what is merged stays on the device.
LEMMA ItemsNext ==
  ASSUME DocumentsOK, MergedInv, ItemsKept, [MergedNext]_mergedVars
  PROVE  ItemsKept'
<1> DEFINE New(d) == Ids(local[d]) \ Ids(base[d])
           NewDead(d) == Dead(local[d]) \ Dead(base[d])
<1>1. /\ \A i \in added : i \in Ids(payload) \/ \E d \in Devices : i \in New(d)
      /\ \A i \in deleted : i \in Dead(payload) \/ \E d \in Devices : i \in NewDead(d)
  BY DEF ItemsKept
<1>2. \A d \in Devices : Ids(base[d]) \subseteq Ids(local[d]) /\ Dead(base[d]) \subseteq Dead(local[d])
  BY DEF MergedInv, Extends
<1>3. SUFFICES
        /\ \A i \in added' : i \in Ids(payload') \/ \E d \in Devices : i \in New(d)'
        /\ \A i \in deleted' : i \in Dead(payload') \/ \E d \in Devices : i \in NewDead(d)'
  BY DEF ItemsKept
<1>4. CASE UNCHANGED mergedVars
  BY <1>1, <1>4 DEF mergedVars
<1>5. ASSUME NEW d \in Devices, DeviceChanges(d)
      PROVE  /\ \A i \in added' : i \in Ids(payload') \/ \E e \in Devices : i \in New(e)'
             /\ \A i \in deleted' : i \in Dead(payload') \/ \E e \in Devices : i \in NewDead(e)'
  <2>1. /\ payload' = payload /\ base' = base
        /\ \A e \in Devices : e # d => local'[e] = local[e]
        /\ Ids(local[d]) \subseteq Ids(local'[d]) /\ Dead(local[d]) \subseteq Dead(local'[d])
        /\ added' \subseteq added \cup (Ids(local'[d]) \ Ids(local[d]))
        /\ deleted' \subseteq deleted \cup (Dead(local'[d]) \ Dead(local[d]))
    BY <1>5, ChangesAdd DEF Adds, Extends
  <2>2. \A e \in Devices : New(e) \subseteq New(e)' /\ NewDead(e) \subseteq NewDead(e)'
    BY <2>1
  <2>3. /\ Ids(local'[d]) \ Ids(local[d]) \subseteq New(d)'
        /\ Dead(local'[d]) \ Dead(local[d]) \subseteq NewDead(d)'
    BY <1>2, <2>1
  <2> HIDE DEF New, NewDead
  <2> QED BY <1>1, <2>1, <2>2, <2>3
<1>6. ASSUME NEW d \in Devices, Rewrite(d), local' = local, added' = added, deleted' = deleted,
             DOMAIN base' = Devices, \A e \in Devices : e # d => base'[e] = base[e]
      PROVE  /\ \A i \in added' : i \in Ids(payload') \/ \E e \in Devices : i \in New(e)'
             /\ \A i \in deleted' : i \in Dead(payload') \/ \E e \in Devices : i \in NewDead(e)'
  <2>1. /\ payload' = local[d] /\ base[d] = payload
        /\ Ids(payload) \subseteq Ids(local[d]) /\ Dead(payload) \subseteq Dead(local[d])
    BY <1>2, <1>6 DEF Rewrite, MergedInv
  <2>2. \A e \in Devices : e # d => New(e)' = New(e) /\ NewDead(e)' = NewDead(e)
    BY <1>6
  <2>3. New(d) \subseteq Ids(payload') /\ NewDead(d) \subseteq Dead(payload')
    BY <2>1
  <2> HIDE DEF New, NewDead
  <2> QED BY <1>1, <1>6, <2>1, <2>2, <2>3
<1>7. ASSUME NEW d \in Devices, MergeIn(d)
      PROVE  /\ \A i \in added' : i \in Ids(payload') \/ \E e \in Devices : i \in New(e)'
             /\ \A i \in deleted' : i \in Dead(payload') \/ \E e \in Devices : i \in NewDead(e)'
  <2>1. /\ payload' = payload /\ added' = added /\ deleted' = deleted
        /\ local'[d] = Merged(d) /\ base'[d] = payload
        /\ \A e \in Devices : e # d => local'[e] = local[e] /\ base'[e] = base[e]
    BY <1>7 DEF MergeIn, row, DocumentsOK
  <2>2. MergesIn(d)
    BY MergeOfDevice
  <2>3. /\ New(d) \subseteq Ids(payload') \cup New(d)'
        /\ NewDead(d) \subseteq Dead(payload') \cup NewDead(d)'
    BY <2>1, <2>2 DEF MergesIn
  <2>4. \A e \in Devices : e # d => New(e)' = New(e) /\ NewDead(e)' = NewDead(e)
    BY <2>1
  <2> HIDE DEF New, NewDead
  <2> QED BY <1>1, <2>1, <2>3, <2>4
<1>8. ASSUME NEW d \in Devices, Store(d) \/ StoreUnheard(d)
      PROVE  /\ Rewrite(d) /\ local' = local /\ added' = added /\ deleted' = deleted
             /\ DOMAIN base' = Devices /\ \A e \in Devices : e # d => base'[e] = base[e]
  BY <1>8 DEF Store, StoreUnheard, history, copies, DocumentsOK
<1> HIDE DEF New, NewDead
<1> QED BY <1>4, <1>5, <1>6, <1>7, <1>8 DEF MergedNext, DeviceChanges

\* No item and no tombstone is dropped on its way to the row (mergeField's
\* arrays), for any number of devices and items.
THEOREM ItemsAreKept == MergedSpec => []ItemsKept
<1>1. MergedInit => ItemsKept
  BY ItemsInit
<1>2. DocumentsOK /\ MergedInv /\ ItemsKept /\ [MergedNext]_mergedVars => ItemsKept'
  BY ItemsNext
<1> QED BY <1>1, <1>2, DocumentTypes, PTL DEF MergedSpec

(***************************************************************************)
(* Increments.                                                             *)
(***************************************************************************)

\* IncrementsKept of one counter: of its values in the row and, on each device,
\* since the device read or stored the row, against how often it was increased.
Counting(sum, times) == ~alike => sum >= times /\ (faults = 0 => sum = times)

\* What the sums are of.
LEMMA CountersAreInt ==
  ASSUME DocumentsOK
  PROVE  /\ CountOf(payload) \in Int /\ ScoreOf(payload) \in Int
         /\ \A d \in Devices : /\ CountOf(local[d]) \in Int /\ CountOf(base[d]) \in Int
                               /\ ScoreOf(local[d]) \in Int /\ ScoreOf(base[d]) \in Int
<1>1. IsDocument(payload) /\ \A d \in Devices : IsDocument(base[d]) /\ IsDocument(local[d])
  BY DEF DocumentsOK
<1> QED BY <1>1, DocumentNumbers

\* What the row and the devices know of the two counters.
CountSum ==
  CountOf(payload) - CountOf(First)
    + SumFunctionOnSet([d \in Devices |-> CountOf(local[d]) - CountOf(base[d])], Devices)

ScoreSum ==
  ScoreOf(payload) - ScoreOf(First)
    + SumFunctionOnSet([d \in Devices |-> ScoreOf(local[d]) - ScoreOf(base[d])], Devices)

\* IncrementsKept says it of both.
LEMMA KeptBySums ==
  /\ IncrementsKept <=> Counting(CountSum, counted) /\ Counting(ScoreSum, scored)
  /\ IncrementsKept' <=> Counting(CountSum, counted)' /\ Counting(ScoreSum, scored)'
<1>1. Known(CountOf) = CountSum /\ Known(ScoreOf) = ScoreSum
  BY DEF Known, CountSum, ScoreSum
<1>2. Known(CountOf)' = CountSum' /\ Known(ScoreOf)' = ScoreSum'
  BY DEF Known, CountSum, ScoreSum
<1>3. IncrementsKept <=>
        (~alike => /\ Known(CountOf) >= counted /\ Known(ScoreOf) >= scored
                   /\ faults = 0 => Known(CountOf) = counted /\ Known(ScoreOf) = scored)
  BY DEF IncrementsKept
<1>4. IncrementsKept' <=>
        (~alike' => /\ Known(CountOf)' >= counted' /\ Known(ScoreOf)' >= scored'
                    /\ faults' = 0 => Known(CountOf)' = counted' /\ Known(ScoreOf)' = scored')
  BY DEF IncrementsKept
<1>5. IncrementsKept <=> Counting(CountSum, counted) /\ Counting(ScoreSum, scored)
  BY <1>1, <1>3 DEF Counting
<1>6. IncrementsKept' <=> Counting(CountSum, counted)' /\ Counting(ScoreSum, scored)'
  BY <1>2, <1>4 DEF Counting
<1> QED BY <1>5, <1>6

\* How they move with the row and one device's documents.
LEMMA SumsMove ==
  ASSUME DocumentsOK, DocumentsOK', NEW d \in Devices,
         \A e \in Devices : e # d => local'[e] = local[e] /\ base'[e] = base[e]
  PROVE  /\ CountSum \in Int /\ ScoreSum \in Int
         /\ CountSum' = CountSum + (CountOf(payload') - CountOf(payload))
                          + ((CountOf(local'[d]) - CountOf(base'[d])) - (CountOf(local[d]) - CountOf(base[d])))
         /\ ScoreSum' = ScoreSum + (ScoreOf(payload') - ScoreOf(payload))
                          + ((ScoreOf(local'[d]) - ScoreOf(base'[d])) - (ScoreOf(local[d]) - ScoreOf(base[d])))
<1>1. CountOf(First) \in Int /\ ScoreOf(First) \in Int
  BY FirstDocument, DocumentNumbers
<1>2. /\ CountOf(payload) \in Int /\ ScoreOf(payload) \in Int
      /\ \A e \in Devices : /\ CountOf(local[e]) \in Int /\ CountOf(base[e]) \in Int
                            /\ ScoreOf(local[e]) \in Int /\ ScoreOf(base[e]) \in Int
  BY CountersAreInt
<1>3. /\ CountOf(payload') \in Int /\ ScoreOf(payload') \in Int
      /\ CountOf(local'[d]) \in Int /\ CountOf(base'[d]) \in Int
      /\ ScoreOf(local'[d]) \in Int /\ ScoreOf(base'[d]) \in Int
  <2>1. IsDocument(payload') /\ IsDocument(local'[d]) /\ IsDocument(base'[d])
    BY DEF DocumentsOK
  <2> QED BY <2>1, DocumentNumbers
<1> DEFINE g == [e \in Devices |-> CountOf(local[e]) - CountOf(base[e])]
           h == [e \in Devices |-> CountOf(local'[e]) - CountOf(base'[e])]
           u == [e \in Devices |-> ScoreOf(local[e]) - ScoreOf(base[e])]
           w == [e \in Devices |-> ScoreOf(local'[e]) - ScoreOf(base'[e])]
<1>4. /\ \A e \in Devices : g[e] \in Int /\ u[e] \in Int
      /\ \A e \in Devices \ {d} : h[e] = g[e] /\ w[e] = u[e]
      /\ h[d] \in Int /\ w[d] \in Int
  BY <1>2, <1>3
<1>5. /\ g[d] = CountOf(local[d]) - CountOf(base[d])
      /\ h[d] = CountOf(local'[d]) - CountOf(base'[d])
      /\ u[d] = ScoreOf(local[d]) - ScoreOf(base[d])
      /\ w[d] = ScoreOf(local'[d]) - ScoreOf(base'[d])
  OBVIOUS
<1>6. /\ CountSum = CountOf(payload) - CountOf(First) + SumFunctionOnSet(g, Devices)
      /\ CountSum' = CountOf(payload') - CountOf(First) + SumFunctionOnSet(h, Devices)
      /\ ScoreSum = ScoreOf(payload) - ScoreOf(First) + SumFunctionOnSet(u, Devices)
      /\ ScoreSum' = ScoreOf(payload') - ScoreOf(First) + SumFunctionOnSet(w, Devices)
  BY DEF CountSum, ScoreSum
<1> HIDE DEF g, h, u, w
<1>7. /\ CountSum \in Int
      /\ CountSum' = CountSum + (CountOf(payload') - CountOf(payload)) + (h[d] - g[d])
  <2> DEFINE p == CountOf(payload)
             q == CountOf(payload')
             f == CountOf(First)
  <2>1. p \in Int /\ q \in Int /\ f \in Int
    BY <1>1, <1>2, <1>3
  <2>2. /\ CountSum = p - f + SumFunctionOnSet(g, Devices)
        /\ CountSum' = q - f + SumFunctionOnSet(h, Devices)
    BY <1>6
  <2> HIDE DEF p, q, f
  <2> DEFINE G == SumFunctionOnSet(g, Devices)
             H == SumFunctionOnSet(h, Devices)
  <2>3. G \in Int /\ H \in Int /\ H = G + h[d] - g[d]
    BY <1>4, SumUpdate, MergedProgressAssumption
  <2>4. CountSum = p - f + G /\ CountSum' = q - f + H
    BY <2>2
  <2> HIDE DEF G, H
  <2> QED BY <1>4, <2>1, <2>3, <2>4 DEF p, q
<1>8. /\ ScoreSum \in Int
      /\ ScoreSum' = ScoreSum + (ScoreOf(payload') - ScoreOf(payload)) + (w[d] - u[d])
  <2> DEFINE p == ScoreOf(payload)
             q == ScoreOf(payload')
             f == ScoreOf(First)
  <2>1. p \in Int /\ q \in Int /\ f \in Int
    BY <1>1, <1>2, <1>3
  <2>2. /\ ScoreSum = p - f + SumFunctionOnSet(u, Devices)
        /\ ScoreSum' = q - f + SumFunctionOnSet(w, Devices)
    BY <1>6
  <2> HIDE DEF p, q, f
  <2> DEFINE G == SumFunctionOnSet(u, Devices)
             H == SumFunctionOnSet(w, Devices)
  <2>3. G \in Int /\ H \in Int /\ H = G + w[d] - u[d]
    BY <1>4, SumUpdate, MergedProgressAssumption
  <2>4. ScoreSum = p - f + G /\ ScoreSum' = q - f + H
    BY <2>2
  <2> HIDE DEF G, H
  <2> QED BY <1>4, <2>1, <2>3, <2>4 DEF p, q
<1> QED BY <1>5, <1>7, <1>8

\* At the beginning both sums are 0, ...
LEMMA IncrementsInit == MergedInit => IncrementsKept
<1> SUFFICES ASSUME MergedInit PROVE IncrementsKept
  OBVIOUS
<1> DEFINE g == [d \in Devices |-> CountOf(local[d]) - CountOf(base[d])]
           u == [d \in Devices |-> ScoreOf(local[d]) - ScoreOf(base[d])]
<1>1. CountOf(First) \in Int /\ ScoreOf(First) \in Int
  BY FirstDocument, DocumentNumbers
<1>2. \A d \in Devices : g[d] = 0 /\ u[d] = 0
  <2>1. \A d \in Devices : local[d] = First /\ base[d] = First
    BY DEF MergedInit
  <2>2. CountOf(First) - CountOf(First) = 0 /\ ScoreOf(First) - ScoreOf(First) = 0
    BY <1>1
  <2> QED BY <2>1, <2>2
<1>3. CountSum = CountOf(payload) - CountOf(First) + SumFunctionOnSet(g, Devices)
  BY DEF CountSum
<1>4. ScoreSum = ScoreOf(payload) - ScoreOf(First) + SumFunctionOnSet(u, Devices)
  BY DEF ScoreSum
<1> HIDE DEF g, u
<1>5. SumFunctionOnSet(g, Devices) = 0 /\ SumFunctionOnSet(u, Devices) = 0
  BY <1>2, SumZero, MergedProgressAssumption
<1>6. CountSum = 0 /\ ScoreSum = 0
  BY <1>1, <1>3, <1>4, <1>5 DEF MergedInit
<1>7. Counting(CountSum, counted) /\ Counting(ScoreSum, scored)
  BY <1>6 DEF Counting, MergedInit
<1> QED BY <1>7, KeptBySums

\* ... a change moves them with the history, a store or a merge not at all, and
\* a store that the device did not hear of only up.
LEMMA IncrementsNext ==
  ASSUME DocumentsOK, MergedInv, DocumentsOK', IncrementsKept, [MergedNext]_mergedVars
  PROVE  IncrementsKept'
<1> DEFINE Kept == Counting(CountSum, counted)' /\ Counting(ScoreSum, scored)'
<1>1. Counting(CountSum, counted) /\ Counting(ScoreSum, scored)
  BY KeptBySums
<1>2. /\ CountOf(payload) \in Int /\ ScoreOf(payload) \in Int
      /\ \A d \in Devices : /\ CountOf(local[d]) \in Int /\ CountOf(base[d]) \in Int
                            /\ ScoreOf(local[d]) \in Int /\ ScoreOf(base[d]) \in Int
      /\ counted \in Int /\ scored \in Int /\ faults \in Nat
  BY CountersAreInt, MergedProgressAssumption DEF DocumentsOK
<1>3. ASSUME UNCHANGED mergedVars PROVE Kept
  <2>1. /\ UNCHANGED <<counted, scored, alike, faults>>
        /\ CountSum' = CountSum /\ ScoreSum' = ScoreSum
    BY <1>3 DEF mergedVars, CountSum, ScoreSum
  <2> QED BY <1>1, <2>1 DEF Counting
<1>4. ASSUME NEW d \in Devices, DeviceChanges(d) PROVE Kept
  <2>1. /\ payload' = payload /\ base' = base /\ alike' = alike /\ faults' = faults
        /\ \A e \in Devices : e # d => local'[e] = local[e] /\ base'[e] = base[e]
        /\ CountOf(local'[d]) - CountOf(local[d]) = counted' - counted
        /\ ScoreOf(local'[d]) - ScoreOf(local[d]) = scored' - scored
        /\ counted' \in {counted, counted + 1} /\ scored' \in {scored, scored + 1}
    BY <1>4, ChangesAdd DEF Adds
  <2>2. CountOf(local'[d]) \in Int /\ ScoreOf(local'[d]) \in Int
    BY DocumentNumbers DEF DocumentsOK
  <2>3. /\ CountSum \in Int /\ ScoreSum \in Int
        /\ CountSum' = CountSum + (counted' - counted)
        /\ ScoreSum' = ScoreSum + (scored' - scored)
    <3>1. /\ CountSum \in Int /\ ScoreSum \in Int
          /\ CountSum' = CountSum + (CountOf(payload) - CountOf(payload))
               + ((CountOf(local'[d]) - CountOf(base[d])) - (CountOf(local[d]) - CountOf(base[d])))
          /\ ScoreSum' = ScoreSum + (ScoreOf(payload) - ScoreOf(payload))
               + ((ScoreOf(local'[d]) - ScoreOf(base[d])) - (ScoreOf(local[d]) - ScoreOf(base[d])))
      BY <2>1, SumsMove
    <3> QED BY <1>2, <2>1, <2>2, <3>1
  <2>4. counted' \in Int /\ scored' \in Int
    BY <1>2, <2>1
  <2>5. Counting(CountSum, counted)'
    <3>1. (CountSum >= counted => CountSum' >= counted') /\ (CountSum = counted => CountSum' = counted')
      <4> DEFINE s == CountSum
                 t == counted
                 u == CountSum'
                 v == counted'
      <4>1. s \in Int /\ t \in Int /\ v \in Int /\ u = s + (v - t)
        BY <1>2, <2>3, <2>4
      <4> HIDE DEF s, t, u, v
      <4>2. (s >= t => u >= v) /\ (s = t => u = v)
        BY <4>1
      <4> QED BY <4>2 DEF s, t, u, v
    <3> QED BY <1>1, <2>1, <3>1 DEF Counting
  <2>6. Counting(ScoreSum, scored)'
    <3>1. (ScoreSum >= scored => ScoreSum' >= scored') /\ (ScoreSum = scored => ScoreSum' = scored')
      <4> DEFINE s == ScoreSum
                 t == scored
                 u == ScoreSum'
                 v == scored'
      <4>1. s \in Int /\ t \in Int /\ v \in Int /\ u = s + (v - t)
        BY <1>2, <2>3, <2>4
      <4> HIDE DEF s, t, u, v
      <4>2. (s >= t => u >= v) /\ (s = t => u = v)
        BY <4>1
      <4> QED BY <4>2 DEF s, t, u, v
    <3> QED BY <1>1, <2>1, <3>1 DEF Counting
  <2> QED BY <2>5, <2>6
<1>5. ASSUME NEW d \in Devices, Store(d) PROVE Kept
  <2>1. /\ payload' = local[d] /\ base[d] = payload /\ local' = local /\ base'[d] = local[d]
        /\ UNCHANGED <<counted, scored, alike, faults>>
        /\ \A e \in Devices : e # d => local'[e] = local[e] /\ base'[e] = base[e]
    BY <1>5 DEF Store, Rewrite, history, MergedInv, DocumentsOK
  <2>2. /\ CountSum \in Int /\ ScoreSum \in Int
        /\ CountSum' = CountSum + (CountOf(local[d]) - CountOf(payload))
             + ((CountOf(local[d]) - CountOf(local[d])) - (CountOf(local[d]) - CountOf(payload)))
        /\ ScoreSum' = ScoreSum + (ScoreOf(local[d]) - ScoreOf(payload))
             + ((ScoreOf(local[d]) - ScoreOf(local[d])) - (ScoreOf(local[d]) - ScoreOf(payload)))
    BY <2>1, SumsMove
  <2>3. CountSum' = CountSum /\ ScoreSum' = ScoreSum
    BY <1>2, <2>2
  <2> QED BY <1>1, <2>1, <2>3 DEF Counting
<1>6. ASSUME NEW d \in Devices, StoreUnheard(d) PROVE Kept
  <2>1. /\ payload' = local[d] /\ base[d] = payload /\ local' = local /\ base' = base
        /\ UNCHANGED <<counted, scored, alike>> /\ faults' = faults + 1
        /\ CountOf(payload) <= CountOf(local[d]) /\ ScoreOf(payload) <= ScoreOf(local[d])
    BY <1>6 DEF StoreUnheard, Rewrite, history, copies, MergedInv, Extends
  <2>2. /\ CountSum \in Int /\ ScoreSum \in Int
        /\ CountSum' = CountSum + (CountOf(local[d]) - CountOf(payload))
             + ((CountOf(local[d]) - CountOf(payload)) - (CountOf(local[d]) - CountOf(payload)))
        /\ ScoreSum' = ScoreSum + (ScoreOf(local[d]) - ScoreOf(payload))
             + ((ScoreOf(local[d]) - ScoreOf(payload)) - (ScoreOf(local[d]) - ScoreOf(payload)))
    BY <2>1, SumsMove
  <2>3. CountSum' >= CountSum /\ ScoreSum' >= ScoreSum /\ CountSum' \in Int /\ ScoreSum' \in Int
    BY <1>2, <2>1, <2>2
  <2> QED BY <1>1, <1>2, <2>1, <2>2, <2>3 DEF Counting
<1>7. ASSUME NEW d \in Devices, MergeIn(d) PROVE Kept
  <2>1. /\ payload' = payload /\ local'[d] = Merged(d) /\ base'[d] = payload
        /\ UNCHANGED <<counted, scored, faults>>
        /\ \A e \in Devices : e # d => local'[e] = local[e] /\ base'[e] = base[e]
    BY <1>7 DEF MergeIn, row, DocumentsOK
  <2>2. ~alike' => /\ ~alike
                   /\ CountOf(local[d]) = CountOf(payload) => CountOf(local[d]) = CountOf(base[d])
                   /\ ScoreOf(local[d]) = ScoreOf(payload) => ScoreOf(local[d]) = ScoreOf(base[d])
    BY <1>7 DEF MergeIn, Both
  <2>3. /\ CountOf(Merged(d)) = Increments(CountOf(base[d]), CountOf(local[d]), CountOf(payload))
        /\ ScoreOf(Merged(d)) = Increments(ScoreOf(base[d]), ScoreOf(local[d]), ScoreOf(payload))
    BY MergeOfDevice DEF MergesIn
  <2>4. /\ CountSum \in Int /\ ScoreSum \in Int
        /\ CountSum' = CountSum + (CountOf(payload) - CountOf(payload))
             + ((CountOf(Merged(d)) - CountOf(payload)) - (CountOf(local[d]) - CountOf(base[d])))
        /\ ScoreSum' = ScoreSum + (ScoreOf(payload) - ScoreOf(payload))
             + ((ScoreOf(Merged(d)) - ScoreOf(payload)) - (ScoreOf(local[d]) - ScoreOf(base[d])))
    BY <2>1, SumsMove
  <2>5. ~alike' => CountSum' = CountSum /\ ScoreSum' = ScoreSum
    BY <1>2, <2>2, <2>3, <2>4 DEF Increments
  <2> QED BY <1>1, <2>1, <2>2, <2>5 DEF Counting
<1> HIDE DEF Kept
<1>8. UNCHANGED mergedVars => Kept
  BY <1>3
<1>9. Kept
  BY <1>4, <1>5, <1>6, <1>7, <1>8 DEF MergedNext, DeviceChanges
<1> QED BY <1>9, KeptBySums DEF Kept

\* Counters lose no increment unless two devices had reached the same value,
\* and gain none unless an answer got lost (mergeField's sum).
THEOREM IncrementsAreKept == MergedSpec => []IncrementsKept
<1>1. MergedInit => IncrementsKept
  BY IncrementsInit
<1>2. DocumentsOK /\ MergedInv /\ DocumentsOK' /\ IncrementsKept /\ [MergedNext]_mergedVars
        => IncrementsKept'
  BY IncrementsNext
<1> QED BY <1>1, <1>2, DocumentTypes, PTL DEF MergedSpec
=============================================================================
