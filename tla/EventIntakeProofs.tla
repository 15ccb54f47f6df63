-------------------------- MODULE EventIntakeProofs --------------------------
(***************************************************************************)
(* Proofs about EventIntake, for any accounts and events: what is accepted *)
(* is stored, retries duplicate only nameless events in doubt, and an      *)
(* erased account leaves nothing.                                          *)
(***************************************************************************)
EXTENDS EventIntake, TLAPS

\* The event's insert has been answered for, and nothing undoes that.
Settled(u, e) ==
  \/ stored[u][e] > 0 \/ u \in erased
  \/ e \in Named /\ \E v \in Users \ {u} : stored[v][e] > 0 \/ v \in erased

\* The request in progress sent the queue; what it neither has left nor failed
\* at is settled.
Progressing ==
  /\ req # Idle => req.batch = queue /\ queue \cap Malformed = {}
  /\ req.left \subseteq req.batch /\ req.failed \subseteq req.batch
  /\ req.left \cap req.failed = {}
  /\ \A e \in req.batch \ (req.left \cup req.failed) : Settled(req.user, e)

Unstored(e) == \A u \in Users : stored[u][e] = 0

StoredOnce(e) ==
  \A u, v \in Users : stored[u][e] <= 1 /\ (stored[u][e] = 1 /\ stored[v][e] = 1 => u = v)

\* An event not in doubt is unstored until its one try that succeeds.
InsertedOnce ==
  /\ \A e \in Payloadless : Unstored(e)
  /\ \A e \in Named : StoredOnce(e)
  /\ \A e \in Nameless \ doubtful :
       /\ StoredOnce(e)
       /\ \A u \in Users : <<u, e>> \notin late
       /\ e \in queue /\ (req = Idle \/ e \in req.left \cup req.failed) => Unstored(e)

IInv == TypeOK /\ Progressing /\ AcceptedIsStored /\ InsertedOnce /\ ErasedLeaveNothing

-----------------------------------------------------------------------------

\* Nothing is stored, accepted or erased at first.
LEMMA InitInvariant == Init => IInv
<1> SUFFICES ASSUME Init PROVE IInv
  OBVIOUS
<1> USE EventIntakeAssumption
<1>1. TypeOK
  BY DEF Init, TypeOK, Events, Count, Idle
<1>2. Progressing /\ AcceptedIsStored /\ ErasedLeaveNothing
  BY DEF Init, Progressing, AcceptedIsStored, ErasedLeaveNothing, Idle
<1>3. \A e \in Events : Unstored(e)
  BY DEF Init, Unstored
<1>4. InsertedOnce
  BY <1>3 DEF Init, InsertedOnce, Unstored, StoredOnce, Events
<1>5. QED BY <1>1, <1>2, <1>4 DEF IInv

\* Counts are numbers.
LEMMA Counts ==
  ASSUME TypeOK, NEW u \in Users, NEW e \in Events
  PROVE  stored[u][e] \in 0..2
BY DEF TypeOK, Count

\* An insert adds the event to the account's row alone, unless its id is taken.
LEMMA InsertAdds ==
  ASSUME IInv, NEW u \in Users, NEW e \in Events, Insert(u, e)
  PROVE  /\ stored' \in [Users -> [Events -> Count]]
         /\ \A v \in Users, f \in Events : v # u \/ f # e => stored'[v][f] = stored[v][f]
         /\ stored'[u][e] = Inserted(u, e)
         /\ \A v \in Users, f \in Events : stored[v][f] > 0 => stored'[v][f] > 0
         /\ stored'[u][e] > 0 \/ (e \in Named /\ \E v \in Users \ {u} : stored[v][e] > 0)
<1>1. Inserted(u, e) \in Count /\ stored[u][e] \in 0..2
  BY Counts DEF IInv, Inserted, OneMore, Count
<1>2. stored' = [stored EXCEPT ![u][e] = Inserted(u, e)]
  BY DEF Insert
<1>3. /\ stored' \in [Users -> [Events -> Count]] /\ stored'[u][e] = Inserted(u, e)
      /\ \A v \in Users, f \in Events : v # u \/ f # e => stored'[v][f] = stored[v][f]
  BY <1>1, <1>2 DEF IInv, TypeOK
<1>4. stored'[u][e] > 0 \/ (e \in Named /\ \E v \in Users \ {u} : stored[v][e] > 0)
  BY <1>1, <1>3 DEF Inserted, OneMore, Taken
<1>5. stored[u][e] > 0 => stored'[u][e] > 0
  BY <1>1, <1>3 DEF Inserted, OneMore
<1>6. QED BY <1>3, <1>4, <1>5

\* What is settled stays settled when rows are only added and accounts only
\* erased.
LEMMA SettledStays ==
  ASSUME NEW u \in Users, NEW e \in Events, Settled(u, e), erased \subseteq erased',
         \A v \in Users : stored[v][e] > 0 => stored'[v][e] > 0 \/ v \in erased'
  PROVE  Settled(u, e)'
BY DEF Settled

\* An event inserted is settled.
LEMMA InsertSettles ==
  ASSUME IInv, NEW u \in Users, NEW e \in Events, Insert(u, e), UNCHANGED erased
  PROVE  Settled(u, e)'
<1>1. CASE stored'[u][e] > 0
  BY <1>1 DEF Settled
<1>2. CASE e \in Named /\ \E v \in Users \ {u} : stored[v][e] > 0
  BY <1>2, InsertAdds DEF Settled
<1>3. QED BY <1>1, <1>2, InsertAdds

\* What an insert does to the counts: it breaks none of the rules if the event
\* was unstored, has an id or is in doubt.
LEMMA InsertKeepsOnce ==
  ASSUME IInv, NEW u \in Users, NEW e \in Events, Insert(u, e),
         e \in Named \/ e \in doubtful' \/ Unstored(e),
         doubtful \subseteq doubtful'
  PROVE  /\ \A f \in Payloadless : Unstored(f)'
         /\ \A f \in Named : StoredOnce(f)'
         /\ \A f \in Nameless \ doubtful' : StoredOnce(f)'
         /\ \A f \in Events : f # e /\ Unstored(f) => Unstored(f)'
<1> USE EventIntakeAssumption
<1>1. e \notin Payloadless
  BY DEF Insert, Insertable
<1>2. \A v \in Users, f \in Events : v # u \/ f # e => stored'[v][f] = stored[v][f]
  BY InsertAdds
<1>3. \A f \in Payloadless : Unstored(f)'
  BY <1>1, <1>2 DEF IInv, InsertedOnce, Unstored
<1>4. \A f \in Events : f # e /\ StoredOnce(f) => StoredOnce(f)'
  BY <1>2 DEF StoredOnce
<1>5. ASSUME Unstored(e) PROVE StoredOnce(e)'
  <2>1. stored'[u][e] = 1
    BY <1>5, InsertAdds DEF Inserted, OneMore, Unstored, Taken
  <2>2. \A v \in Users : v # u => stored'[v][e] = 0
    BY <1>2, <1>5 DEF Unstored
  <2>3. QED BY <2>1, <2>2 DEF StoredOnce
<1>6. ASSUME e \in Named PROVE StoredOnce(e)'
  <2>1. StoredOnce(e)
    BY <1>6 DEF IInv, InsertedOnce
  <2>2. CASE Taken(e)
    BY <1>2, <2>1, <2>2, InsertAdds DEF Inserted, StoredOnce
  <2>3. CASE ~Taken(e)
    BY <1>5, <1>6, <2>3, Counts DEF IInv, Taken, Unstored
  <2>4. QED BY <2>2, <2>3
<1>7. \A f \in Named : StoredOnce(f)'
  BY <1>4, <1>6 DEF IInv, InsertedOnce, Events
<1>8. \A f \in Nameless \ doubtful' : StoredOnce(f)'
  BY <1>4, <1>5 DEF IInv, InsertedOnce, Events
<1>9. \A f \in Events : f # e /\ Unstored(f) => Unstored(f)'
  BY <1>2 DEF Unstored
<1>10. QED BY <1>3, <1>7, <1>8, <1>9

\* An insert for an account that is there keeps the erased ones empty.
LEMMA InsertKeepsErased ==
  ASSUME IInv, NEW u \in Users, NEW e \in Events, Insert(u, e), UNCHANGED <<owner, erased>>
  PROVE  ErasedLeaveNothing'
<1>1. \A v \in Users, f \in Events : v # u \/ f # e => stored'[v][f] = stored[v][f]
  BY InsertAdds
<1>2. CASE u \notin erased
  BY <1>1, <1>2 DEF IInv, TypeOK, ErasedLeaveNothing
<1>3. CASE Taken(e)
  <2>1. stored'[u][e] = stored[u][e]
    BY <1>3, InsertAdds DEF Inserted
  <2>2. QED BY <1>1, <2>1 DEF IInv, TypeOK, ErasedLeaveNothing
<1>4. QED BY <1>2, <1>3 DEF Insert, Insertable

-----------------------------------------------------------------------------

\* Registering and switching change the account and the owner alone.
LEMMA DeviceStep ==
  ASSUME IInv, UNCHANGED <<queue, erased, stored, req, late, accepted, doubtful>>,
         user' \in Users, owner' \in Users \cup {None}, owner' = owner \/ owner' \notin erased
  PROVE  IInv'
<1>1. TypeOK'
  BY DEF IInv, TypeOK
<1>2. Progressing'
  BY DEF IInv, Progressing, Settled
<1>3. AcceptedIsStored'
  BY DEF IInv, AcceptedIsStored
<1>4. InsertedOnce'
  BY DEF IInv, InsertedOnce, StoredOnce, Unstored
<1>5. ErasedLeaveNothing'
  BY DEF IInv, ErasedLeaveNothing
<1>6. QED BY <1>1, <1>2, <1>3, <1>4, <1>5 DEF IInv

\* Erasing an account takes rows away from that account alone.
LEMMA EraseStep ==
  ASSUME IInv, NEW u \in Users, Erase(u)
  PROVE  IInv'
<1> USE EventIntakeAssumption DEF IInv
<1>1. /\ erased' = erased \cup {u} /\ owner' = (IF owner = u THEN None ELSE owner)
      /\ stored' = [stored EXCEPT ![u] = [e \in Events |-> 0]]
      /\ UNCHANGED <<user, queue, req, late, accepted, doubtful>>
  BY DEF Erase
<1>2. stored \in [Users -> [Events -> Count]]
  BY DEF TypeOK
<1>3. \A v \in Users, e \in Events : stored'[v][e] = IF v = u THEN 0 ELSE stored[v][e]
  BY <1>1, <1>2
<1>4. TypeOK'
  <2>1. stored' \in [Users -> [Events -> Count]]
    BY <1>1, <1>2 DEF Count
  <2>2. QED BY <1>1, <2>1 DEF TypeOK
<1>5. \A v \in Users, e \in Events : Settled(v, e) => Settled(v, e)'
  BY <1>1, <1>3, SettledStays
<1>6. Progressing'
  <2>1. req' = req
    BY <1>1
  <2>2. \A e \in req.batch \ (req.left \cup req.failed) : Settled(req.user, e)'
    <3>1. CASE req = Idle
      BY <3>1 DEF Idle
    <3>2. CASE req \in Request
      <4>1. req.user \in Users /\ req.batch \subseteq Events
        BY <3>2 DEF Request
      <4>2. \A e \in req.batch \ (req.left \cup req.failed) : Settled(req.user, e)
        BY DEF Progressing
      <4>3. QED BY <1>5, <2>1, <4>1, <4>2
    <3>3. QED BY <3>1, <3>2 DEF TypeOK
  <2>3. QED BY <1>1, <2>2 DEF Progressing, Settled
<1>7. AcceptedIsStored'
  <2>1. \A p \in accepted : p[1] \in Users /\ p[2] \in Events /\ Settled(p[1], p[2])
    BY DEF AcceptedIsStored, Settled, TypeOK
  <2>2. \A p \in accepted : Settled(p[1], p[2])'
    BY <1>5, <2>1
  <2>3. QED BY <1>1, <2>2 DEF AcceptedIsStored, Settled
<1>8. \A e \in Events : (Unstored(e) => Unstored(e)') /\ (StoredOnce(e) => StoredOnce(e)')
  BY <1>3 DEF Unstored, StoredOnce
<1>9. InsertedOnce'
  BY <1>1, <1>8 DEF InsertedOnce, Events
<1>10. ErasedLeaveNothing'
  BY <1>1, <1>3 DEF ErasedLeaveNothing, TypeOK
<1>11. QED BY <1>4, <1>6, <1>7, <1>9, <1>10

\* A batch is sent with nothing of it done.
LEMMA SendStep ==
  ASSUME IInv, Send
  PROVE  IInv'
<1> USE EventIntakeAssumption DEF IInv
<1>1. /\ req = Idle /\ queue \cap Malformed = {}
      /\ req' = [user |-> user, batch |-> queue, left |-> queue, failed |-> {}]
      /\ UNCHANGED <<user, queue, owner, erased, stored, late, accepted, doubtful>>
  BY DEF Send, Refused
<1>2. TypeOK'
  BY <1>1 DEF TypeOK, Request
<1>3. Progressing'
  BY <1>1 DEF Progressing
<1>4. AcceptedIsStored'
  BY <1>1 DEF AcceptedIsStored
<1>5. InsertedOnce'
  BY <1>1 DEF InsertedOnce, StoredOnce, Unstored
<1>6. ErasedLeaveNothing'
  BY <1>1 DEF ErasedLeaveNothing
<1>7. QED BY <1>2, <1>3, <1>4, <1>5, <1>6

\* The answer takes from the queue what is settled; a nameless event that stays
\* though it did not fail is in doubt.
LEMMA AnswerStep ==
  ASSUME IInv, Answer
  PROVE  IInv'
<1> USE EventIntakeAssumption DEF IInv
<1>1. /\ req # Idle /\ req.left = {} /\ req' = Idle
      /\ queue' = queue \ NotFailed(req)
      /\ accepted' = accepted \cup {<<req.user, e>> : e \in NotFailed(req)}
      /\ doubtful' = doubtful \cup ((req.batch \ (req.failed \cup NotFailed(req))) \cap Anew)
      /\ UNCHANGED <<user, owner, erased, stored, late>>
  BY DEF Answer
<1>2. req \in Request
  BY <1>1 DEF TypeOK
<1>3. NotFailed(req) \subseteq req.batch \ req.failed
  BY DEF NotFailed
<1>4. req.user \in Users /\ req.batch \subseteq Events /\ req.batch = queue
      /\ queue \cap Malformed = {}
  BY <1>1, <1>2 DEF Request, Progressing
<1>5. TypeOK'
  BY <1>1, <1>3, <1>4 DEF TypeOK, Anew
<1>6. Progressing'
  BY <1>1 DEF Progressing, Idle
<1>7. AcceptedIsStored'
  <2>1. \A e \in NotFailed(req) : Settled(req.user, e)
    BY <1>1, <1>3 DEF Progressing
  <2>2. ASSUME NEW p \in accepted' PROVE Settled(p[1], p[2])
    <3>1. CASE p \in accepted
      BY <3>1 DEF AcceptedIsStored, Settled
    <3>2. CASE p \in {<<req.user, e>> : e \in NotFailed(req)}
      BY <3>2, <2>1
    <3>3. QED BY <1>1, <3>1, <3>2
  <2>3. QED BY <1>1, <2>2 DEF AcceptedIsStored, Settled
<1>8. InsertedOnce'
  <2>1. \A e \in Events : Unstored(e)' = Unstored(e) /\ StoredOnce(e)' = StoredOnce(e)
    BY <1>1 DEF Unstored, StoredOnce
  <2>2. ASSUME NEW e \in Nameless \ doubtful', e \in queue'
        PROVE  Unstored(e)
    <3>1. e \in req.batch /\ e \notin NotFailed(req) /\ e \in Nameless \ doubtful
      BY <1>1, <1>4, <2>2
    <3>2. CASE e \in req.failed
      BY <1>1, <1>4, <3>1, <3>2 DEF InsertedOnce
    <3>3. CASE e \notin req.failed
      <4>1. e \notin Anew
        BY <1>1, <2>2, <3>1, <3>3
      <4>2. e \in Payloadless
        BY <1>4, <3>1, <4>1 DEF Anew, Sound, Events
      <4>3. QED BY <4>2 DEF InsertedOnce
    <3>4. QED BY <3>2, <3>3
  <2>3. QED BY <1>1, <2>1, <2>2 DEF InsertedOnce, Events
<1>9. ErasedLeaveNothing'
  BY <1>1 DEF ErasedLeaveNothing
<1>10. QED BY <1>5, <1>6, <1>7, <1>8, <1>9

\* Giving up puts in doubt what the request may still insert anew.
LEMMA GiveUpStep ==
  ASSUME IInv, GiveUp
  PROVE  IInv'
<1> USE EventIntakeAssumption DEF IInv
<1>1. /\ req # Idle /\ req' = Idle
      /\ late' = late \cup {<<req.user, e>> : e \in req.left \ Payloadless}
      /\ doubtful' = doubtful \cup (req.batch \cap Anew)
      /\ UNCHANGED <<user, queue, owner, erased, stored, accepted>>
  BY DEF GiveUp
<1>2. req \in Request
  BY <1>1 DEF TypeOK
<1>3. req.user \in Users /\ req.left \subseteq req.batch /\ req.batch \subseteq Events
      /\ req.batch = queue /\ queue \cap Malformed = {}
  BY <1>1, <1>2 DEF Request, Progressing
<1>4. TypeOK'
  BY <1>1, <1>3 DEF TypeOK, Anew
<1>5. Progressing'
  BY <1>1 DEF Progressing, Idle
<1>6. AcceptedIsStored'
  BY <1>1 DEF AcceptedIsStored
<1>7. InsertedOnce'
  <2>1. \A e \in Events : Unstored(e)' = Unstored(e) /\ StoredOnce(e)' = StoredOnce(e)
    BY <1>1 DEF Unstored, StoredOnce
  <2>2. ASSUME NEW e \in Nameless \ doubtful', e \in queue
        PROVE  e \in Payloadless
    BY <1>1, <1>3, <2>2 DEF Anew, Sound, Events
  <2>3. ASSUME NEW e \in Nameless \ doubtful', NEW u \in Users
        PROVE  <<u, e>> \notin late'
    <3>1. <<u, e>> \notin late
      BY <1>1, <2>3 DEF InsertedOnce
    <3>2. <<u, e>> \notin {<<req.user, f>> : f \in req.left \ Payloadless}
      BY <1>3, <2>2, <2>3
    <3>3. QED BY <1>1, <3>1, <3>2
  <2>4. QED BY <1>1, <2>1, <2>2, <2>3 DEF InsertedOnce, Events
<1>8. ErasedLeaveNothing'
  BY <1>1 DEF ErasedLeaveNothing
<1>9. QED BY <1>4, <1>5, <1>6, <1>7, <1>8

\* An insert of the request settles the event or leaves it failed; a failed one
\* that may have taken effect is in doubt.
LEMMA InsertStep ==
  ASSUME IInv, NEW e \in Events, InsertSucceeds(e) \/ InsertFails(e)
  PROVE  IInv'
<1> USE EventIntakeAssumption
<1>1. /\ e \in req.left /\ req'.left = req.left \ {e}
      /\ req'.user = req.user /\ req'.batch = req.batch /\ req' # Idle /\ req \in Request
      /\ req'.failed \in {req.failed, req.failed \cup {e}} /\ req' \in Request
      /\ UNCHANGED <<user, queue, owner, erased, late, accepted>>
  <2>1. e \in req.left
    BY DEF InsertSucceeds, InsertFails
  <2>2. req \in Request
    BY <2>1 DEF IInv, TypeOK, Idle
  <2>3. \E F \in {req.failed, req.failed \cup {e}} :
          req' = [req EXCEPT !.left = @ \ {e}, !.failed = F]
    BY <2>2 DEF InsertSucceeds, InsertFails, Request
  <2>4. req' \in Request
    BY <2>2, <2>3 DEF Request
  <2>5. req' # Idle
    BY <2>4 DEF Request, Idle
  <2>6. QED BY <2>1, <2>2, <2>3, <2>4, <2>5 DEF InsertSucceeds, InsertFails, Request
<1>2. /\ req.user \in Users /\ req.batch = queue /\ queue \subseteq Events
      /\ e \in queue /\ e \notin req.failed /\ queue \cap Malformed = {}
      /\ req.left \subseteq req.batch /\ req.failed \subseteq req.batch
      /\ req # Idle
  <2>1. req # Idle
    BY <1>1 DEF Idle
  <2>2. QED BY <1>1, <2>1 DEF IInv, TypeOK, Progressing, Request
<1> DEFINE u == req.user
<1>3. \/ Insert(u, e) /\ doubtful' = doubtful /\ req'.failed = req.failed
      \/ /\ Insert(u, e) /\ doubtful' = doubtful \cup ({e} \cap Anew)
         /\ req'.failed = req.failed \cup {e}
      \/ UNCHANGED <<stored, doubtful>> /\ req'.failed = req.failed \cup {e}
  BY <1>1 DEF InsertSucceeds, InsertFails, Request
<1>4. /\ stored' \in [Users -> [Events -> Count]]
      /\ \A v \in Users, f \in Events : stored[v][f] > 0 => stored'[v][f] > 0
      /\ Insert(u, e) => Settled(u, e)'
      /\ doubtful \subseteq doubtful' /\ doubtful' \in SUBSET Anew
  <2>1. CASE Insert(u, e)
    BY <1>1, <1>2, <1>3, <2>1, InsertAdds, InsertSettles DEF IInv, TypeOK
  <2>2. CASE ~Insert(u, e)
    BY <1>3, <2>2 DEF IInv, TypeOK
  <2>3. QED BY <2>1, <2>2
<1>5. TypeOK'
  BY <1>1, <1>4 DEF IInv, TypeOK
<1>6. \A v \in Users, f \in Events : Settled(v, f) => Settled(v, f)'
  BY <1>1, <1>4, SettledStays
<1>7. Progressing'
  <2>1. ASSUME NEW f \in req'.batch \ (req'.left \cup req'.failed) PROVE Settled(u, f)'
    <3>1. CASE f = e
      BY <1>3, <1>4, <2>1, <3>1
    <3>2. CASE f # e
      <4>1. f \in req.batch \ (req.left \cup req.failed)
        BY <1>1, <2>1, <3>2
      <4>2. Settled(u, f)
        BY <4>1 DEF IInv, Progressing
      <4>3. f \in Events
        BY <1>2, <4>1
      <4>4. QED BY <1>1, <1>2, <1>6, <4>2, <4>3
    <3>3. QED BY <3>1, <3>2
  <2>2. /\ req'.left \subseteq req'.batch /\ req'.failed \subseteq req'.batch
        /\ req'.left \cap req'.failed = {}
    BY <1>1, <1>2 DEF IInv, Progressing
  <2>3. \A f \in req'.batch \ (req'.left \cup req'.failed) : Settled(req.user, f)'
    BY <1>1, <2>1
  <2>4. QED BY <1>1, <1>2, <2>2, <2>3 DEF Progressing, Settled
<1>8. AcceptedIsStored'
  <2>1. \A p \in accepted : p[1] \in Users /\ p[2] \in Events /\ Settled(p[1], p[2])
    BY DEF IInv, AcceptedIsStored, Settled, TypeOK
  <2>2. \A p \in accepted : Settled(p[1], p[2])'
    BY <1>6, <2>1
  <2>3. QED BY <1>1, <2>2 DEF AcceptedIsStored, Settled
<1>9. InsertedOnce'
  <2>1. CASE Insert(u, e) /\ ~UNCHANGED <<stored, doubtful>>
    <3>1. e \in Named \/ e \in doubtful \/ Unstored(e)
      BY <1>1, <1>2 DEF IInv, InsertedOnce, Events
    <3>2. /\ \A f \in Payloadless : Unstored(f)'
          /\ \A f \in Named : StoredOnce(f)'
          /\ \A f \in Nameless \ doubtful' : StoredOnce(f)'
          /\ \A f \in Events : f # e /\ Unstored(f) => Unstored(f)'
      BY <1>2, <1>4, <2>1, <3>1, InsertKeepsOnce
    <3>3. ASSUME NEW f \in Nameless \ doubtful', f \in queue', f \in req'.left \cup req'.failed
          PROVE  Unstored(f)'
      <4>1. f # e
        <5>1. e \in Sound
          BY <1>2, <2>1 DEF Insert, Insertable, Sound
        <5>2. CASE req'.failed = req.failed
          BY <1>1, <1>2, <3>3, <5>2
        <5>3. CASE doubtful' = doubtful \cup ({e} \cap Anew)
          BY <3>3, <5>1, <5>3 DEF Anew
        <5>4. QED BY <1>3, <2>1, <5>2, <5>3
      <4>2. f \in req.left \cup req.failed /\ f \in queue
        BY <1>1, <3>3, <4>1
      <4>3. Unstored(f)
        BY <1>4, <3>3, <4>2 DEF IInv, InsertedOnce
      <4>4. QED BY <3>2, <4>1, <4>3 DEF Events
    <3>4. QED BY <1>1, <1>4, <3>2, <3>3 DEF IInv, InsertedOnce
  <2>2. CASE UNCHANGED <<stored, doubtful>>
    <3>1. \A f \in Events : Unstored(f)' = Unstored(f) /\ StoredOnce(f)' = StoredOnce(f)
      BY <2>2 DEF Unstored, StoredOnce
    <3>2. req'.left \cup req'.failed \subseteq req.left \cup req.failed
      BY <1>1
    <3>3. QED BY <1>1, <1>2, <2>2, <3>1, <3>2 DEF IInv, InsertedOnce, Events
  <2>3. QED BY <1>3, <2>1, <2>2
<1>10. ErasedLeaveNothing'
  <2>1. CASE Insert(u, e)
    BY <1>1, <1>2, <2>1, InsertKeepsErased
  <2>2. CASE UNCHANGED stored
    BY <1>1, <2>2 DEF IInv, ErasedLeaveNothing
  <2>3. QED BY <1>3, <2>1, <2>2
<1>11. QED BY <1>5, <1>7, <1>8, <1>9, <1>10 DEF IInv

\* What a request given up on still inserts has an id or is in doubt.
LEMMA LateStep ==
  ASSUME IInv, NEW u \in Users, NEW e \in Events, LateInsert(u, e)
  PROVE  IInv'
<1> USE EventIntakeAssumption
<1>1. /\ <<u, e>> \in late /\ Insert(u, e) /\ late' = late \ {<<u, e>>}
      /\ UNCHANGED <<user, queue, owner, erased, req, accepted, doubtful>>
  BY DEF LateInsert
<1>2. /\ stored' \in [Users -> [Events -> Count]]
      /\ \A v \in Users, f \in Events : stored[v][f] > 0 => stored'[v][f] > 0
  BY <1>1, InsertAdds
<1>3. TypeOK'
  BY <1>1, <1>2 DEF IInv, TypeOK
<1>4. \A v \in Users, f \in Events : Settled(v, f) => Settled(v, f)'
  BY <1>1, <1>2, SettledStays
<1>5. Progressing'
  <2>1. req' = req
    BY <1>1
  <2>2. \A f \in req.batch \ (req.left \cup req.failed) : Settled(req.user, f)'
    <3>1. CASE req = Idle
      BY <3>1 DEF Idle
    <3>2. CASE req \in Request
      <4>1. req.user \in Users /\ req.batch \subseteq Events
        BY <3>2 DEF Request
      <4>2. \A f \in req.batch \ (req.left \cup req.failed) : Settled(req.user, f)
        BY DEF IInv, Progressing
      <4>3. QED BY <1>4, <2>1, <4>1, <4>2
    <3>3. QED BY <3>1, <3>2 DEF IInv, TypeOK
  <2>3. QED BY <1>1, <2>2 DEF IInv, Progressing, Settled
<1>6. AcceptedIsStored'
  <2>1. \A p \in accepted : p[1] \in Users /\ p[2] \in Events /\ Settled(p[1], p[2])
    BY DEF IInv, AcceptedIsStored, Settled, TypeOK
  <2>2. \A p \in accepted : Settled(p[1], p[2])'
    BY <1>4, <2>1
  <2>3. QED BY <1>1, <2>2 DEF AcceptedIsStored, Settled
<1>7. InsertedOnce'
  <2>1. e \in Named \/ e \in doubtful
    BY <1>1 DEF IInv, InsertedOnce, Events
  <2>2. /\ \A f \in Payloadless : Unstored(f)'
        /\ \A f \in Named : StoredOnce(f)'
        /\ \A f \in Nameless \ doubtful' : StoredOnce(f)'
        /\ \A f \in Events : f # e /\ Unstored(f) => Unstored(f)'
    BY <1>1, <2>1, InsertKeepsOnce
  <2>3. \A f \in Nameless \ doubtful : f # e
    BY <2>1
  <2>4. QED BY <1>1, <2>2, <2>3 DEF IInv, InsertedOnce, Events
<1>8. ErasedLeaveNothing'
  BY <1>1, InsertKeepsErased
<1>9. QED BY <1>3, <1>5, <1>6, <1>7, <1>8 DEF IInv

-----------------------------------------------------------------------------

\* Every step preserves the invariant.
LEMMA StepInvariant == IInv /\ [Next]_vars => IInv'
<1> SUFFICES ASSUME IInv, [Next]_vars PROVE IInv'
  OBVIOUS
<1> USE EventIntakeAssumption
<1>1. CASE RegisterDevice
  BY <1>1, DeviceStep DEF RegisterDevice, IInv, TypeOK
<1>2. ASSUME NEW u \in Users, SwitchAccount(u) PROVE IInv'
  BY <1>2, DeviceStep DEF SwitchAccount, IInv, TypeOK
<1>3. ASSUME NEW u \in Users, Erase(u) PROVE IInv'
  BY <1>3, EraseStep
<1>4. CASE Send
  BY <1>4, SendStep
<1>5. ASSUME NEW e \in Events, InsertSucceeds(e) \/ InsertFails(e) PROVE IInv'
  BY <1>5, InsertStep
<1>6. CASE Answer
  BY <1>6, AnswerStep
<1>7. CASE GiveUp
  BY <1>7, GiveUpStep
<1>8. ASSUME NEW u \in Users, NEW e \in Events, LateInsert(u, e) PROVE IInv'
  BY <1>8, LateStep
<1>9. CASE UNCHANGED vars
  BY <1>9, DeviceStep DEF vars, IInv, TypeOK
<1>10. QED BY <1>1, <1>2, <1>3, <1>4, <1>5, <1>6, <1>7, <1>8, <1>9 DEF Next

\* The invariant holds of every behaviour of requests, erasures and retries.
THEOREM Inductive == Spec => []IInv
<1>1. Init => IInv
  BY InitInvariant
<1>2. IInv /\ [Next]_vars => IInv'
  BY StepInvariant
<1>3. QED BY <1>1, <1>2, PTL DEF Spec

\* Every variable keeps its type.
THEOREM TypeInvariance == Spec => []TypeOK
<1>1. IInv => TypeOK
  BY DEF IInv
<1>2. QED BY Inductive, <1>1, PTL

\* What AppendEvents answered as accepted is in the account's log, unless the
\* account was erased or another one had the id.
THEOREM NothingAcceptedIsLost == Spec => []AcceptedIsStored
<1>1. IInv => AcceptedIsStored
  BY DEF IInv
<1>2. QED BY Inductive, <1>1, PTL

\* Retries never store an event twice, but for one without an id whose earlier
\* try had an unknown outcome.
THEOREM RetriesAreSafe == Spec => []RetriesInsertOnce
<1>1. IInv => RetriesInsertOnce
  BY DEF IInv, InsertedOnce, StoredOnce, RetriesInsertOnce, Events
<1>2. QED BY Inductive, <1>1, PTL

\* Nothing a request in progress does brings rows back to an erased account.
THEOREM ErasureIsFinal == Spec => []ErasedLeaveNothing
<1>1. IInv => ErasedLeaveNothing
  BY DEF IInv
<1>2. QED BY Inductive, <1>1, PTL
=============================================================================
