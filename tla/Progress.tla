------------------------------ MODULE Progress ------------------------------
(***************************************************************************)
(* The versioned learning-progress document of one user, kept in the table *)
(* learning_progress and served by GetProgress and PutProgress             *)
(* (internal/sync/handlers.go).                                            *)
(*                                                                         *)
(* The payload is abstracted to the set of edits it contains.  A device    *)
(* answers a conflict by merging what the server holds into its own copy   *)
(* and trying again, and sends one request at a time; when it gives up     *)
(* waiting, the handler of the abandoned request runs on.  Every request   *)
(* has a handler of its own, which makes one or two SQL statements.        *)
(***************************************************************************)
EXTENDS ProgressRow, Integers, FiniteSets

CONSTANTS Requests,   \* slots for PUT requests being handled
          Edits,      \* the edits the devices can make
          Own,        \* [Devices -> SUBSET Edits] those each can make itself
          NoRequest   \* the device is waiting for no answer

ASSUME ProgressAssumption ==
  /\ MaxFaults \in Nat
  /\ NoRequest \notin Requests

VARIABLES
  pc,       \* [Requests -> ...] "idle", "upsert" or "select"
  body,     \* [Requests -> [base, edits]] what the request carries
  waiting,  \* [Devices -> Requests] the request whose answer is awaited
  stored    \* [Devices -> SUBSET Edits] edits the device was told are stored

device == <<waiting, known, local, stored>>
vars   == <<version, payload, pc, body, waiting, known, local, stored, faults>>

NoBody == [base |-> 0, edits |-> {}]

TypeOK ==
  /\ version \in Nat
  /\ payload \in SUBSET Edits
  /\ pc \in [Requests -> {"idle", "upsert", "select"}]
  /\ body \in [Requests -> [base : Nat, edits : SUBSET Edits]]
  /\ waiting \in [Devices -> Requests \cup {NoRequest}]
  /\ known \in [Devices -> Nat]
  /\ local \in [Devices -> SUBSET Edits]
  /\ stored \in [Devices -> SUBSET Edits]
  /\ faults \in 0..MaxFaults

Init ==
  /\ version = 0
  /\ payload = {}
  /\ pc = [r \in Requests |-> "idle"]
  /\ body = [r \in Requests |-> NoBody]
  /\ waiting = [d \in Devices |-> NoRequest]
  /\ known = [d \in Devices |-> 0]
  /\ local = [d \in Devices |-> {}]
  /\ stored = [d \in Devices |-> {}]
  /\ faults = 0

Fault == faults < MaxFaults /\ faults' = faults + 1

-----------------------------------------------------------------------------
(* The devices (not part of the repository).                               *)

\* The user edits the document on device d.
Edit(d, e) ==
  /\ e \in Own[d] \ local[d]
  /\ local' = [local EXCEPT ![d] = @ \cup {e}]
  /\ UNCHANGED <<row, pc, body, waiting, known, stored, faults>>

\* Device d sends its copy when it holds an edit it does not know is stored.
\* Its baseVersion is the version it was last told: 0, as is an omitted field,
\* when it never asked, when there was no row or when a read failed.
Send(d, r) ==
  /\ waiting[d] = NoRequest
  /\ ~(local[d] \subseteq stored[d])
  /\ pc[r] = "idle"
  /\ pc' = [pc EXCEPT ![r] = "upsert"]
  /\ body' = [body EXCEPT ![r] = [base |-> known[d], edits |-> local[d]]]
  /\ waiting' = [waiting EXCEPT ![d] = r]
  /\ UNCHANGED <<row, known, local, stored, faults>>

\* Device d stops waiting: the answer is lost, or comes too late.
GiveUp(d) ==
  /\ waiting[d] # NoRequest
  /\ waiting' = [waiting EXCEPT ![d] = NoRequest]
  /\ Fault
  /\ UNCHANGED <<row, pc, body, known, local, stored>>

\* Device d takes over the server's payload S at version v.
Adopts(d, v, S) ==
  /\ known' = [known EXCEPT ![d] = v]
  /\ local' = [local EXCEPT ![d] = @ \cup S]
  /\ stored' = [stored EXCEPT ![d] = @ \cup S]

\* The handler of r ends with an answer that carries version v and payload S.
\* Only the device still waiting for r, if there is one, takes notice.
Answer(r, v, S) ==
  /\ pc' = [pc EXCEPT ![r] = "idle"]
  /\ body' = [body EXCEPT ![r] = NoBody]
  /\ \/ \E d \in Devices :
          /\ waiting[d] = r
          /\ waiting' = [waiting EXCEPT ![d] = NoRequest]
          /\ Adopts(d, v, S)
     \/ /\ \A d \in Devices : waiting[d] # r
        /\ UNCHANGED device

-----------------------------------------------------------------------------
(* The server.  The definitions that end in a reason are what plausible    *)
(* slips in the code would make of the one that follows; no specification  *)
(* uses them.                                                              *)

CanWriteOverAnyOlderBase(base) == version = 0 \/ base = 0 \/ base <= version
CanWriteOffByOne(base) == version = 0 \/ base = 0 \/ base = version + 1

\* INSERT ... ON CONFLICT (user_id) DO UPDATE ... WHERE $2 = 0 OR version = $2:
\* the statement writes if there is no row or its condition on the row holds.
CanWrite(base) == version = 0 \/ base = 0 \/ base = version

WriteKeepingVersion(S) ==
  /\ version' = IF version = 0 THEN 1 ELSE version
  /\ payload' = S

\* The row after the statement: version 1 when inserted, or one more.
Write(S) ==
  /\ version' = version + 1
  /\ payload' = S

CurrentVersionAsRefused == version + 1

\* What the SELECT reads when it succeeds: 0 and nothing if there is no row.
CurrentVersion == version
CurrentPayload == payload

\* PutProgress: the upsert returns the new version, and the handler answers 200.
PutProgress(r) ==
  /\ pc[r] = "upsert"
  /\ CanWrite(body[r].base)
  /\ Write(body[r].edits)
  /\ Answer(r, version + 1, body[r].edits)
  /\ UNCHANGED faults

\* PutProgress: the upsert returns no row, and the handler goes on to look up
\* the current document.
PutConflict(r) ==
  /\ pc[r] = "upsert"
  /\ ~CanWrite(body[r].base)
  /\ pc' = [pc EXCEPT ![r] = "select"]
  /\ UNCHANGED <<row, body, device, faults>>

\* PutProgress: the upsert fails, before or after the database committed it;
\* the handler treats the error as a conflict.
PutFails(r) ==
  /\ pc[r] = "upsert"
  /\ Fault
  /\ pc' = [pc EXCEPT ![r] = "select"]
  /\ \/ CanWrite(body[r].base) /\ Write(body[r].edits)
     \/ UNCHANGED row
  /\ UNCHANGED <<body, device>>

\* PutProgress: the second statement, whose result the 409 answer carries.
ConflictAnswer(r) ==
  /\ pc[r] = "select"
  /\ Answer(r, CurrentVersion, CurrentPayload)
  /\ UNCHANGED <<row, faults>>

\* PutProgress: the second statement fails too, and the 409 answer says that
\* the document is empty, at version 0.
ConflictAnswerFails(r) ==
  /\ pc[r] = "select"
  /\ Fault
  /\ Answer(r, 0, {})
  /\ UNCHANGED row

\* GetProgress: one statement, and the answer to the device that asked.
GetProgress(d) ==
  /\ waiting[d] = NoRequest
  /\ Adopts(d, CurrentVersion, CurrentPayload)
  /\ UNCHANGED <<row, pc, body, waiting, faults>>

\* GetProgress: every error is answered with 200, {} and version 0.
GetProgressFails(d) ==
  /\ waiting[d] = NoRequest
  /\ Fault
  /\ Adopts(d, 0, {})
  /\ UNCHANGED <<row, pc, body, waiting>>

-----------------------------------------------------------------------------
DeviceStep(d) ==
  \/ \E e \in Edits : Edit(d, e)
  \/ \E r \in Requests : Send(d, r)
  \/ GiveUp(d)
  \/ GetProgress(d)
  \/ GetProgressFails(d)

HandlerStep(r) ==
  \/ PutProgress(r)
  \/ PutConflict(r)
  \/ PutFails(r)
  \/ ConflictAnswer(r)
  \/ ConflictAnswerFails(r)

Next ==
  \/ \E d \in Devices : DeviceStep(d)
  \/ \E r \in Requests : HandlerStep(r)

Spec == Init /\ [][Next]_vars

\* A handler runs to its end, and a device that has something to store sends
\* it when a handler is free.
Fairness ==
  /\ \A r \in Requests : WF_vars(PutProgress(r) \/ PutConflict(r) \/ ConflictAnswer(r))
  /\ \A d \in Devices : WF_vars(\E r \in Requests : Send(d, r))

FairSpec == Spec /\ Fairness

-----------------------------------------------------------------------------
(* Properties.                                                             *)

\* What the README's version protection promises: what a device was once told
\* the server holds, by a 200 or 409 answer of PutProgress or by GetProgress,
\* is not overwritten by another device, a late request or a retry.  The code
\* breaks it: a request with baseVersion 0 overwrites whatever is stored.
StoredStays == \A d \in Devices : stored[d] \subseteq payload

\* A request that overwrites whatever is stored, as its device took the
\* document for empty when it sent it.
Blind(r) == pc[r] = "upsert" /\ body[r].base = 0

\* What the version does protect: an edit leaves the document only when a
\* blind request replaces it.  Whatever else interleaves (late requests,
\* retries, lost answers, devices whose copies went apart), the edits stay.
OnlyBlindErases ==
  [][\/ payload \subseteq payload'
     \/ \E r \in Requests : Blind(r) /\ payload' = body[r].edits]_vars

\* The version is an honest token: whoever carries the current one, a device
\* or a request on its way, has merged everything the row holds.
WriterHasMerged ==
  /\ \A d \in Devices : known[d] = version => payload \subseteq local[d]
  /\ \A r \in Requests :
       pc[r] = "upsert" /\ body[r].base = version => payload \subseteq body[r].edits

\* What makes the two inductive: no version is known or carried that the row
\* never had, only edits of devices travel, and an absent row holds nothing.
RequestSound(r) ==
  /\ body[r].edits \subseteq UNION {local[d] : d \in Devices}
  /\ pc[r] = "upsert" =>
       /\ body[r].base <= version
       /\ body[r].base = version => payload \subseteq body[r].edits

DeviceSound(d) ==
  /\ known[d] <= version
  /\ known[d] = version => payload \subseteq local[d]

RowSound ==
  /\ version = 0 => payload = {}
  /\ payload \subseteq UNION {local[d] : d \in Devices}

IInv ==
  /\ TypeOK
  /\ RowSound
  /\ \A d \in Devices : DeviceSound(d)
  /\ \A r \in Requests : RequestSound(r)

\* The versioned row, the retries and the answers that get lost amount to a
\* document that grows, and that is replaced only by the draft of a device
\* that took it for empty.
Document ==
  INSTANCE SharedDocument
    WITH doc <- payload, rev <- version, made <- local, told <- stored,
         sees <- [d \in Devices |-> known[d] # 0],
         drafts <- {body[r].edits : r \in {q \in Requests : Blind(q)}}
ImplementsDocument == Document!Spec

\* Conflicts do not starve anybody: again and again each device is told of
\* every edit it holds that it is stored, as the 409 answer gives it what it
\* needs for the next attempt.
EditsGetStored == \A d \in Devices : []<>(local[d] \subseteq stored[d])
=============================================================================
