------------------------------ MODULE FileStore ------------------------------
(***************************************************************************)
(* One user's files: rows of user_files in the database, and the contents  *)
(* in a store on disk or in S3 (internal/httpapi/storage_handlers.go,      *)
(* internal/storage, and HardDelete in internal/auth/service.go).  Every   *)
(* handler works on both, one step after the other, and nothing makes two  *)
(* such steps one.                                                         *)
(*                                                                         *)
(* A definition named after another with a reason added is what a slip in  *)
(* the code would make of it; no specification uses it.                    *)
(***************************************************************************)
EXTENDS Integers, FiniteSets

CONSTANTS Files,     \* storage keys, each made up by one upload
          Handlers,  \* requests that can be in progress at once
          NoFile,    \* a handler is about no file
          MaxFaults  \* bound on failures of store and database and on crashes

ASSUME FileStoreAssumption == NoFile \notin Files /\ MaxFaults \in Nat

VARIABLES
  driver,   \* the configured store: "local" or "s3"
  account,  \* whether the user's row exists
  rows,     \* files with a row in user_files
  blobs,    \* files with contents in the store
  fresh,    \* keys no upload has used
  pc,       \* [Handlers -> stage]
  file,     \* [Handlers -> Files] the file an upload or a deletion is about
  listed,   \* [Handlers -> SUBSET Files] what HardDelete has still to remove
  wanted,   \* history: files whose deletion was asked for
  late,     \* history: files whose row appeared while a HardDelete was running
  faults    \* faults so far

store   == <<driver, blobs>>
work    == <<pc, file, listed>>
history == <<wanted, late>>
vars == <<driver, account, rows, blobs, fresh, pc, file, listed, wanted, late, faults>>

Stages == {"idle", "insert", "undo", "remove", "delete", "wipe", "drop"}

TypeOK ==
  /\ driver \in {"local", "s3"}
  /\ account \in BOOLEAN
  /\ rows \in SUBSET (IF account THEN Files ELSE {})
  /\ blobs \in SUBSET Files /\ fresh \in SUBSET Files
  /\ pc \in [Handlers -> Stages]
  /\ file \in [Handlers -> Files \cup {NoFile}]
  /\ listed \in [Handlers -> SUBSET Files]
  /\ wanted \in SUBSET Files /\ late \in SUBSET Files
  /\ faults \in 0..MaxFaults

Init ==
  /\ driver \in {"local", "s3"}
  /\ account = TRUE
  /\ rows = {} /\ blobs = {} /\ fresh = Files
  /\ pc = [h \in Handlers |-> "idle"]
  /\ file = [h \in Handlers |-> NoFile]
  /\ listed = [h \in Handlers |-> {}]
  /\ wanted = {} /\ late = {}
  /\ faults = 0

Fault == faults < MaxFaults /\ faults' = faults + 1

Turn(h, stage, f) ==
  /\ pc' = [pc EXCEPT ![h] = stage]
  /\ file' = [file EXCEPT ![h] = f]

HardDeleting == \E h \in Handlers : pc[h] \in {"wipe", "drop"}

-----------------------------------------------------------------------------
(* Upload: Put, then INSERT, and Delete if the INSERT fails.               *)

Put(h, f) ==
  /\ pc[h] = "idle" /\ f \in fresh
  /\ fresh' = fresh \ {f}
  /\ blobs' = blobs \cup {f}
  /\ Turn(h, "insert", f)
  /\ UNCHANGED <<driver, account, rows, listed, history, faults>>

\* The local store may leave part of the contents behind.
PutFails(h, f) ==
  /\ pc[h] = "idle" /\ f \in fresh
  /\ Fault
  /\ fresh' = fresh \ {f}
  /\ blobs' \in {blobs, blobs \cup {f}}
  /\ UNCHANGED <<driver, account, rows, work, history>>

Insert(f) ==
  /\ rows' = rows \cup {f}
  /\ late' = IF HardDeleting THEN late \cup {f} ELSE late

\* user_files.user_id references the users row.
Insertable == account

InsertRow(h) ==
  /\ pc[h] = "insert"
  /\ IF Insertable
       THEN Insert(file[h]) /\ Turn(h, "idle", NoFile)
       ELSE Turn(h, "undo", file[h]) /\ UNCHANGED <<rows, late>>
  /\ UNCHANGED <<store, account, fresh, listed, wanted, faults>>

\* The INSERT fails, committed or not.
InsertFails(h) ==
  /\ pc[h] = "insert"
  /\ Fault
  /\ \/ Insertable /\ Insert(file[h])
     \/ UNCHANGED <<rows, late>>
  /\ Turn(h, "undo", file[h])
  /\ UNCHANGED <<store, account, fresh, listed, wanted>>

KeptAfterUndo(f) == blobs
Kept(f) == blobs \ {f}

Undo(h) ==
  /\ pc[h] = "undo"
  /\ blobs' = Kept(file[h])
  /\ Turn(h, "idle", NoFile)
  /\ UNCHANGED <<driver, account, rows, fresh, listed, history, faults>>

-----------------------------------------------------------------------------
(* Delete: SELECT, Delete in the store, DELETE of the row.                 *)

StartDelete(h, f) ==
  /\ pc[h] = "idle" /\ f \in rows
  /\ wanted' = wanted \cup {f}
  /\ Turn(h, "remove", f)
  /\ UNCHANGED <<store, account, rows, fresh, listed, late, faults>>

MissingIsNeverFine == FALSE

\* Removing what is not there is an error on disk and none in S3.
MissingIsFine == driver = "s3"

AfterRemoveNothing == "idle"
AfterRemove == "delete"

RemoveBlob(h) ==
  /\ pc[h] = "remove"
  /\ blobs' = blobs \ {file[h]}
  /\ IF file[h] \in blobs \/ MissingIsFine
       THEN Turn(h, AfterRemove, file[h])
       ELSE Turn(h, "idle", NoFile)
  /\ UNCHANGED <<driver, account, rows, fresh, listed, history, faults>>

DeleteRow(h) ==
  /\ pc[h] = "delete"
  /\ rows' = rows \ {file[h]}
  /\ Turn(h, "idle", NoFile)
  /\ UNCHANGED <<store, account, fresh, listed, history, faults>>

\* The step of an Undo, RemoveBlob or DeleteRow fails, done or not.
StepFails(h) ==
  /\ pc[h] \in {"undo", "remove", "delete"}
  /\ Fault
  /\ \/ pc[h] # "delete" /\ blobs' = blobs \ {file[h]} /\ UNCHANGED rows
     \/ pc[h] = "delete" /\ rows' = rows \ {file[h]} /\ UNCHANGED blobs
     \/ UNCHANGED <<rows, blobs>>
  /\ Turn(h, "idle", NoFile)
  /\ UNCHANGED <<driver, account, fresh, listed, history>>

-----------------------------------------------------------------------------
(* HardDelete: SELECT, Delete of each file in the store, DELETE of the user.*)

\* If the SELECT fails there is nothing to remove.
ListFiles(h) ==
  /\ pc[h] = "idle" /\ account
  /\ \/ listed' = [listed EXCEPT ![h] = rows] /\ UNCHANGED faults
     \/ UNCHANGED listed /\ Fault
  /\ Turn(h, "wipe", NoFile)
  /\ UNCHANGED <<store, account, rows, fresh, history>>

\* The next file; that it cannot be removed is ignored.
WipeOne(h, f) ==
  /\ pc[h] = "wipe" /\ f \in listed[h]
  /\ listed' = [listed EXCEPT ![h] = @ \ {f}]
  /\ \/ blobs' = blobs \ {f} /\ UNCHANGED faults
     \/ UNCHANGED blobs /\ Fault
  /\ UNCHANGED <<driver, account, rows, fresh, pc, file, history>>

WipeDone(h) ==
  /\ pc[h] = "wipe" /\ listed[h] = {}
  /\ Turn(h, "drop", NoFile)
  /\ UNCHANGED <<store, account, rows, fresh, listed, history, faults>>

\* The user's row takes the rows of the files with it.
DropUser(h) ==
  /\ pc[h] = "drop"
  /\ account' = FALSE
  /\ rows' = {}
  /\ Turn(h, "idle", NoFile)
  /\ UNCHANGED <<store, fresh, listed, history, faults>>

\* The transaction fails, as when the user has reviewed AI safety events.
DropFails(h) ==
  /\ pc[h] = "drop"
  /\ Fault
  /\ Turn(h, "idle", NoFile)
  /\ UNCHANGED <<store, account, rows, fresh, listed, history>>

Crash ==
  /\ Fault
  /\ pc' = [h \in Handlers |-> "idle"]
  /\ file' = [h \in Handlers |-> NoFile]
  /\ listed' = [h \in Handlers |-> {}]
  /\ UNCHANGED <<store, account, rows, fresh, history>>

-----------------------------------------------------------------------------
GoesOn(h) ==
  \/ InsertRow(h) \/ Undo(h)
  \/ RemoveBlob(h) \/ DeleteRow(h)
  \/ \E f \in Files : WipeOne(h, f)
  \/ WipeDone(h) \/ DropUser(h)

Next ==
  \/ \E h \in Handlers :
       \/ \E f \in Files : Put(h, f) \/ PutFails(h, f) \/ StartDelete(h, f)
       \/ InsertRow(h) \/ InsertFails(h) \/ Undo(h)
       \/ RemoveBlob(h) \/ DeleteRow(h) \/ StepFails(h)
       \/ ListFiles(h)
       \/ \E f \in Files : WipeOne(h, f)
       \/ WipeDone(h) \/ DropUser(h) \/ DropFails(h)
  \/ Crash

Spec == Init /\ [][Next]_vars

\* Handlers run to their end, and whoever asked for a deletion asks again as
\* long as the file is listed.
Fairness ==
  /\ \A h \in Handlers : WF_vars(GoesOn(h))
  /\ \A f \in Files : SF_vars(f \in wanted /\ \E h \in Handlers : StartDelete(h, f))

FairSpec == Spec /\ Fairness

-----------------------------------------------------------------------------
(* Properties.                                                             *)

\* As long as nothing failed, the contents of every file that is listed are
\* there, or the deletion that removed them is about to remove the row.
RowsHaveBlobs ==
  faults = 0 =>
    \A f \in rows \ blobs :
      HardDeleting \/ \E h \in Handlers : pc[h] = "delete" /\ file[h] = f

\* When nothing failed and nothing is in progress, no contents are left behind
\* without a row, except of uploads that got their row during a HardDelete.
NoOrphans ==
  faults = 0 /\ (\A h \in Handlers : pc[h] = "idle") => blobs \subseteq rows \cup late

\* Whoever goes on asking for the deletion of a file gets rid of it, failures
\* and rival deletions or not; only the local store can keep a row for good,
\* one whose contents are gone.
DeletionCompletes ==
  \A f \in Files :
    f \in wanted ~> f \notin rows \/ (driver = "local" /\ f \notin blobs)

-----------------------------------------------------------------------------
(* What makes the first two inductive.                                     *)

Uploading(h) == pc[h] \in {"insert", "undo"}
Busy(h)      == pc[h] \in {"insert", "undo", "remove", "delete"}

\* No upload makes up a key that is in use anywhere.
KeysInv ==
  /\ rows \cap fresh = {}
  /\ \A h \in Handlers : listed[h] \cap fresh = {}
  /\ \A h \in Handlers : Busy(h) => file[h] \in Files \ fresh

\* What is being uploaded is nobody else's, and there until it has a row.
UploadsInv ==
  faults = 0 =>
    \A h \in Handlers : Uploading(h) =>
      /\ file[h] \notin rows
      /\ pc[h] = "insert" => file[h] \in blobs
      /\ \A g \in Handlers : file[h] \notin listed[g]
      /\ \A g \in Handlers \ {h} : Busy(g) => file[g] # file[h]

\* Whoever is to delete the rows has removed the contents, or will.
ContentsInv ==
  faults = 0 =>
    /\ \A h \in Handlers : pc[h] = "delete" => file[h] \notin blobs
    /\ \A h \in Handlers : pc[h] = "wipe" => rows \cap blobs \subseteq late \cup listed[h]
    /\ \A h \in Handlers : pc[h] = "drop" => rows \cap blobs \subseteq late
    /\ \A f \in blobs \ (rows \cup late) :
         \E h \in Handlers : Uploading(h) /\ file[h] = f
=============================================================================
