---------------------------- MODULE StorageProofs ---------------------------
(***************************************************************************)
(* Proofs about what the server keeps outside of its main tables: about    *)
(* FileStore, for any files, any requests at once and any number of        *)
(* faults, and about ContentCache, for any kinds of content, any readers   *)
(* and writers at once, any number of writes and of losses.  The two share *)
(* no variable.                                                            *)
(***************************************************************************)
EXTENDS FileStore, ContentCache, TLAPS

(***************************************************************************)
(* Files: FileStore.  Its types and keys.                                  *)
(***************************************************************************)

\* The conjuncts of TypeOK but for the rows and the account.
RestOK ==
  /\ driver \in {"local", "s3"}
  /\ blobs \in SUBSET Files /\ fresh \in SUBSET Files
  /\ pc \in [Handlers -> Stages]
  /\ file \in [Handlers -> Files \cup {NoFile}]
  /\ listed \in [Handlers -> SUBSET Files]
  /\ wanted \in SUBSET Files /\ late \in SUBSET Files
  /\ faults \in 0..MaxFaults

\* The rows are those of files, and go with the account.
RowsOK ==
  /\ account \in BOOLEAN
  /\ rows \in SUBSET Files
  /\ ~account => rows = {}

\* Every step keeps the rows with the account.
LEMMA RowsStep == RowsOK /\ KeysInv /\ [Next]_vars => RowsOK'
<1> SUFFICES ASSUME RowsOK, KeysInv, [Next]_vars PROVE RowsOK'
  OBVIOUS
<1> USE DEF RowsOK, store, work, history
<1>1. CASE UNCHANGED <<account, rows>>
  BY <1>1, Zenon
<1>2. ASSUME NEW h \in Handlers, InsertRow(h) \/ InsertFails(h) PROVE RowsOK'
  <2>1. account' = account
    BY <1>2, Zenon DEF InsertRow, InsertFails
  <2>2. rows' = rows \/ (account /\ rows' = rows \cup {file[h]} /\ file[h] \in Files)
    BY <1>2 DEF InsertRow, InsertFails, Insertable, Insert, KeysInv, Busy
  <2> QED BY <2>1, <2>2, Zenon
<1>3. ASSUME NEW h \in Handlers, DeleteRow(h) \/ StepFails(h) PROVE RowsOK'
  <2>1. account' = account
    BY <1>3, Zenon DEF DeleteRow, StepFails
  <2>2. rows' \subseteq rows
    BY <1>3 DEF DeleteRow, StepFails
  <2> QED BY <2>1, <2>2
<1>4. ASSUME NEW h \in Handlers, DropUser(h) PROVE RowsOK'
  BY <1>4, Zenon DEF DropUser
<1>5. CASE UNCHANGED vars
  BY <1>5, <1>1, Zenon DEF vars
<1>6. ASSUME NEW h \in Handlers,
             \/ \E f \in Files : Put(h, f) \/ PutFails(h, f) \/ StartDelete(h, f)
             \/ Undo(h) \/ RemoveBlob(h)
             \/ ListFiles(h) \/ WipeDone(h) \/ DropFails(h)
             \/ \E f \in Files : WipeOne(h, f)
      PROVE  RowsOK'
  <2>1. UNCHANGED <<account, rows>>
    BY <1>6, Zenon DEF Put, PutFails, StartDelete, Undo, RemoveBlob, ListFiles, WipeDone,
                       DropFails, WipeOne
  <2> QED BY <1>1, <2>1
<1>7. CASE Crash
  BY <1>1, <1>7, Zenon DEF Crash
<1> QED BY <1>2, <1>3, <1>4, <1>5, <1>6, <1>7 DEF Next

\* Every step keeps the rest well typed.
LEMMA RestStep == RestOK /\ RowsOK /\ KeysInv /\ [Next]_vars => RestOK'
<1> SUFFICES ASSUME RestOK, RowsOK, KeysInv, [Next]_vars PROVE RestOK'
  OBVIOUS
<1> rows \in SUBSET Files
  BY DEF RowsOK
<1> USE FileStoreAssumption DEF RestOK, Turn, store, work, history
<1> Stages = {"idle", "insert", "undo", "remove", "delete", "wipe", "drop"}
  BY DEF Stages
<1>1. CASE UNCHANGED vars
  BY <1>1 DEF vars
<1>2. ASSUME NEW h \in Handlers, NEW f \in Files, Put(h, f) \/ StartDelete(h, f) PROVE RestOK'
  BY <1>2 DEF Put, StartDelete
<1>3. ASSUME NEW h \in Handlers, NEW f \in Files, PutFails(h, f) PROVE RestOK'
  BY <1>3 DEF PutFails, Fault
<1>4. ASSUME NEW h \in Handlers, InsertRow(h) PROVE RestOK'
  <2>1. late' \in SUBSET Files
    BY <1>4 DEF InsertRow, Insert, KeysInv, Busy
  <2> QED BY <1>4, <2>1 DEF InsertRow
<1>5. ASSUME NEW h \in Handlers, InsertFails(h) PROVE RestOK'
  <2>1. late' \in SUBSET Files
    BY <1>5 DEF InsertFails, Insert, KeysInv, Busy
  <2> QED BY <1>5, <2>1 DEF InsertFails, Fault
<1>6. ASSUME NEW h \in Handlers, Undo(h) \/ DeleteRow(h) PROVE RestOK'
  BY <1>6 DEF Undo, Kept, DeleteRow
<1>7. ASSUME NEW h \in Handlers, RemoveBlob(h) PROVE RestOK'
  BY <1>7 DEF RemoveBlob, AfterRemove
<1>8. ASSUME NEW h \in Handlers, StepFails(h) PROVE RestOK'
  BY <1>8 DEF StepFails, Fault
<1>9. ASSUME NEW h \in Handlers, ListFiles(h) PROVE RestOK'
  BY <1>9 DEF ListFiles, Fault
<1>10. ASSUME NEW h \in Handlers, NEW f \in Files, WipeOne(h, f) PROVE RestOK'
  BY <1>10 DEF WipeOne, Fault
<1>11. ASSUME NEW h \in Handlers, WipeDone(h) \/ DropUser(h) PROVE RestOK'
  BY <1>11 DEF WipeDone, DropUser
<1>12. ASSUME NEW h \in Handlers, DropFails(h) PROVE RestOK'
  BY <1>12 DEF DropFails, Fault
<1>13. CASE Crash
  BY <1>13 DEF Crash, Fault
<1> QED
  BY <1>1, <1>2, <1>3, <1>4, <1>5, <1>6, <1>7, <1>8, <1>9, <1>10, <1>11, <1>12, <1>13
     DEF Next

\* Every step keeps keys that are in use anywhere from being made up again.
LEMMA KeysStep == RestOK /\ RowsOK /\ KeysInv /\ [Next]_vars => KeysInv'
<1> SUFFICES ASSUME RestOK, RowsOK, KeysInv, [Next]_vars PROVE KeysInv'
  OBVIOUS
<1> /\ rows \in SUBSET Files /\ fresh \in SUBSET Files /\ pc \in [Handlers -> Stages]
    /\ file \in [Handlers -> Files \cup {NoFile}] /\ listed \in [Handlers -> SUBSET Files]
  BY DEF RestOK, RowsOK
<1> USE DEF KeysInv, Busy, Turn, store, work, history
<1>1. CASE UNCHANGED vars
  BY <1>1 DEF vars
<1>2. ASSUME NEW h \in Handlers, NEW f \in Files, Put(h, f) PROVE KeysInv'
  BY <1>2 DEF Put
<1>3. ASSUME NEW h \in Handlers, NEW f \in Files, PutFails(h, f) PROVE KeysInv'
  BY <1>3 DEF PutFails
<1>4. ASSUME NEW h \in Handlers, NEW f \in Files, StartDelete(h, f) PROVE KeysInv'
  BY <1>4 DEF StartDelete
<1>5. ASSUME NEW h \in Handlers, InsertRow(h) \/ InsertFails(h) PROVE KeysInv'
  BY <1>5 DEF InsertRow, InsertFails, Insert
<1>6. ASSUME NEW h \in Handlers, Undo(h) \/ DeleteRow(h) \/ StepFails(h) PROVE KeysInv'
  BY <1>6 DEF Undo, DeleteRow, StepFails
<1>7. ASSUME NEW h \in Handlers, RemoveBlob(h) PROVE KeysInv'
  BY <1>7 DEF RemoveBlob, AfterRemove
<1>8. ASSUME NEW h \in Handlers, ListFiles(h) PROVE KeysInv'
  BY <1>8 DEF ListFiles
<1>9. ASSUME NEW h \in Handlers, NEW f \in Files, WipeOne(h, f) PROVE KeysInv'
  BY <1>9 DEF WipeOne
<1>10. ASSUME NEW h \in Handlers, WipeDone(h) \/ DropUser(h) \/ DropFails(h) PROVE KeysInv'
  BY <1>10 DEF WipeDone, DropUser, DropFails
<1>11. CASE Crash
  BY <1>11 DEF Crash
<1> QED
  BY <1>1, <1>2, <1>3, <1>4, <1>5, <1>6, <1>7, <1>8, <1>9, <1>10, <1>11 DEF Next

\* No key is made up twice, whatever fails: what is in use stays out of reach.
THEOREM KeysUsedOnce == Spec => [](RestOK /\ RowsOK /\ KeysInv)
<1>1. Init => RestOK /\ RowsOK /\ KeysInv
  BY FileStoreAssumption DEF Init, RestOK, RowsOK, KeysInv, Busy, Stages
<1> QED BY <1>1, RestStep, RowsStep, KeysStep, PTL DEF Spec

\* Types: what the rows, the store and the requests hold are files; a user
\* without an account has no rows.
THEOREM TypeInvariance == Spec => []TypeOK
<1>1. RestOK /\ RowsOK => TypeOK
  BY DEF RestOK, RowsOK, TypeOK
<1> QED BY <1>1, KeysUsedOnce, PTL

(***************************************************************************)
(* Rows and contents, as long as nothing fails.                            *)
(***************************************************************************)

\* The steps that do not fail.
Works ==
  \E h \in Handlers :
    \/ \E f \in Files : Put(h, f) \/ StartDelete(h, f) \/ WipeOne(h, f)
    \/ InsertRow(h) \/ Undo(h) \/ RemoveBlob(h) \/ DeleteRow(h)
    \/ ListFiles(h) \/ WipeDone(h) \/ DropUser(h)

\* Without a fault so far, the latest step did not fail either.
LEMMA NoFaultYet ==
  ASSUME RestOK, [Next]_vars, faults' = 0
  PROVE  faults = 0 /\ (Works \/ UNCHANGED vars)
<1> faults \in Nat
  BY FileStoreAssumption DEF RestOK
<1>1. CASE UNCHANGED vars
  BY <1>1 DEF vars
<1>2. CASE Next
  <2>1. ASSUME NEW h \in Handlers, NEW f \in Files, PutFails(h, f) PROVE FALSE
    BY <2>1 DEF PutFails, Fault
  <2>2. ASSUME NEW h \in Handlers, InsertFails(h) \/ StepFails(h) \/ DropFails(h) PROVE FALSE
    BY <2>2 DEF InsertFails, StepFails, DropFails, Fault
  <2>3. ASSUME Crash PROVE FALSE
    BY <2>3 DEF Crash, Fault
  <2>4. Works
    <3>1. PICK h \in Handlers :
            \/ \E f \in Files : Put(h, f) \/ PutFails(h, f) \/ StartDelete(h, f)
            \/ InsertRow(h) \/ InsertFails(h) \/ Undo(h)
            \/ RemoveBlob(h) \/ DeleteRow(h) \/ StepFails(h)
            \/ ListFiles(h)
            \/ \E f \in Files : WipeOne(h, f)
            \/ WipeDone(h) \/ DropUser(h) \/ DropFails(h)
      BY <1>2, <2>3, Zenon DEF Next
    <3>2. CASE \E f \in Files : Put(h, f) \/ StartDelete(h, f)
      BY <3>2, Zenon DEF Works
    <3>3. CASE \E f \in Files : WipeOne(h, f)
      BY <3>3, Zenon DEF Works
    <3>4. CASE \/ InsertRow(h) \/ Undo(h) \/ RemoveBlob(h) \/ DeleteRow(h)
               \/ ListFiles(h) \/ WipeDone(h) \/ DropUser(h)
      BY <3>4, Zenon DEF Works
    <3> QED BY <2>1, <2>2, <3>1, <3>2, <3>3, <3>4, Zenon
  <2>5. ASSUME NEW h \in Handlers, NEW f \in Files,
               Put(h, f) \/ StartDelete(h, f) \/ WipeOne(h, f)
        PROVE  faults = 0
    BY <2>5 DEF Put, StartDelete, WipeOne, Fault, history
  <2>6. ASSUME NEW h \in Handlers,
               \/ InsertRow(h) \/ Undo(h) \/ RemoveBlob(h) \/ DeleteRow(h)
               \/ ListFiles(h) \/ WipeDone(h) \/ DropUser(h)
        PROVE  faults = 0
    BY <2>6 DEF InsertRow, Undo, RemoveBlob, DeleteRow, ListFiles, WipeDone, DropUser, Fault,
                history
  <2> QED BY <2>4, <2>5, <2>6 DEF Works
<1> QED BY <1>1, <1>2

\* Every step leaves an upload its key and its contents to itself.
LEMMA UploadsStep ==
  RestOK /\ RowsOK /\ KeysInv /\ UploadsInv /\ [Next]_vars => UploadsInv'
<1> SUFFICES ASSUME RestOK, RowsOK, KeysInv, UploadsInv, [Next]_vars, faults' = 0
             PROVE  UploadsInv'
  BY DEF UploadsInv
<1>a. /\ rows \in SUBSET Files /\ fresh \in SUBSET Files /\ pc \in [Handlers -> Stages]
      /\ file \in [Handlers -> Files \cup {NoFile}] /\ listed \in [Handlers -> SUBSET Files]
      /\ blobs \in SUBSET Files
  BY DEF RestOK, RowsOK
<1>b. faults = 0 /\ (Works \/ UNCHANGED vars)
  BY NoFaultYet
<1> USE <1>a, <1>b
    DEF UploadsInv, KeysInv, Uploading, Busy, Turn, store, work, history
<1>1. CASE UNCHANGED vars
  BY <1>1 DEF vars
<1>2. ASSUME NEW h \in Handlers, NEW f \in Files, Put(h, f) PROVE UploadsInv'
  BY <1>2 DEF Put
<1>3. ASSUME NEW h \in Handlers, NEW f \in Files, StartDelete(h, f) PROVE UploadsInv'
  BY <1>3 DEF StartDelete
<1>4. ASSUME NEW h \in Handlers, InsertRow(h) PROVE UploadsInv'
  BY <1>4 DEF InsertRow, Insert
<1>5. ASSUME NEW h \in Handlers, Undo(h) PROVE UploadsInv'
  BY <1>5 DEF Undo, Kept
<1>6. ASSUME NEW h \in Handlers, RemoveBlob(h) PROVE UploadsInv'
  BY <1>6 DEF RemoveBlob, AfterRemove
<1>7. ASSUME NEW h \in Handlers, DeleteRow(h) PROVE UploadsInv'
  BY <1>7 DEF DeleteRow
<1>8. ASSUME NEW h \in Handlers, ListFiles(h) PROVE UploadsInv'
  BY <1>8 DEF ListFiles
<1>9. ASSUME NEW h \in Handlers, NEW f \in Files, WipeOne(h, f) PROVE UploadsInv'
  BY <1>9 DEF WipeOne
<1>10. ASSUME NEW h \in Handlers, WipeDone(h) \/ DropUser(h) PROVE UploadsInv'
  BY <1>10 DEF WipeDone, DropUser
<1> QED
  BY <1>1, <1>2, <1>3, <1>4, <1>5, <1>6, <1>7, <1>8, <1>9, <1>10 DEF Works

\* Every step that removes contents leaves somebody to remove the row.
LEMMA RowsHaveBlobsStep ==
  RestOK /\ RowsOK /\ UploadsInv /\ RowsHaveBlobs /\ [Next]_vars => RowsHaveBlobs'
<1> SUFFICES ASSUME RestOK, RowsOK, UploadsInv, RowsHaveBlobs, [Next]_vars, faults' = 0
             PROVE  RowsHaveBlobs'
  BY DEF RowsHaveBlobs
<1>a. /\ rows \in SUBSET Files /\ pc \in [Handlers -> Stages]
      /\ file \in [Handlers -> Files \cup {NoFile}] /\ blobs \in SUBSET Files
  BY DEF RestOK, RowsOK
<1>b. faults = 0 /\ (Works \/ UNCHANGED vars)
  BY NoFaultYet
<1> USE <1>a, <1>b DEF RowsHaveBlobs, HardDeleting, Turn, store, work, history
<1>1. CASE UNCHANGED vars
  BY <1>1 DEF vars
<1>2. ASSUME NEW h \in Handlers, NEW f \in Files, Put(h, f) \/ StartDelete(h, f)
      PROVE  RowsHaveBlobs'
  BY <1>2 DEF Put, StartDelete
<1>3. ASSUME NEW h \in Handlers, InsertRow(h) PROVE RowsHaveBlobs'
  BY <1>3 DEF InsertRow, Insert, UploadsInv, Uploading
<1>4. ASSUME NEW h \in Handlers, Undo(h) PROVE RowsHaveBlobs'
  BY <1>4 DEF Undo, Kept, UploadsInv, Uploading
<1>5. ASSUME NEW h \in Handlers, RemoveBlob(h) PROVE RowsHaveBlobs'
  BY <1>5 DEF RemoveBlob, AfterRemove
<1>6. ASSUME NEW h \in Handlers, DeleteRow(h) PROVE RowsHaveBlobs'
  BY <1>6 DEF DeleteRow
<1>7. ASSUME NEW h \in Handlers, ListFiles(h) \/ WipeDone(h) PROVE RowsHaveBlobs'
  BY <1>7 DEF ListFiles, WipeDone
<1>8. ASSUME NEW h \in Handlers, NEW f \in Files, WipeOne(h, f) PROVE RowsHaveBlobs'
  BY <1>8 DEF WipeOne
<1>9. ASSUME NEW h \in Handlers, DropUser(h) PROVE RowsHaveBlobs'
  BY <1>9 DEF DropUser
<1> QED
  BY <1>1, <1>2, <1>3, <1>4, <1>5, <1>6, <1>7, <1>8, <1>9 DEF Works

\* Every step that leaves contents without a row leaves somebody to remove them.
LEMMA ContentsStep ==
  RestOK /\ RowsOK /\ KeysInv /\ UploadsInv /\ ContentsInv /\ [Next]_vars => ContentsInv'
<1> SUFFICES ASSUME RestOK, RowsOK, KeysInv, UploadsInv, ContentsInv, [Next]_vars, faults' = 0
             PROVE  ContentsInv'
  BY DEF ContentsInv
<1>a. /\ rows \in SUBSET Files /\ fresh \in SUBSET Files /\ pc \in [Handlers -> Stages]
      /\ file \in [Handlers -> Files \cup {NoFile}] /\ listed \in [Handlers -> SUBSET Files]
      /\ blobs \in SUBSET Files /\ late \in SUBSET Files
  BY DEF RestOK, RowsOK
<1>b. faults = 0 /\ (Works \/ UNCHANGED vars)
  BY NoFaultYet
<1> USE <1>a, <1>b DEF ContentsInv, Uploading, Turn, store, work, history
<1>1. CASE UNCHANGED vars
  BY <1>1 DEF vars
<1>2. ASSUME NEW h \in Handlers, NEW f \in Files, Put(h, f) PROVE ContentsInv'
  BY <1>2 DEF Put, KeysInv, Busy
<1>3. ASSUME NEW h \in Handlers, NEW f \in Files, StartDelete(h, f) PROVE ContentsInv'
  BY <1>3 DEF StartDelete
<1>4. ASSUME NEW h \in Handlers, InsertRow(h) PROVE ContentsInv'
  BY <1>4 DEF InsertRow, Insert, HardDeleting, UploadsInv
<1>5. ASSUME NEW h \in Handlers, Undo(h) PROVE ContentsInv'
  BY <1>5 DEF Undo, Kept
<1>6. ASSUME NEW h \in Handlers, RemoveBlob(h) PROVE ContentsInv'
  BY <1>6 DEF RemoveBlob, AfterRemove
<1>7. ASSUME NEW h \in Handlers, DeleteRow(h) PROVE ContentsInv'
  BY <1>7 DEF DeleteRow
<1>8. ASSUME NEW h \in Handlers, ListFiles(h) PROVE ContentsInv'
  BY <1>8 DEF ListFiles, Fault
<1>9. ASSUME NEW h \in Handlers, NEW f \in Files, WipeOne(h, f) PROVE ContentsInv'
  BY <1>9 DEF WipeOne, Fault
<1>10. ASSUME NEW h \in Handlers, WipeDone(h) PROVE ContentsInv'
  BY <1>10 DEF WipeDone
<1>11. ASSUME NEW h \in Handlers, DropUser(h) PROVE ContentsInv'
  BY <1>11 DEF DropUser
<1> QED
  BY <1>1, <1>2, <1>3, <1>4, <1>5, <1>6, <1>7, <1>8, <1>9, <1>10, <1>11 DEF Works

\* As long as nothing failed, every file that is listed has its contents, or
\* its row is about to go, however uploads and deletions overlap.
THEOREM ListedFilesExist == Spec => []RowsHaveBlobs
<1>1. Init => UploadsInv /\ RowsHaveBlobs
  BY DEF Init, UploadsInv, Uploading, RowsHaveBlobs
<1> QED BY <1>1, UploadsStep, RowsHaveBlobsStep, KeysUsedOnce, PTL DEF Spec

\* As long as nothing failed, no contents stay behind but those of an upload
\* that got its row during a HardDelete.
THEOREM NothingLeftBehind == Spec => []NoOrphans
<1>1. Init => UploadsInv /\ ContentsInv
  BY DEF Init, UploadsInv, ContentsInv, Uploading
<1>2. ContentsInv => NoOrphans
  BY DEF ContentsInv, NoOrphans, Uploading
<1> QED BY <1>1, <1>2, UploadsStep, ContentsStep, KeysUsedOnce, PTL DEF Spec

(***************************************************************************)
(* What is cached: ContentCache.  Its types.                               *)
(***************************************************************************)

\* What is cached is a function of the keys.
CacheOK == cache = [key \in Keys |-> cache[key]]

\* The conjuncts of TypeOK but for what the answers hold.
CacheRestOK ==
  /\ content \in [Kinds -> 0..MaxWrites]
  /\ rpc \in [Readers -> {"idle", "select", "set"}]
  /\ asked \in [Readers -> Keys]
  /\ wpc \in [Writers -> {"idle", "scan", "delete"}]
  /\ todo \in [Writers -> SUBSET Keys]
  /\ behind \in SUBSET Readers /\ raced \in SUBSET Keys
  /\ losses \in 0..MaxLosses

\* Readers hold a function of themselves.
FoundOK == found = [r \in Readers |-> found[r]]

\* What is cached, and what readers are about to cache, answers the key.
AnswersOK ==
  /\ \A key \in Keys : cache[key] \in Answers(key) \cup {Nothing}
  /\ \A r \in Readers : found[r] \in Answers(asked[r]) \cup {Nothing}

\* What the SELECT returns, broken off or not, is an answer to the key.
LEMMA ViewIsAnswer ==
  ASSUME content \in [Kinds -> 0..MaxWrites],
         NEW key \in Keys, NEW S
  PROVE  /\ View(key) \in Answers(key)
         /\ [k \in Listed(key) |-> IF k \in S THEN content[k] ELSE Partial]
              \in Answers(key)
<1>1. Listed(key) \subseteq Kinds
  BY DEF Listed, Keys
<1>2. \A k \in Listed(key) : content[k] \in Partial..MaxWrites
  BY <1>1, ContentCacheAssumption DEF Partial
<1>3. Partial \in Partial..MaxWrites
  BY ContentCacheAssumption DEF Partial
<1> QED BY <1>2, <1>3 DEF View, Answers

\* Every step keeps these types.
LEMMA CacheRestStep ==
  ASSUME CacheRestOK, [CacheNext]_cacheVars
  PROVE  CacheRestOK'
<1> USE ContentCacheAssumption DEF CacheRestOK, reader, writer
<1>1. CASE UNCHANGED cacheVars
  BY <1>1 DEF cacheVars
<1>2. ASSUME NEW r \in Readers, NEW key \in Keys, Miss(r, key) PROVE CacheRestOK'
  BY <1>2 DEF Miss, Loss
<1>3. ASSUME NEW r \in Readers, Select(r) PROVE CacheRestOK'
  BY <1>3 DEF Select, Loss
<1>4. ASSUME NEW r \in Readers, SelectFails(r) PROVE CacheRestOK'
  BY <1>4 DEF SelectFails, Loss
<1>5. ASSUME NEW r \in Readers, Fill(r) \/ FillFails(r) PROVE CacheRestOK'
  BY <1>5 DEF Fill, FillFails, Done, Loss
<1>6. ASSUME NEW w \in Writers, NEW S, Write(w, S) PROVE CacheRestOK'
  <2>1. content' \in [Kinds -> 0..MaxWrites]
    BY <1>6 DEF Write
  <2> QED BY <1>6, <2>1 DEF Write
<1>7. ASSUME NEW w \in Writers, Scan(w) \/ ScanFails(w) PROVE CacheRestOK'
  BY <1>7 DEF Scan, Scanned, ScanFails, Loss
<1>8. ASSUME NEW w \in Writers, NEW key \in Keys, DeleteKey(w, key)
      PROVE  CacheRestOK'
  BY <1>8 DEF DeleteKey, Loss
<1>9. ASSUME NEW w \in Writers, Invalidated(w) PROVE CacheRestOK'
  BY <1>9 DEF Invalidated
<1>10. ASSUME NEW key \in Keys, Expire(key) PROVE CacheRestOK'
  BY <1>10 DEF Expire
<1>11. CASE Stop
  BY <1>11 DEF Stop, Loss
<1> QED
  BY <1>1, <1>2, <1>3, <1>4, <1>5, <1>6, <1>7, <1>8, <1>9, <1>10, <1>11
     DEF CacheNext, ReaderStep, WriterStep

\* Every step changes what is cached and held key by key and reader by reader.
LEMMA MapsStep ==
  ASSUME CacheOK, FoundOK, HoldsInv, CacheRestOK, [CacheNext]_cacheVars
  PROVE  CacheOK' /\ FoundOK' /\ HoldsInv'
<1> rpc \in [Readers -> {"idle", "select", "set"}] /\ asked \in [Readers -> Keys]
  BY DEF CacheRestOK
<1> USE DEF CacheOK, FoundOK, HoldsInv, reader, writer
<1>1. CASE UNCHANGED cacheVars
  BY <1>1 DEF cacheVars
<1>2. ASSUME NEW r \in Readers, NEW key \in Keys, Miss(r, key)
      PROVE  CacheOK' /\ FoundOK' /\ HoldsInv'
  BY <1>2 DEF Miss
<1>3. ASSUME NEW r \in Readers, Select(r) PROVE CacheOK' /\ FoundOK' /\ HoldsInv'
  <2>1. \E a : found' = [found EXCEPT ![r] = a]
    BY <1>3 DEF Select
  <2> QED BY <1>3, <2>1 DEF Select
<1>4. ASSUME NEW r \in Readers, SelectFails(r)
      PROVE  CacheOK' /\ FoundOK' /\ HoldsInv'
  BY <1>4 DEF SelectFails
<1>5. ASSUME NEW r \in Readers, Fill(r) \/ FillFails(r)
      PROVE  CacheOK' /\ FoundOK' /\ HoldsInv'
  BY <1>5 DEF Fill, FillFails, Done
<1>6. ASSUME NEW w \in Writers, NEW S, Write(w, S)
      PROVE  CacheOK' /\ FoundOK' /\ HoldsInv'
  BY <1>6 DEF Write
<1>7. ASSUME NEW w \in Writers, Scan(w) \/ ScanFails(w) \/ Invalidated(w)
      PROVE  CacheOK' /\ FoundOK' /\ HoldsInv'
  BY <1>7 DEF Scan, ScanFails, Invalidated
<1>8. ASSUME NEW w \in Writers, NEW key \in Keys, DeleteKey(w, key)
      PROVE  CacheOK' /\ FoundOK' /\ HoldsInv'
  BY <1>8 DEF DeleteKey
<1>9. ASSUME NEW key \in Keys, Expire(key)
      PROVE  CacheOK' /\ FoundOK' /\ HoldsInv'
  BY <1>9 DEF Expire
<1>10. CASE Stop
  BY <1>10 DEF Stop
<1> QED
  BY <1>1, <1>2, <1>3, <1>4, <1>5, <1>6, <1>7, <1>8, <1>9, <1>10
     DEF CacheNext, ReaderStep, WriterStep

\* Every step that caches or holds something holds or caches an answer to the
\* key it was asked for.
LEMMA AnswersStep ==
  ASSUME CacheOK, FoundOK, HoldsInv, CacheRestOK,
         AnswersOK, [CacheNext]_cacheVars
  PROVE  AnswersOK'
<1>a. /\ rpc \in [Readers -> {"idle", "select", "set"}] /\ asked \in [Readers -> Keys]
      /\ content \in [Kinds -> 0..MaxWrites]
  BY DEF CacheRestOK
<1> USE <1>a DEF CacheOK, FoundOK, AnswersOK, reader, writer
<1>1. CASE UNCHANGED <<cache, asked, found>>
  BY <1>1
<1>2. ASSUME NEW r \in Readers, NEW key \in Keys, Miss(r, key) PROVE AnswersOK'
  BY <1>2 DEF Miss, HoldsInv
<1>3. ASSUME NEW r \in Readers, Select(r) PROVE AnswersOK'
  <2>1. PICK a \in Answers(asked[r]) : found' = [found EXCEPT ![r] = a]
    BY <1>3, ViewIsAnswer DEF Select
  <2>2. cache' = cache /\ asked' = asked
    BY <1>3 DEF Select
  <2> QED BY <2>1, <2>2
<1>4. ASSUME NEW r \in Readers, Fill(r) \/ FillFails(r) PROVE AnswersOK'
  BY <1>4 DEF Fill, FillFails, Done
<1>5. ASSUME NEW w \in Writers, NEW key \in Keys, DeleteKey(w, key) PROVE AnswersOK'
  BY <1>5 DEF DeleteKey
<1>6. ASSUME NEW key \in Keys, Expire(key) PROVE AnswersOK'
  BY <1>6 DEF Expire
<1>7. CASE Stop
  BY <1>7 DEF Stop
<1>8. ASSUME NEW r \in Readers, SelectFails(r) PROVE AnswersOK'
  BY <1>1, <1>8 DEF SelectFails
<1>9. ASSUME NEW w \in Writers, NEW S,
             Write(w, S) \/ Scan(w) \/ ScanFails(w) \/ Invalidated(w)
      PROVE  AnswersOK'
  BY <1>1, <1>9 DEF Write, Scan, ScanFails, Invalidated
<1>10. CASE UNCHANGED cacheVars
  BY <1>1, <1>10 DEF cacheVars
<1> QED
  BY <1>2, <1>3, <1>4, <1>5, <1>6, <1>7, <1>8, <1>9, <1>10
     DEF CacheNext, ReaderStep, WriterStep

\* Whatever fails, what is cached and held has the shape that its key asks for.
THEOREM WellFormed ==
  CacheSpec => [](CacheOK /\ FoundOK /\ HoldsInv /\ CacheRestOK /\ AnswersOK)
<1>1. CacheInit => CacheOK /\ FoundOK /\ HoldsInv /\ CacheRestOK /\ AnswersOK
  <2> SUFFICES ASSUME CacheInit
               PROVE  CacheOK /\ FoundOK /\ HoldsInv /\ CacheRestOK /\ AnswersOK
    OBVIOUS
  <2>1. CacheOK /\ FoundOK /\ HoldsInv /\ AnswersOK
    BY DEF CacheInit, CacheOK, FoundOK, HoldsInv, AnswersOK
  <2>2. CacheRestOK
    BY ContentCacheAssumption DEF CacheInit, CacheRestOK, Keys
  <2> QED BY <2>1, <2>2
<1> QED BY <1>1, CacheRestStep, MapsStep, AnswersStep, PTL DEF CacheSpec

\* Types: the answer under a key lists the kinds that the key asks for.
THEOREM CacheTypeInvariance ==
  CacheSpec => []CacheTypeOK
<1>1. CacheOK /\ CacheRestOK /\ AnswersOK => CacheTypeOK
  BY DEF CacheOK, CacheRestOK, AnswersOK, CacheTypeOK
<1> QED BY <1>1, WellFormed, PTL

(***************************************************************************)
(* Answers that are out of date, as long as nothing fails.                 *)
(***************************************************************************)

\* Every step that makes an answer out of date leaves a writer to delete it.
LEMMA CacheStep ==
  ASSUME CacheOK, FoundOK, CacheRestOK, CacheInv,
         [CacheNext]_cacheVars
  PROVE  CacheInv'
<1> SUFFICES ASSUME losses' = 0 PROVE CacheInv'
  BY DEF CacheInv
<1>a. /\ rpc \in [Readers -> {"idle", "select", "set"}] /\ asked \in [Readers -> Keys]
      /\ wpc \in [Writers -> {"idle", "scan", "delete"}] /\ todo \in [Writers -> SUBSET Keys]
      /\ behind \in SUBSET Readers /\ raced \in SUBSET Keys /\ losses \in Nat
  BY ContentCacheAssumption DEF CacheRestOK
<1>b. ASSUME content' = content PROVE \A key : View(key)' = View(key)
  BY <1>b DEF View, Listed
<1>c. ASSUME wpc' = wpc, todo' = todo PROVE \A key : Pending(key)' <=> Pending(key)
  BY <1>c DEF Pending
<1> USE <1>a DEF CacheOK, FoundOK, CacheInv, Fresh, reader, writer
<1>1. CASE UNCHANGED cacheVars
  BY <1>1, <1>b, <1>c DEF cacheVars
<1>2. ASSUME NEW r \in Readers, NEW key \in Keys, Miss(r, key) PROVE CacheInv'
  BY <1>2, <1>b, <1>c DEF Miss, Loss
<1>3. ASSUME NEW r \in Readers, Select(r) PROVE CacheInv'
  BY <1>3, <1>b, <1>c DEF Select, Loss
<1>4. ASSUME NEW r \in Readers, SelectFails(r) PROVE CacheInv'
  BY <1>4 DEF SelectFails, Loss
<1>5. ASSUME NEW r \in Readers, Fill(r) PROVE CacheInv'
  BY <1>5, <1>b, <1>c DEF Fill, Done
<1>6. ASSUME NEW r \in Readers, FillFails(r) PROVE CacheInv'
  BY <1>6 DEF FillFails, Loss
<1>7. ASSUME NEW w \in Writers, NEW S, Write(w, S) PROVE CacheInv'
  <2>1. \A key : Pending(key)'
    BY <1>7 DEF Write, Pending
  <2>2. \A r \in Readers : rpc'[r] = "set" => r \in behind'
    BY <1>7 DEF Write
  <2> QED BY <2>1, <2>2
<1>8. ASSUME NEW w \in Writers, Scan(w) PROVE CacheInv'
  <2>1. losses = 0 /\ UNCHANGED <<content, cache, reader, behind, raced>>
    BY <1>8 DEF Scan
  <2>2. \A key \in Keys : cache[key] # Nothing => Pending(key)'
    BY <1>8 DEF Scan, Scanned, Pending
  <2> QED BY <2>1, <2>2, <1>b
<1>9. ASSUME NEW w \in Writers, ScanFails(w) PROVE CacheInv'
  BY <1>9 DEF ScanFails, Loss
<1>10. ASSUME NEW w \in Writers, NEW key \in Keys, DeleteKey(w, key)
       PROVE  CacheInv'
  <2>1. /\ losses = 0 /\ UNCHANGED <<content, reader, behind>>
        /\ cache' = [cache EXCEPT ![key] = Nothing] /\ raced' = raced \ {key}
    BY <1>10 DEF DeleteKey, Loss
  <2>2. \A other \in Keys \ {key} : Pending(other) => Pending(other)'
    BY <1>10 DEF DeleteKey, Pending
  <2> QED BY <2>1, <2>2, <1>b
<1>11. ASSUME NEW w \in Writers, Invalidated(w) PROVE CacheInv'
  <2>1. losses = 0 /\ UNCHANGED <<content, cache, reader, behind, raced>>
    BY <1>11 DEF Invalidated
  <2>2. \A key \in Keys : Pending(key) => Pending(key)'
    BY <1>11 DEF Invalidated, Pending
  <2> QED BY <2>1, <2>2, <1>b
<1>12. ASSUME NEW key \in Keys, Expire(key) PROVE CacheInv'
  BY <1>12, <1>b, <1>c DEF Expire
<1>13. CASE Stop
  BY <1>13 DEF Stop, Loss
<1> QED
  BY <1>1, <1>2, <1>3, <1>4, <1>5, <1>6, <1>7, <1>8, <1>9, <1>10, <1>11, <1>12, <1>13
     DEF CacheNext, ReaderStep, WriterStep

\* Without a fault, and once no writer is on its way, only a race of a fill with
\* a write leaves an answer that is out of date, however many of either run.
THEOREM OnlyRacesAreStale ==
  CacheSpec => []StaleOnlyByRace
<1>1. CacheInit => CacheInv
  BY DEF CacheInit, CacheInv, Fresh
<1>2. CacheInv => StaleOnlyByRace
  BY DEF CacheInv, StaleOnlyByRace, Pending
<1> QED BY <1>1, <1>2, CacheStep, WellFormed, PTL DEF CacheSpec
=============================================================================
