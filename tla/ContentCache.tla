---------------------------- MODULE ContentCache ----------------------------
(***************************************************************************)
(* The published content and its cache in Redis (internal/content): readers*)
(* fill the cache from the database, writers change the database and then  *)
(* delete every cached answer, and answers expire.                         *)
(*                                                                         *)
(* The rows of a kind are abstracted to how often they were written.  An   *)
(* answer lists one kind, or all of them when the request names none; it   *)
(* has Partial for a kind of which rows are missing.                       *)
(*                                                                         *)
(* The names here are others than in FileStore, so that one module can     *)
(* speak of both.                                                          *)
(*                                                                         *)
(* A definition named after another with a reason added is what a slip in  *)
(* the code would make of it; no specification uses it.                    *)
(***************************************************************************)
EXTENDS Integers, FiniteSets

CONSTANTS Kinds,      \* the kinds of content
          All,        \* the key of the answer that lists all kinds
          Nothing,    \* no answer
          Readers,    \* requests for published content in progress at once
          Writers,    \* administrators' requests in progress at once
          MaxWrites,  \* bound on the writes of a kind
          MaxLosses   \* bound on failed Redis commands and crashes

ASSUME ContentCacheAssumption ==
  /\ All \notin Kinds
  /\ MaxWrites \in Nat /\ MaxLosses \in Nat

Keys == Kinds \cup {All}

Partial == -1

Listed(key)  == IF key = All THEN Kinds ELSE {key}
Answers(key) == [Listed(key) -> Partial..MaxWrites]

VARIABLES
  content,  \* [Kinds -> Nat] the rows of content_items, by their writes
  cache,    \* [Keys -> answer] "k12edu:content:published:<kind>" in Redis
  rpc,      \* [Readers -> stage]
  asked,    \* [Readers -> Keys] the kind asked for
  found,    \* [Readers -> answer] what the SELECT returned
  wpc,      \* [Writers -> stage]
  todo,     \* [Writers -> SUBSET Keys] keys the SCAN returned
  behind,   \* history: readers whose SELECT is older than the latest write
  raced,    \* history: keys filled by such a reader
  losses    \* faults so far

reader == <<rpc, asked, found>>
writer == <<wpc, todo>>
cacheVars == <<content, cache, rpc, asked, found, wpc, todo, behind, raced, losses>>

CacheTypeOK ==
  /\ content \in [Kinds -> 0..MaxWrites]
  /\ DOMAIN cache = Keys
  /\ \A key \in Keys : cache[key] \in Answers(key) \cup {Nothing}
  /\ rpc \in [Readers -> {"idle", "select", "set"}]
  /\ asked \in [Readers -> Keys]
  /\ \A r \in Readers : found[r] \in Answers(asked[r]) \cup {Nothing}
  /\ wpc \in [Writers -> {"idle", "scan", "delete"}]
  /\ todo \in [Writers -> SUBSET Keys]
  /\ behind \in SUBSET Readers /\ raced \in SUBSET Keys
  /\ losses \in 0..MaxLosses

CacheInit ==
  /\ content = [k \in Kinds |-> 0]
  /\ cache = [key \in Keys |-> Nothing]
  /\ rpc = [r \in Readers |-> "idle"]
  /\ asked = [r \in Readers |-> All]
  /\ found = [r \in Readers |-> Nothing]
  /\ wpc = [w \in Writers |-> "idle"]
  /\ todo = [w \in Writers |-> {}]
  /\ behind = {} /\ raced = {}
  /\ losses = 0

Loss == losses < MaxLosses /\ losses' = losses + 1

-----------------------------------------------------------------------------
(* Published.                                                              *)

\* What the SELECT returns for a key.
View(key) == [k \in Listed(key) |-> content[k]]

\* The GET finds no answer, or fails; a hit changes nothing.
Miss(r, key) ==
  /\ rpc[r] = "idle"
  /\ \/ cache[key] = Nothing /\ UNCHANGED losses
     \/ Loss
  /\ rpc' = [rpc EXCEPT ![r] = "select"]
  /\ asked' = [asked EXCEPT ![r] = key]
  /\ UNCHANGED <<content, cache, found, writer, behind, raced>>

\* An error that ends the rows early goes unnoticed: rows.Err is not read.
Select(r) ==
  /\ rpc[r] = "select"
  /\ rpc' = [rpc EXCEPT ![r] = "set"]
  /\ \/ found' = [found EXCEPT ![r] = View(asked[r])] /\ UNCHANGED losses
     \/ \E S \in SUBSET Listed(asked[r]) :
          /\ Loss
          /\ found' = [found EXCEPT ![r] =
               [k \in Listed(asked[r]) |-> IF k \in S THEN content[k] ELSE Partial]]
  /\ behind' = behind \ {r}
  /\ UNCHANGED <<content, cache, asked, writer, raced>>

\* The query fails: 500.
SelectFails(r) ==
  /\ rpc[r] = "select"
  /\ Loss
  /\ rpc' = [rpc EXCEPT ![r] = "idle"]
  /\ UNCHANGED <<content, cache, asked, found, writer, behind, raced>>

\* The answer is served when this step is done, or has failed.
Done(r) ==
  /\ rpc' = [rpc EXCEPT ![r] = "idle"]
  /\ found' = [found EXCEPT ![r] = Nothing]
  /\ UNCHANGED <<content, asked, writer, behind>>

Fill(r) ==
  /\ rpc[r] = "set"
  /\ cache' = [cache EXCEPT ![asked[r]] = found[r]]
  /\ raced' = IF r \in behind THEN raced \cup {asked[r]} ELSE raced \ {asked[r]}
  /\ Done(r)
  /\ UNCHANGED losses

FillFails(r) ==
  /\ rpc[r] = "set"
  /\ Loss
  /\ Done(r)
  /\ UNCHANGED <<cache, raced>>

-----------------------------------------------------------------------------
(* Create, Update and Delete, and InvalidateAll.                           *)

\* A statement that changes one kind, or two when it moves an item.
Write(w, S) ==
  /\ wpc[w] = "idle"
  /\ \A k \in S : content[k] < MaxWrites
  /\ content' = [k \in Kinds |-> IF k \in S THEN content[k] + 1 ELSE content[k]]
  /\ wpc' = [wpc EXCEPT ![w] = "scan"]
  /\ behind' = {r \in Readers : rpc[r] = "set"}
  /\ UNCHANGED <<cache, reader, todo, raced, losses>>

ScannedKindsOnly == {key \in Kinds : cache[key] # Nothing}
Scanned == {key \in Keys : cache[key] # Nothing}

Scan(w) ==
  /\ wpc[w] = "scan"
  /\ todo' = [todo EXCEPT ![w] = Scanned]
  /\ wpc' = [wpc EXCEPT ![w] = "delete"]
  /\ UNCHANGED <<content, cache, reader, behind, raced, losses>>

\* The SCAN fails, which looks like the end of the keys.
ScanFails(w) ==
  /\ wpc[w] = "scan"
  /\ Loss
  /\ wpc' = [wpc EXCEPT ![w] = "delete"]
  /\ UNCHANGED <<content, cache, reader, todo, behind, raced>>

\* A DEL that fails leaves the answer where it is.
DeleteKey(w, key) ==
  /\ wpc[w] = "delete" /\ key \in todo[w]
  /\ todo' = [todo EXCEPT ![w] = @ \ {key}]
  /\ \/ /\ cache' = [cache EXCEPT ![key] = Nothing]
        /\ raced' = raced \ {key}
        /\ UNCHANGED losses
     \/ Loss /\ UNCHANGED <<cache, raced>>
  /\ UNCHANGED <<content, reader, wpc, behind>>

Invalidated(w) ==
  /\ wpc[w] = "delete" /\ todo[w] = {}
  /\ wpc' = [wpc EXCEPT ![w] = "idle"]
  /\ UNCHANGED <<content, cache, reader, todo, behind, raced, losses>>

-----------------------------------------------------------------------------
ExpirableUnlessAll(key) == cache[key] # Nothing /\ key # All
Expirable(key) == cache[key] # Nothing

\* Five minutes after it was set.
Expire(key) ==
  /\ Expirable(key)
  /\ cache' = [cache EXCEPT ![key] = Nothing]
  /\ raced' = raced \ {key}
  /\ UNCHANGED <<content, reader, writer, behind, losses>>

\* The process stops; Redis and the database go on.
Stop ==
  /\ Loss
  /\ rpc' = [r \in Readers |-> "idle"]
  /\ found' = [r \in Readers |-> Nothing]
  /\ wpc' = [w \in Writers |-> "idle"]
  /\ todo' = [w \in Writers |-> {}]
  /\ UNCHANGED <<content, cache, asked, behind, raced>>

-----------------------------------------------------------------------------
ReaderStep(r) ==
  \/ \E key \in Keys : Miss(r, key)
  \/ Select(r) \/ SelectFails(r) \/ Fill(r) \/ FillFails(r)

WriterStep(w) ==
  \/ \E k, l \in Kinds : Write(w, {k, l})
  \/ Scan(w) \/ ScanFails(w)
  \/ \E key \in Keys : DeleteKey(w, key)
  \/ Invalidated(w)

CacheNext ==
  \/ \E r \in Readers : ReaderStep(r)
  \/ \E w \in Writers : WriterStep(w)
  \/ \E key \in Keys : Expire(key)
  \/ Stop

CacheSpec == CacheInit /\ [][CacheNext]_cacheVars

\* Handlers run to their end, and what is cached expires.
CacheFairness ==
  /\ \A r \in Readers : WF_cacheVars(Select(r) \/ Fill(r))
  /\ \A key \in Keys : WF_cacheVars(Expire(key))

FairCacheSpec == CacheSpec /\ CacheFairness

-----------------------------------------------------------------------------
(* Properties.                                                             *)

Fresh(key) == cache[key] \in {Nothing, View(key)}

\* Once no writer is on its way and as long as Redis did not fail, a cached
\* answer is out of date only if a reader put it there that had read the
\* database before the latest write.
StaleOnlyByRace ==
  losses = 0 /\ (\A w \in Writers : wpc[w] = "idle") =>
    \A key \in Keys : Fresh(key) \/ key \in raced

\* Such an answer, or one left behind by a failure, does not last: when the
\* writes are over, the cache is up to date for good in the end.
CacheCatchesUp == <>[](\A key \in Keys : Fresh(key))

-----------------------------------------------------------------------------
(* What makes these inductive.                                             *)

\* A reader holds an answer only between its SELECT and its SET.
HoldsInv == \A r \in Readers : rpc[r] # "set" => found[r] = Nothing

\* A writer is still to delete the key, if it is there by then.
Pending(key) ==
  \E w \in Writers : wpc[w] = "scan" \/ (wpc[w] = "delete" /\ key \in todo[w])

\* An answer that is out of date, cached or on its way into the cache, is one
\* of a race or has a writer after it.
CacheInv ==
  losses = 0 =>
    /\ \A key \in Keys : Fresh(key) \/ key \in raced \/ Pending(key)
    /\ \A r \in Readers : rpc[r] = "set" => found[r] = View(asked[r]) \/ r \in behind
=============================================================================
