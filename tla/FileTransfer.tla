---------------------------- MODULE FileTransfer ----------------------------
(***************************************************************************)
(* filesSync up to applyFileTree (internal/migration/files.go) and the     *)
(* direct data plane it reads from (internal/migration/dataplane.go).  The *)
(* target agent fetches the approved manifest and then, chunk by chunk,    *)
(* the files it lacks; each chunk is written to a .partial file and put on *)
(* record in a checkpoint; a file whose digest is right is renamed into    *)
(* the cached tree; the whole tree is verified and handed to the swap (see *)
(* FileSwap), and the cache is removed.  The source agent builds the       *)
(* manifest again for every request, file after file, and only then reads  *)
(* the chunk, while others may write to the source; calls may fail, either *)
(* agent may crash, and the ticket runs out.                               *)
(*                                                                         *)
(* Abstracted: a digest is the content it is taken of; a file is a fixed   *)
(* number of chunks; directories, modes and times are left out; signatures *)
(* and keys of a ticket are valid, its lifetime is what is left of it.     *)
(***************************************************************************)
EXTENDS Naturals, Sequences

CONSTANTS
  Sizes,         \* the number of chunks of each file, in manifest order
  Data,          \* what a chunk may contain
  None,
  MaxEdits, MaxMishaps, MaxRequests

VARIABLES
  src,           \* the content of the source tree
  approved,      \* the manifest the backend has approved
  want,          \* the backend asks for the sync, again and again until it succeeds
  cache,         \* the transfer caches on the target, at most one per manifest
  pc, op,        \* the sync at work and its locals
  ticket,        \* how long its ticket lasts: 0 expired, 1 at most 75 s, 2 longer
  handed,        \* the manifests and trees given to applyFileTree
  edits, mishaps, requests

bounds == <<edits, mishaps, requests>>
vars == <<src, approved, want, cache, pc, op, ticket, handed, bounds>>

Files == DOMAIN Sizes
Contents(f) == [1..Sizes[f] -> Data]
Blank(f) == [c \in 1..Sizes[f] |-> None]

\* FileManifest: the content of every file
Manifests == {m \in [Files -> UNION {Contents(f) : f \in Files}] : \A f \in Files : m[f] \in Contents(f)}

\* tree: the files renamed into place; partial: the .partial files; record: the checkpoint
EmptyCache == [tree |-> [f \in Files |-> Blank(f)], partial |-> [f \in Files |-> Blank(f)],
               record |-> [f \in Files |-> Blank(f)]]

\* m: the manifest of the ticket; asks: the call under way; walk: the file its manifest has reached
NoOp == [m |-> None, asks |-> None, walk |-> 0, file |-> 0, chunk |-> 0, data |-> None]
PCs == {"idle", "ask", "admit", "walk", "read", "manifest", "capacity", "file", "chunk", "write", "save",
        "assemble", "verify", "apply", "remove"}

ASSUME FileTransferAssumption ==
  /\ Sizes \in Seq(Nat \ {0}) /\ Sizes # <<>> /\ Data # {} /\ None \notin Data
  /\ \A b \in {MaxEdits, MaxMishaps, MaxRequests} : b \in Nat

Init ==
  /\ src = [f \in Files |-> [c \in 1..Sizes[f] |-> CHOOSE d \in Data : TRUE]]
  /\ approved = src /\ want = FALSE
  /\ cache = [m \in {} |-> EmptyCache]
  /\ pc = "idle" /\ op = NoOp /\ ticket = 0 /\ handed = {}
  /\ edits = 0 /\ mishaps = 0 /\ requests = 0

-----------------------------------------------------------------------------
(* Common steps *)

\* a failed call, a crash or time that passes unnoticed
Mishap == mishaps < MaxMishaps /\ mishaps' = mishaps + 1 /\ UNCHANGED <<edits, requests>>

Fault(ok) == IF ok THEN UNCHANGED bounds ELSE Mishap

Sound == UNCHANGED bounds

\* the attempt ends in an error; the sync stays wanted and the cache stays as it is
Fail == pc' = "idle" /\ op' = NoOp

Goto(next) == pc' = next /\ UNCHANGED op

Here == cache[op.m]
SetHere(part, f, content) == cache' = [cache EXCEPT ![op.m][part][f] = content]

\* mutant: the size alone is compared
FileVerified_SizeOnly(m, f, content) == \A c \in DOMAIN content : content[c] # None

\* fileSHA256: the digest and the size of a file are those of the manifest entry
FileVerified(m, f, content) == content = m[f]

Backend == <<src, approved, want, handed>>

-----------------------------------------------------------------------------
(* The data plane: one request *)

\* ensureTicket; a refreshed ticket has the same scope and a new lifetime
EnsureTicket(ok) ==
  \/ ticket = 2 /\ ok /\ UNCHANGED ticket
  \/ ticket < 2 /\ ticket' = IF ok THEN 2 ELSE ticket

\* post: the request is sent with the ticket as it is then
Ask(ok) ==
  /\ pc = "ask"
  /\ EnsureTicket(ok) /\ Fault(ok)
  /\ IF ok THEN Goto("admit") ELSE Fail
  /\ UNCHANGED <<Backend, cache>>

\* validateDataPlaneTicket, at the source, before anything is read
Admit ==
  /\ pc = "admit"
  /\ IF ticket > 0 THEN pc' = "walk" /\ op' = [op EXCEPT !.walk = 1] ELSE Fail
  /\ Sound /\ UNCHANGED <<Backend, cache, ticket>>

\* authorize: the manifest of the source is built file after file and must be the ticket's
Walk ==
  /\ pc = "walk"
  /\ IF ~FileVerified(op.m, op.walk, src[op.walk]) THEN Fail
     ELSE IF op.walk < Len(Sizes) THEN op' = [op EXCEPT !.walk = @ + 1] /\ UNCHANGED pc
     ELSE op' = [op EXCEPT !.walk = 0] /\ pc' = IF op.asks = "manifest" THEN "manifest" ELSE "read"
  /\ Sound /\ UNCHANGED <<Backend, cache, ticket>>

\* mutant: the chunk is put on record as soon as it has been received
ReadChunk_RecordsEarly(ok) ==
  /\ pc = "read"
  /\ Fault(ok)
  /\ IF ok THEN /\ pc' = "write" /\ op' = [op EXCEPT !.data = src[op.file][op.chunk]]
                /\ SetHere("record", op.file, [Here.record[op.file] EXCEPT ![op.chunk] = src[op.file][op.chunk]])
           ELSE Fail /\ UNCHANGED cache
  /\ UNCHANGED <<Backend, ticket>>

\* handleChunk after authorize, and the client's check of the digest that came with the chunk
ReadChunk(ok) ==
  /\ pc = "read"
  /\ Fault(ok)
  /\ IF ok THEN pc' = "write" /\ op' = [op EXCEPT !.data = src[op.file][op.chunk]] ELSE Fail
  /\ UNCHANGED <<Backend, cache, ticket>>

-----------------------------------------------------------------------------
(* The target: filesSync *)

\* validateTargetTicket: the signed task names the manifest its ticket is for
Begin ==
  /\ pc = "idle" /\ want
  /\ pc' = "ask" /\ op' = [NoOp EXCEPT !.m = approved, !.asks = "manifest"] /\ ticket' = 2
  /\ Sound /\ UNCHANGED <<Backend, cache>>

\* the client's manifest call returns; validateTransferredManifest
Manifest(ok) ==
  /\ pc = "manifest"
  /\ Fault(ok)
  /\ IF ok THEN Goto("capacity") ELSE Fail
  /\ UNCHANGED <<Backend, cache, ticket>>

\* transferCachePath: the cache of this manifest, made if it is not there
OpenCache == cache' = [m \in DOMAIN cache \cup {op.m} |-> IF m \in DOMAIN cache THEN cache[m] ELSE EmptyCache]

\* ensureFileSystemCapacity
Capacity(ok) ==
  /\ pc = "capacity"
  /\ Fault(ok)
  /\ IF ok THEN pc' = "file" /\ op' = [op EXCEPT !.asks = "chunk", !.file = 1] /\ OpenCache ELSE Fail /\ UNCHANGED cache
  /\ UNCHANGED <<Backend, ticket>>

NextFile == pc' = "file" /\ op' = [op EXCEPT !.file = @ + 1, !.chunk = 0]
NextChunk == pc' = "chunk" /\ op' = [op EXCEPT !.chunk = @ + 1, !.data = None]

\* downloadManifestTree: a complete file is not fetched again
File ==
  /\ pc = "file"
  /\ IF op.file > Len(Sizes) THEN Goto("verify")
     ELSE IF FileVerified(op.m, op.file, Here.tree[op.file]) THEN NextFile
     ELSE pc' = "chunk" /\ op' = [op EXCEPT !.chunk = 1]
  /\ Sound /\ UNCHANGED <<Backend, cache, ticket>>

\* mutant: a chunk on record is not looked at again
OnRecord_Trusted(f, c) == Here.record[f][c] # None

\* hashFileRegion: a chunk on record counts if the .partial file still holds it
OnRecord(f, c) == Here.record[f][c] # None /\ Here.partial[f][c] = Here.record[f][c]

Chunk ==
  /\ pc = "chunk"
  /\ IF op.chunk > Sizes[op.file] THEN Goto("assemble")
     ELSE IF OnRecord(op.file, op.chunk) THEN NextChunk
     ELSE Goto("ask")
  /\ Sound /\ UNCHANGED <<Backend, cache, ticket>>

WrittenChunk == [Here.partial[op.file] EXCEPT ![op.chunk] = op.data]

\* WriteAt and Sync; what a failed one leaves behind is unknown
Write(ok) ==
  /\ pc = "write"
  /\ Fault(ok)
  /\ \/ SetHere("partial", op.file, WrittenChunk)
     \/ ~ok /\ UNCHANGED cache
  /\ IF ok THEN Goto("save") ELSE Fail
  /\ UNCHANGED <<Backend, ticket>>

\* atomicJSONFile of the checkpoint, and the progress report that may end the attempt after it
Save(ok) ==
  /\ pc = "save"
  /\ Fault(ok)
  /\ \/ SetHere("record", op.file, [Here.record[op.file] EXCEPT ![op.chunk] = op.data])
     \/ ~ok /\ UNCHANGED cache
  /\ IF ok THEN NextChunk ELSE Fail
  /\ UNCHANGED <<Backend, ticket>>

\* the assembled file is verified and renamed into the tree
Assemble(ok) ==
  /\ pc = "assemble"
  /\ Fault(ok)
  /\ LET content == Here.partial[op.file] IN
     IF FileVerified(op.m, op.file, content) /\ ok
     THEN /\ cache' = [cache EXCEPT ![op.m].tree[op.file] = content, ![op.m].partial[op.file] = Blank(op.file)]
          /\ NextFile
     ELSE Fail /\ UNCHANGED cache
  /\ UNCHANGED <<Backend, ticket>>

\* the manifest of the cached tree, which no .partial file is part of
VerifyTree ==
  /\ pc = "verify"
  /\ IF \A f \in Files : FileVerified(op.m, f, Here.tree[f]) /\ Here.partial[f] = Blank(f) THEN Goto("apply") ELSE Fail
  /\ Sound /\ UNCHANGED <<Backend, cache, ticket>>

\* applyFileTree is given the tree; FileSwap has its steps
Apply(ok) ==
  /\ pc = "apply"
  /\ Fault(ok)
  /\ handed' = handed \cup {<<op.m, Here.tree>>}
  /\ IF ok THEN Goto("remove") ELSE Fail
  /\ UNCHANGED <<src, approved, want, cache, ticket>>

\* removeTransferCache: RemoveAll takes the entries in any order
RemoveEntry ==
  /\ pc = "remove"
  /\ \/ \E f \in Files : Here.tree[f] # Blank(f) /\ SetHere("tree", f, Blank(f))
     \/ Here.record # EmptyCache.record /\ cache' = [cache EXCEPT ![op.m].record = EmptyCache.record]
  /\ UNCHANGED <<pc, op>> /\ Sound /\ UNCHANGED <<Backend, ticket>>

RemoveCache(ok) ==
  /\ pc = "remove"
  /\ Fault(ok)
  /\ IF ok THEN Here = EmptyCache /\ cache' = [m \in DOMAIN cache \ {op.m} |-> cache[m]] ELSE UNCHANGED cache
  /\ Fail /\ want' = ~ok
  /\ UNCHANGED <<src, approved, handed, ticket>>

-----------------------------------------------------------------------------
(* The backend, the users of the source, and what may go wrong *)

\* the backend has the manifest of the source taken, approves it and asks for the sync
Request ==
  /\ pc = "idle" /\ requests < MaxRequests
  /\ approved' = src /\ want' = TRUE
  /\ requests' = requests + 1
  /\ UNCHANGED <<src, cache, pc, op, ticket, handed, edits, mishaps>>

\* somebody writes to a file of the source, or puts back what was there
Edit(f, c, d) ==
  /\ edits < MaxEdits /\ d # src[f][c]
  /\ src' = [src EXCEPT ![f][c] = d]
  /\ edits' = edits + 1
  /\ UNCHANGED <<approved, want, cache, pc, op, ticket, handed, mishaps, requests>>

\* the ticket of the attempt gets older
Tick ==
  /\ pc # "idle" /\ ticket > 0
  /\ ticket' \in 0..ticket - 1 /\ Mishap
  /\ UNCHANGED <<Backend, cache, pc, op>>

\* the target agent, or its machine, goes down; a chunk not yet synced may be lost
Crash ==
  /\ pc # "idle"
  /\ Fail /\ Mishap
  /\ \/ UNCHANGED cache
     \/ pc = "write" /\ SetHere("partial", op.file, WrittenChunk)
  /\ UNCHANGED <<Backend, ticket>>

Sync ==
  \/ Begin \/ Admit \/ Walk \/ File \/ Chunk \/ VerifyTree \/ RemoveEntry
  \/ \E ok \in BOOLEAN :
       \/ Ask(ok) \/ ReadChunk(ok) \/ Manifest(ok) \/ Capacity(ok) \/ Write(ok) \/ Save(ok)
       \/ Assemble(ok) \/ Apply(ok) \/ RemoveCache(ok)

Next ==
  \/ Sync \/ Request \/ Tick \/ Crash
  \/ \E f \in Files : \E c \in 1..Sizes[f], d \in Data : Edit(f, c, d)

Spec == Init /\ [][Next]_vars

\* the backend has a failed step tried again, and an attempt comes to its end
LiveSpec == Spec /\ WF_vars(Sync)

-----------------------------------------------------------------------------
(* Properties *)

\* The types, and an agent that is idle keeps nothing of an attempt.
TypeOK ==
  /\ src \in Manifests /\ approved \in Manifests /\ want \in BOOLEAN
  /\ DOMAIN cache \subseteq Manifests
  /\ \A m \in DOMAIN cache, f \in Files :
       /\ cache[m].tree[f] \in Contents(f) \cup {Blank(f)}
       /\ \A part \in {"partial", "record"} : cache[m][part][f] \in [1..Sizes[f] -> Data \cup {None}]
  /\ pc \in PCs /\ op.file \in 0..Len(Sizes) + 1 /\ op.walk \in 0..Len(Sizes)
  /\ op.file \in Files => op.chunk \in 0..Sizes[op.file] + 1
  /\ pc = "idle" => op = NoOp
  /\ ticket \in 0..2 /\ handed \subseteq Manifests \X Manifests

\* Whatever was written to the source between the source agent's check and its read, however the download was
\* interrupted and resumed, the tree that is handed to applyFileTree is the one of the approved manifest.
HandedIsManifest == \A h \in handed : h[1] = h[2]

\* Until the cache is being removed, a chunk on record is on disk, in the .partial file or in the finished
\* one: the checkpoint is saved after the chunk is synced, so a crash never leaves it ahead of the data.
RecordedOnDisk ==
  \A m \in DOMAIN cache \ {h[1] : h \in handed}, f \in Files :
    \A c \in 1..Sizes[f] : cache[m].record[f][c] \in {None, cache[m].partial[f][c], cache[m].tree[f][c]}

\* a chunk that was read after a write to the source is on record, under its own digest
Poisoned ==
  approved \in DOMAIN cache /\ \E f \in Files : cache[approved].tree[f] # approved[f] /\ \E c \in 1..Sizes[f] :
    cache[approved].record[f][c] \notin {None, approved[f][c]} /\ cache[approved].partial[f][c] = cache[approved].record[f][c]

\* A sync that is wanted is finished by the retries, whatever an interrupted attempt or an interrupted removal of
\* the cache has left behind, unless the source has drifted or a chunk on record is not the manifest's (the
\* checkpoint vouches for it in every retry, and the assembled file is refused every time).
TransferEnds == want ~> (~want \/ src # approved \/ Poisoned)
=============================================================================
