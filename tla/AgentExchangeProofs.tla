------------------------ MODULE AgentExchangeProofs -------------------------
(***************************************************************************)
(* Proofs about the two exchanges with a peer that can be cut off:         *)
(* FileTransfer, for any files, sizes, contents and bounds (its types,     *)
(* that the tree handed to applyFileTree is the approved manifest's, that  *)
(* the checkpoint is never ahead of the data), and RemoteJobs (its types,  *)
(* the bound on executions of an audit, that results are kept, and that    *)
(* the audit handlers implement JobLedger).                                *)
(***************************************************************************)
EXTENDS FileTransfer, RemoteJobs, TLAPS

-----------------------------------------------------------------------------
(* Part 1: the file transfer *)

Parts == {"tree", "partial", "record"}
OnDisk(f) == [1..Sizes[f] -> Data \cup {None}]
Firsts == {h[1] : h \in handed}

\* a cache has three parts, each with a content for every file
Shape(k) ==
  /\ DOMAIN k = Parts
  /\ \A p \in Parts : k[p] = [f \in Files |-> k[p][f]]
  /\ \A p \in Parts, f \in Files : k[p][f] \in OnDisk(f)

Op == [m: Manifests \cup {None}, asks: {None, "manifest", "chunk"}, walk: 0..Len(Sizes), file: 0..Len(Sizes) + 1, chunk: Nat, data: Data \cup {None}]

Types ==
  /\ src \in Manifests /\ approved \in Manifests /\ want \in BOOLEAN
  /\ pc \in PCs /\ op \in Op /\ ticket \in 0..2

\* the steps of a request, and those at which a chunk of the file is being fetched or a file completed
Requesting == {"ask", "admit", "walk"}
Fetching == (pc \in Requesting /\ op.asks = "chunk") \/ pc \in {"read", "write"}
Filling == Fetching \/ pc \in {"chunk", "save", "assemble"}
InCache == {"read", "file", "chunk", "write", "save", "assemble", "verify", "apply", "remove"}

\* what a cache holds: a file that is in the tree is the manifest's, and the checkpoint is behind the data
CacheOK(m, k) ==
  /\ m \in Manifests /\ Shape(k)
  /\ \A f \in Files : k["tree"][f] \in {Blank(f), m[f]}
  /\ m \notin Firsts => \A f \in Files : \A c \in 1..Sizes[f] : k["record"][f][c] \in {None, k["partial"][f][c], k["tree"][f][c]}

CacheInv == \A m \in DOMAIN cache : CacheOK(m, cache[m])

\* where the attempt is
PlaceInv ==
  /\ pc = "idle" => op = NoOp
  /\ pc # "idle" => /\ op.m \in Manifests /\ op.asks \in {"manifest", "chunk"}
                    /\ op.asks = "chunk" => op.m \in DOMAIN cache
                    /\ op.asks = "manifest" => op.file = 0 /\ op.chunk = 0
  /\ pc \in InCache => op.asks = "chunk"
  /\ pc \in {"manifest", "capacity"} => op.asks = "manifest"
  /\ pc = "walk" => op.walk \in Files
  /\ op.file \in Files => op.chunk \in 0..Sizes[op.file] + 1
  /\ pc = "file" => op.chunk = 0 /\ op.file # 0
  /\ Filling => op.file \in Files /\ op.chunk \in 1..Sizes[op.file] + 1
  /\ Fetching \/ pc = "save" => op.chunk \in 1..Sizes[op.file]

\* what the attempt relies on in its cache: the file is not in the tree yet, the chunk not on record, the chunk
\* that is about to be recorded is written, and the tree that is handed over is whole
HereInv ==
  /\ Filling => cache[op.m]["tree"][op.file] = Blank(op.file)
  /\ Fetching /\ op.m \notin Firsts => cache[op.m]["record"][op.file][op.chunk] = None
  /\ pc = "save" => cache[op.m]["partial"][op.file][op.chunk] = op.data
  /\ pc = "apply" => cache[op.m]["tree"] = op.m
  /\ pc = "remove" => op.m \in Firsts

HandedInv == handed \subseteq {<<m, m>> : m \in Manifests}

IInv == Types /\ CacheInv /\ PlaceInv /\ HereInv /\ HandedInv

-----------------------------------------------------------------------------
(* What the common steps do *)

\* files are numbered from 1, and there is one
LEMMA FilesFacts ==
  /\ Files = 1..Len(Sizes) /\ Len(Sizes) \in Nat /\ 1 \in Files
  /\ \A f \in Files : Sizes[f] \in Nat /\ Sizes[f] > 0
  BY FileTransferAssumption DEF Files

\* a manifest has a content for every file
LEMMA ManifestFacts ==
  ASSUME NEW m \in Manifests
  PROVE  /\ m = [f \in Files |-> m[f]]
         /\ \A f \in Files : m[f] \in Contents(f)
  BY Zenon DEF Manifests

\* a blank file is not the content of any
LEMMA BlankFacts ==
  ASSUME NEW f \in Files
  PROVE  /\ Blank(f) \in OnDisk(f) /\ Blank(f) \notin Contents(f)
         /\ \A c \in 1..Sizes[f] : Blank(f)[c] = None
         /\ Contents(f) \subseteq OnDisk(f)
<1>1. Blank(f) \in OnDisk(f) /\ \A c \in 1..Sizes[f] : Blank(f)[c] = None
  BY Zenon DEF Blank, OnDisk
<1>2. 1 \in 1..Sizes[f]
  BY FilesFacts
<1>3. Blank(f) \notin Contents(f)
  BY Zenon, <1>1, <1>2, FileTransferAssumption DEF Contents
<1>4. Contents(f) \subseteq OnDisk(f)
  BY Zenon DEF Contents, OnDisk
<1> QED BY Zenon, <1>1, <1>3, <1>4

\* an empty cache
LEMMA EmptyFacts ==
  /\ Shape(EmptyCache)
  /\ \A p \in Parts, f \in Files : EmptyCache[p][f] = Blank(f)
<1>1. DOMAIN EmptyCache = Parts /\ \A p \in Parts : EmptyCache[p] = [f \in Files |-> Blank(f)]
  BY DEF EmptyCache, Parts
<1>2. \A p \in Parts, f \in Files : EmptyCache[p][f] = Blank(f)
  BY Zenon, <1>1
<1>3. \A p \in Parts : EmptyCache[p] = [f \in Files |-> EmptyCache[p][f]]
  BY Zenon, <1>1
<1> QED BY Zenon, <1>1, <1>2, <1>3, BlankFacts DEF Shape

\* SetHere changes one file of one part of the cache in use
LEMMA SetHereEffect ==
  ASSUME op.m \in DOMAIN cache, Shape(cache[op.m]),
         NEW part \in Parts, NEW f \in Files, NEW content \in OnDisk(f), SetHere(part, f, content)
  PROVE  /\ DOMAIN cache' = DOMAIN cache
         /\ \A m \in DOMAIN cache \ {op.m} : cache'[m] = cache[m]
         /\ Shape(cache'[op.m])
         /\ \A p \in Parts, g \in Files : cache'[op.m][p][g] = IF p = part /\ g = f THEN content ELSE cache[op.m][p][g]
<1> DEFINE k == cache[op.m]
           l == [k EXCEPT ![part][f] = content]
<1>1. cache' = [cache EXCEPT ![op.m] = l]
  BY Zenon DEF SetHere
<1>2. cache'[op.m] = l /\ DOMAIN cache' = DOMAIN cache /\ \A m \in DOMAIN cache \ {op.m} : cache'[m] = cache[m]
  BY Zenon, <1>1
<1>3. DOMAIN l = Parts /\ l[part] = [k[part] EXCEPT ![f] = content] /\ \A p \in Parts \ {part} : l[p] = k[p]
  BY Zenon DEF Shape
<1>4. \A p \in Parts : k[p] = [g \in Files |-> k[p][g]]
  BY Zenon DEF Shape
<1>5. l[part] = [g \in Files |-> IF g = f THEN content ELSE k[part][g]]
  BY Zenon, <1>3, <1>4
<1> HIDE DEF l, k
<1>6. \A p \in Parts, g \in Files : l[p][g] = IF p = part /\ g = f THEN content ELSE k[p][g]
  BY <1>3, <1>5
<1>7. \A p \in Parts : l[p] = [g \in Files |-> l[p][g]]
  BY ZenonT(40), <1>3, <1>4, <1>5
<1>8. \A p \in Parts, g \in Files : l[p][g] \in OnDisk(g)
  BY <1>6 DEF Shape, k
<1> QED BY <1>2, <1>3, <1>6, <1>7, <1>8 DEF Shape, k

\* locals that are fresh
LEMMA NoOpFacts == NoOp \in Op /\ NoOp.asks = None /\ NoOp.file = 0 /\ NoOp.chunk = 0
<1>1. 0 \in 0..Len(Sizes) /\ 0 \in 0..Len(Sizes) + 1 /\ 0 \in Nat
  BY FilesFacts
<1> QED BY Zenon, <1>1 DEF NoOp, Op

\* an attempt that ends leaves only its cache
LEMMA FailIInv ==
  ASSUME Types, Fail, UNCHANGED <<src, approved>>, want' \in BOOLEAN, ticket' \in 0..2, CacheInv', HandedInv'
  PROVE  IInv'
<1>1. pc' = "idle" /\ op' = NoOp
  BY Zenon DEF Fail
<1>2. Types'
  BY Zenon, <1>1, NoOpFacts DEF Types, PCs
<1>3. PlaceInv'
  BY <1>1, NoOpFacts, FilesFacts DEF PlaceInv, InCache, Filling, Fetching, Requesting
<1>4. HereInv'
  BY Zenon, <1>1 DEF HereInv, Filling, Fetching, Requesting
<1> QED BY Zenon, <1>2, <1>3, <1>4 DEF IInv

\* a step that leaves the caches alone
LEMMA CachesKept ==
  ASSUME IInv, UNCHANGED <<cache, handed>>
  PROVE  CacheInv' /\ HandedInv' /\ Firsts' = Firsts
  BY ZenonT(40) DEF IInv, CacheInv, CacheOK, HandedInv, Firsts

\* a failure that leaves the caches alone
LEMMA PlainFail ==
  ASSUME IInv, Fail, UNCHANGED <<src, approved, cache, handed>>, want' \in BOOLEAN, ticket' \in 0..2
  PROVE  IInv'
  BY Zenon, FailIInv, CachesKept DEF IInv

\* a step that leaves the caches alone and goes on
LEMMA MoveIInv ==
  ASSUME IInv, UNCHANGED <<Backend, cache>>, ticket' \in 0..2, pc' \in PCs, op' \in Op, PlaceInv', HereInv'
  PROVE  IInv'
<1>1. Types'
  BY Zenon DEF IInv, Types, Backend
<1>2. CacheInv' /\ HandedInv'
  BY Zenon, CachesKept DEF Backend
<1> QED BY Zenon, <1>1, <1>2 DEF IInv

\* a step of a request
LEMMA RequestMove ==
  ASSUME IInv, UNCHANGED <<Backend, cache>>, ticket' \in 0..2,
         pc \in Requesting \cup {"read"}, pc' \in Requesting \cup {"read", "write"}, op' \in Op,
         op'.m = op.m, op'.asks = op.asks, op'.file = op.file, op'.chunk = op.chunk,
         pc' \in {"read", "write"} => op.asks = "chunk", pc' = "walk" => op'.walk \in Files
  PROVE  IInv'
<1>1. Firsts' = Firsts
  BY Zenon, CachesKept DEF Backend
<1>2. Fetching <=> op.asks = "chunk"
  BY Zenon DEF Fetching, Requesting, IInv, PlaceInv, InCache
<1>3. Fetching' <=> op.asks = "chunk"
  BY Zenon DEF Fetching, Requesting
<1>4. (Filling' <=> Fetching) /\ (Filling <=> Fetching)
  BY Zenon, <1>2, <1>3 DEF Filling, Requesting
<1>5. PlaceInv'
  BY Zenon, <1>2, <1>3, <1>4 DEF PlaceInv, IInv, InCache, Requesting
<1>6. HereInv'
  BY Zenon, <1>1, <1>2, <1>3, <1>4 DEF HereInv, IInv, Requesting
<1>7. pc' \in PCs
  BY Zenon DEF PCs, Requesting
<1> QED BY Zenon, <1>5, <1>6, <1>7, MoveIInv

\* a step that changes the cache in use
LEMMA CacheUpdate ==
  ASSUME IInv, UNCHANGED handed, op.m \in DOMAIN cache, DOMAIN cache' = DOMAIN cache,
         \A m \in DOMAIN cache \ {op.m} : cache'[m] = cache[m], CacheOK(op.m, cache'[op.m])
  PROVE  CacheInv'
<1>1. Firsts' = Firsts
  BY Zenon DEF Firsts
<1>2. \A m \in DOMAIN cache' : CacheOK(m, cache'[m])
  BY Zenon DEF IInv, CacheInv
<1> QED BY Zenon, <1>1, <1>2 DEF CacheInv, CacheOK, Shape

\* the chunk in hand may be written: it is not on record
LEMMA WriteEffect ==
  ASSUME IInv, pc = "write", SetHere("partial", op.file, WrittenChunk), UNCHANGED handed
  PROVE  /\ CacheInv' /\ HandedInv' /\ DOMAIN cache' = DOMAIN cache
         /\ cache'[op.m]["tree"][op.file] = Blank(op.file)
         /\ cache'[op.m]["partial"][op.file][op.chunk] = op.data
<1>1. op.m \in DOMAIN cache /\ op.file \in Files /\ op.chunk \in 1..Sizes[op.file] /\ Fetching /\ Filling
  BY Zenon DEF IInv, PlaceInv, InCache, Fetching, Filling
<1>2. CacheOK(op.m, cache[op.m]) /\ Shape(cache[op.m])
  BY Zenon, <1>1 DEF IInv, CacheInv, CacheOK
<1>3. cache[op.m]["partial"][op.file] \in OnDisk(op.file) /\ op.data \in Data \cup {None}
  BY Zenon, <1>1, <1>2 DEF Shape, Parts, IInv, Types, Op
<1>4. /\ WrittenChunk \in OnDisk(op.file) /\ WrittenChunk[op.chunk] = op.data
      /\ \A c \in 1..Sizes[op.file] : c # op.chunk => WrittenChunk[c] = cache[op.m]["partial"][op.file][c]
  BY Zenon, <1>1, <1>3 DEF WrittenChunk, Here, OnDisk
<1>5. /\ DOMAIN cache' = DOMAIN cache
      /\ \A m \in DOMAIN cache \ {op.m} : cache'[m] = cache[m]
      /\ Shape(cache'[op.m])
      /\ \A p \in Parts, g \in Files : cache'[op.m][p][g] = IF p = "partial" /\ g = op.file THEN WrittenChunk ELSE cache[op.m][p][g]
  BY <1>1, <1>2, <1>4, SetHereEffect DEF Parts
<1>6. cache'[op.m]["partial"][op.file] = WrittenChunk /\ \A g \in Files \ {op.file} : cache'[op.m]["partial"][g] = cache[op.m]["partial"][g]
  BY Zenon, <1>1, <1>5 DEF Parts
<1>7. \A g \in Files : cache'[op.m]["tree"][g] = cache[op.m]["tree"][g] /\ cache'[op.m]["record"][g] = cache[op.m]["record"][g]
  BY Zenon, <1>5 DEF Parts
<1>8. Firsts' = Firsts /\ HandedInv'
  BY Zenon DEF Firsts, HandedInv, IInv
<1>9. CacheOK(op.m, cache'[op.m])
  <2>1. ASSUME op.m \notin Firsts, NEW f \in Files, NEW c \in 1..Sizes[f]
        PROVE  cache'[op.m]["record"][f][c] \in {None, cache'[op.m]["partial"][f][c], cache'[op.m]["tree"][f][c]}
    <3>1. cache[op.m]["record"][f][c] \in {None, cache[op.m]["partial"][f][c], cache[op.m]["tree"][f][c]}
      BY ZenonT(40), <1>2, <2>1 DEF CacheOK
    <3>2. CASE f = op.file /\ c = op.chunk
      BY ZenonT(40), <1>1, <1>7, <2>1, <3>2 DEF IInv, HereInv
    <3>3. CASE f = op.file /\ c # op.chunk
      BY ZenonT(40), <1>4, <1>6, <1>7, <3>1, <3>3
    <3>4. CASE f # op.file
      BY Zenon, <1>6, <1>7, <3>1, <3>4
    <3> QED BY ZenonT(40), <3>2, <3>3, <3>4
  <2> QED BY ZenonT(40), <1>2, <1>5, <1>7, <1>8, <2>1 DEF CacheOK
<1>10. CacheInv'
  BY Zenon, <1>1, <1>5, <1>9, CacheUpdate
<1> QED BY Zenon, <1>1, <1>4, <1>5, <1>6, <1>7, <1>8, <1>10 DEF IInv, HereInv

\* the chunk that is put on record is written
LEMMA SaveEffect ==
  ASSUME IInv, pc = "save", SetHere("record", op.file, [Here.record[op.file] EXCEPT ![op.chunk] = op.data]), UNCHANGED handed
  PROVE  /\ CacheInv' /\ HandedInv' /\ DOMAIN cache' = DOMAIN cache
         /\ cache'[op.m]["tree"][op.file] = Blank(op.file)
<1> DEFINE new == [Here.record[op.file] EXCEPT ![op.chunk] = op.data]
<1>1. op.m \in DOMAIN cache /\ op.file \in Files /\ op.chunk \in 1..Sizes[op.file] /\ Filling
  BY Zenon DEF IInv, PlaceInv, InCache, Filling
<1>2. CacheOK(op.m, cache[op.m]) /\ Shape(cache[op.m])
  BY Zenon, <1>1 DEF IInv, CacheInv, CacheOK
<1>3. cache[op.m]["record"][op.file] \in OnDisk(op.file) /\ op.data \in Data \cup {None}
  BY Zenon, <1>1, <1>2 DEF Shape, Parts, IInv, Types, Op
<1>4. /\ new \in OnDisk(op.file) /\ new[op.chunk] = op.data
      /\ \A c \in 1..Sizes[op.file] : c # op.chunk => new[c] = cache[op.m]["record"][op.file][c]
  BY Zenon, <1>1, <1>3 DEF Here, OnDisk
<1>5. SetHere("record", op.file, new)
  BY Zenon
<1> HIDE DEF new
<1>6. /\ DOMAIN cache' = DOMAIN cache
      /\ \A m \in DOMAIN cache \ {op.m} : cache'[m] = cache[m]
      /\ Shape(cache'[op.m])
      /\ \A p \in Parts, g \in Files : cache'[op.m][p][g] = IF p = "record" /\ g = op.file THEN new ELSE cache[op.m][p][g]
  BY <1>1, <1>2, <1>4, <1>5, SetHereEffect DEF Parts
<1>7. cache'[op.m]["record"][op.file] = new /\ \A g \in Files \ {op.file} : cache'[op.m]["record"][g] = cache[op.m]["record"][g]
  BY Zenon, <1>1, <1>6 DEF Parts
<1>8. \A g \in Files : cache'[op.m]["tree"][g] = cache[op.m]["tree"][g] /\ cache'[op.m]["partial"][g] = cache[op.m]["partial"][g]
  BY Zenon, <1>6 DEF Parts
<1>9. CacheOK(op.m, cache'[op.m])
  <2>1. ASSUME op.m \notin Firsts, NEW f \in Files, NEW c \in 1..Sizes[f]
        PROVE  cache'[op.m]["record"][f][c] \in {None, cache'[op.m]["partial"][f][c], cache'[op.m]["tree"][f][c]}
    <3>1. cache[op.m]["record"][f][c] \in {None, cache[op.m]["partial"][f][c], cache[op.m]["tree"][f][c]}
      BY ZenonT(40), <1>2, <2>1 DEF CacheOK
    <3>2. CASE f = op.file /\ c = op.chunk
      BY ZenonT(40), <1>4, <1>7, <1>8, <3>2 DEF IInv, HereInv
    <3>3. CASE f = op.file /\ c # op.chunk
      BY ZenonT(40), <1>4, <1>7, <1>8, <3>1, <3>3
    <3>4. CASE f # op.file
      BY ZenonT(40), <1>7, <1>8, <3>1, <3>4
    <3> QED BY ZenonT(40), <3>2, <3>3, <3>4
  <2> QED BY ZenonT(40), <1>2, <1>6, <1>8, <2>1 DEF CacheOK
<1>10. CacheInv' /\ HandedInv'
  BY Zenon, <1>1, <1>6, <1>9, CacheUpdate DEF IInv, HandedInv
<1> QED BY Zenon, <1>1, <1>6, <1>8, <1>10 DEF IInv, HereInv

\* a file that is right goes from the .partial file to the tree, and what is on record of it stays on disk
LEMMA AssembleEffect ==
  ASSUME IInv, pc = "assemble", UNCHANGED handed, FileVerified(op.m, op.file, Here.partial[op.file]),
         cache' = [cache EXCEPT ![op.m].tree[op.file] = Here.partial[op.file], ![op.m].partial[op.file] = Blank(op.file)]
  PROVE  CacheInv' /\ HandedInv' /\ DOMAIN cache' = DOMAIN cache
<1> DEFINE k == cache[op.m]
           t == [k["tree"] EXCEPT ![op.file] = k["partial"][op.file]]
           q == [k["partial"] EXCEPT ![op.file] = Blank(op.file)]
           l == [[k EXCEPT !["tree"] = t] EXCEPT !["partial"] = q]
<1>1. op.m \in DOMAIN cache /\ op.file \in Files /\ Filling
  BY Zenon DEF IInv, PlaceInv, InCache, Filling
<1>2. CacheOK(op.m, k) /\ Shape(k)
  BY Zenon, <1>1 DEF IInv, CacheInv, CacheOK
<1>3. DOMAIN k = Parts /\ k["tree"] = [f \in Files |-> k["tree"][f]] /\ k["partial"] = [f \in Files |-> k["partial"][f]] /\ k["record"] = [f \in Files |-> k["record"][f]]
  BY Zenon, <1>2 DEF Shape, Parts
<1>4. t = [f \in Files |-> IF f = op.file THEN k["partial"][op.file] ELSE k["tree"][f]] /\ q = [f \in Files |-> IF f = op.file THEN Blank(op.file) ELSE k["partial"][f]]
  BY Zenon, <1>3
<1>5. DOMAIN l = Parts /\ l["tree"] = t /\ l["partial"] = q /\ l["record"] = k["record"]
  BY Zenon, <1>3 DEF Parts
<1>6. DOMAIN cache' = DOMAIN cache /\ cache'[op.m] = l /\ \A m \in DOMAIN cache \ {op.m} : cache'[m] = cache[m]
  BY Zenon, <1>1, <1>3 DEF Here, Parts
<1> HIDE DEF l, k, t, q
<1>7. k["partial"][op.file] = op.m[op.file] /\ k["tree"][op.file] = Blank(op.file)
  BY Zenon, <1>1 DEF FileVerified, Here, k, IInv, HereInv
<1>8. /\ l["tree"][op.file] = op.m[op.file] /\ l["partial"][op.file] = Blank(op.file)
      /\ \A f \in Files \ {op.file} : l["tree"][f] = k["tree"][f] /\ l["partial"][f] = k["partial"][f]
      /\ \A f \in Files : l["record"][f] = k["record"][f]
  BY <1>1, <1>4, <1>5, <1>7
<1>9. Shape(l)
  <2>1. \A p \in Parts : l[p] = [f \in Files |-> l[p][f]]
    BY SMTT(30), <1>3, <1>4, <1>5 DEF Parts
  <2>2. \A p \in Parts, f \in Files : k[p][f] \in OnDisk(f)
    BY Zenon, <1>2 DEF Shape
  <2>3. \A f \in Files : l["tree"][f] \in OnDisk(f) /\ l["partial"][f] \in OnDisk(f) /\ l["record"][f] \in OnDisk(f)
    BY Zenon, <1>1, <1>7, <1>8, <2>2, BlankFacts DEF Parts
  <2> QED BY Zenon, <1>5, <2>1, <2>3 DEF Shape, Parts
<1>10. CacheOK(op.m, l)
  <2>1. ASSUME op.m \notin Firsts, NEW f \in Files, NEW c \in 1..Sizes[f]
        PROVE  l["record"][f][c] \in {None, l["partial"][f][c], l["tree"][f][c]}
    <3>1. k["record"][f][c] \in {None, k["partial"][f][c], k["tree"][f][c]}
      BY ZenonT(40), <1>2, <2>1 DEF CacheOK
    <3>2. CASE f = op.file
      BY ZenonT(40), <1>7, <1>8, <3>1, <3>2, BlankFacts
    <3>3. CASE f # op.file
      BY Zenon, <1>8, <3>1, <3>3
    <3> QED BY ZenonT(40), <3>2, <3>3
  <2>2. \A f \in Files : l["tree"][f] \in {Blank(f), op.m[f]}
    BY Zenon, <1>2, <1>8 DEF CacheOK
  <2> QED BY ZenonT(40), <1>2, <1>9, <2>1, <2>2 DEF CacheOK
<1>11. CacheInv' /\ HandedInv'
  BY Zenon, <1>1, <1>6, <1>10, CacheUpdate DEF IInv, HandedInv
<1> QED BY Zenon, <1>6, <1>11

\* nothing is required of the record of a cache that is being removed
LEMMA RemoveEffect ==
  ASSUME IInv, RemoveEntry
  PROVE  CacheInv' /\ HandedInv' /\ DOMAIN cache' = DOMAIN cache
<1> DEFINE k == cache[op.m]
<1>1. op.m \in DOMAIN cache /\ op.m \in Firsts
  BY Zenon DEF RemoveEntry, IInv, PlaceInv, HereInv, InCache
<1>2. CacheOK(op.m, k) /\ Shape(k)
  BY Zenon, <1>1 DEF IInv, CacheInv, CacheOK
<1>3. UNCHANGED handed
  BY Zenon DEF RemoveEntry, Backend
<1>4. CASE \E f \in Files : SetHere("tree", f, Blank(f))
  <2> PICK f \in Files : SetHere("tree", f, Blank(f))
    BY Zenon, <1>4
  <2>1. /\ DOMAIN cache' = DOMAIN cache
        /\ \A m \in DOMAIN cache \ {op.m} : cache'[m] = cache[m]
        /\ Shape(cache'[op.m])
        /\ \A p \in Parts, g \in Files : cache'[op.m][p][g] = IF p = "tree" /\ g = f THEN Blank(f) ELSE cache[op.m][p][g]
    BY SMTT(30), <1>1, <1>2, BlankFacts, SetHereEffect DEF Parts
  <2>2. \A g \in Files : cache'[op.m]["tree"][g] \in {Blank(g), op.m[g]}
    BY ZenonT(40), <1>2, <2>1 DEF CacheOK, Parts
  <2>3. CacheOK(op.m, cache'[op.m])
    BY Zenon, <1>1, <1>2, <2>1, <2>2 DEF CacheOK
  <2> QED BY Zenon, <1>1, <1>3, <2>1, <2>3, CacheUpdate DEF IInv, HandedInv
<1>5. CASE cache' = [cache EXCEPT ![op.m].record = EmptyCache.record]
  <2> DEFINE l == [k EXCEPT !["record"] = EmptyCache["record"]]
  <2>1. DOMAIN cache' = DOMAIN cache /\ cache'[op.m] = l /\ \A m \in DOMAIN cache \ {op.m} : cache'[m] = cache[m]
    BY Zenon, <1>1, <1>5
  <2>2. DOMAIN l = Parts /\ l["tree"] = k["tree"] /\ l["partial"] = k["partial"] /\ l["record"] = EmptyCache["record"]
    BY Zenon, <1>2 DEF Shape, Parts
  <2> HIDE DEF l
  <2>3. Shape(l)
    BY Zenon, <1>2, <2>2, EmptyFacts DEF Shape, Parts
  <2>4. CacheOK(op.m, l)
    BY Zenon, <1>1, <1>2, <2>2, <2>3 DEF CacheOK
  <2> QED BY Zenon, <1>1, <1>3, <2>1, <2>4, CacheUpdate DEF IInv, HandedInv
<1> QED BY Zenon, <1>4, <1>5 DEF RemoveEntry

-----------------------------------------------------------------------------
(* The invariant holds at first and is kept *)

\* nothing is cached or handed over at first
LEMMA InitIInv == Init => IInv
<1> SUFFICES ASSUME Init PROVE IInv
  BY Zenon
<1> DEFINE d0 == CHOOSE d \in Data : TRUE
<1>1. d0 \in Data
  BY Zenon, FileTransferAssumption
<1> HIDE DEF d0
<1>2. src = [f \in Files |-> [c \in 1..Sizes[f] |-> d0]]
  BY Zenon DEF Init, d0
<1>3. \A f \in Files : [c \in 1..Sizes[f] |-> d0] \in Contents(f)
  BY Zenon, <1>1 DEF Contents
<1>4. src \in Manifests
  BY Zenon, <1>2, <1>3 DEF Manifests
<1>5. pc = "idle" /\ op = NoOp /\ approved = src /\ want = FALSE /\ ticket = 0 /\ handed = {} /\ cache = [m \in {} |-> EmptyCache]
  BY Zenon DEF Init
<1>6. Types
  <2>1. want \in BOOLEAN
    BY Zenon, <1>5
  <2>2. pc \in PCs /\ ticket \in 0..2
    BY <1>5 DEF PCs
  <2> QED BY Zenon, <1>4, <1>5, <2>1, <2>2, NoOpFacts DEF Types
<1>7. PlaceInv
  BY <1>5, NoOpFacts, FilesFacts DEF PlaceInv, InCache, Filling, Fetching, Requesting
<1>8. HereInv
  BY Zenon, <1>5 DEF HereInv, Filling, Fetching, Requesting
<1>9. CacheInv /\ HandedInv
  <2>1. DOMAIN cache = {}
    BY Zenon, <1>5
  <2> QED BY Zenon, <1>5, <2>1 DEF CacheInv, HandedInv
<1> QED BY Zenon, <1>6, <1>7, <1>8, <1>9 DEF IInv

\* the data plane
LEMMA RequestIInv ==
  ASSUME IInv, Begin \/ Admit \/ Walk \/ \E ok \in BOOLEAN : Ask(ok) \/ ReadChunk(ok) \/ Manifest(ok)
  PROVE  IInv'
<1>0. op \in Op /\ ticket \in 0..2 /\ want \in BOOLEAN /\ approved \in Manifests /\ src \in Manifests
  BY Zenon DEF IInv, Types
<1>1. CASE Begin
  <2>1. op' \in Op /\ op'.m \in Manifests /\ op'.asks = "manifest" /\ op'.file = 0 /\ op'.chunk = 0 /\ pc' = "ask" /\ ticket' \in 0..2 /\ UNCHANGED <<Backend, cache>>
    <3>1. op' = [NoOp EXCEPT !.m = approved, !.asks = "manifest"] /\ pc' = "ask" /\ ticket' = 2 /\ UNCHANGED <<Backend, cache>>
      BY Zenon, <1>1 DEF Begin
    <3>2. op' \in Op /\ op'.m = approved /\ op'.asks = "manifest" /\ op'.file = 0 /\ op'.chunk = 0
      BY Zenon, <1>0, <3>1, NoOpFacts DEF Op
    <3> QED BY <1>0, <3>1, <3>2
  <2>2. PlaceInv'
    BY <2>1, FilesFacts DEF PlaceInv, InCache, Filling, Fetching, Requesting
  <2>3. HereInv'
    BY Zenon, <2>1 DEF HereInv, Filling, Fetching, Requesting
  <2> QED BY Zenon, <2>1, <2>2, <2>3, MoveIInv DEF PCs
<1>2. CASE Admit
  <2>1. CASE ticket > 0
    <3>1. op' = [op EXCEPT !.walk = 1] /\ 1 \in 0..Len(Sizes) /\ 1 \in Files
      BY <1>2, <2>1, FilesFacts DEF Admit
    <3>2. op' \in Op /\ op'.walk = 1 /\ op'.m = op.m /\ op'.asks = op.asks /\ op'.file = op.file /\ op'.chunk = op.chunk
      BY Zenon, <1>0, <3>1 DEF Op
    <3>3. UNCHANGED <<Backend, cache, ticket>> /\ pc = "admit" /\ pc' = "walk"
      BY Zenon, <1>2, <2>1 DEF Admit
    <3> QED BY Zenon, <1>0, <3>1, <3>2, <3>3, RequestMove DEF Requesting
  <2>2. CASE ~(ticket > 0)
    BY Zenon, <1>0, <1>2, <2>2, PlainFail DEF Admit, Backend
  <2> QED BY Zenon, <2>1, <2>2
<1>3. CASE Walk
  <2>0. UNCHANGED <<Backend, cache, ticket>> /\ pc = "walk" /\ op.walk \in Files
    BY Zenon, <1>3 DEF Walk, IInv, PlaceInv
  <2>1. CASE ~FileVerified(op.m, op.walk, src[op.walk])
    BY Zenon, <1>0, <1>3, <2>0, <2>1, PlainFail DEF Walk, Backend
  <2>2. CASE FileVerified(op.m, op.walk, src[op.walk]) /\ op.walk < Len(Sizes)
    <3>1. op' = [op EXCEPT !.walk = op.walk + 1] /\ pc' = "walk"
      BY Zenon, <1>3, <2>0, <2>2 DEF Walk
    <3>2. op.walk + 1 \in Files /\ op.walk + 1 \in 0..Len(Sizes)
      BY <2>0, <2>2, FilesFacts
    <3>3. op' \in Op /\ op'.walk = op.walk + 1 /\ op'.m = op.m /\ op'.asks = op.asks /\ op'.file = op.file /\ op'.chunk = op.chunk
      BY Zenon, <1>0, <3>1, <3>2 DEF Op
    <3> QED BY Zenon, <1>0, <2>0, <3>1, <3>2, <3>3, RequestMove DEF Requesting
  <2>3. CASE FileVerified(op.m, op.walk, src[op.walk]) /\ ~(op.walk < Len(Sizes))
    <3>1. op' = [op EXCEPT !.walk = 0] /\ 0 \in 0..Len(Sizes) /\ pc' = IF op.asks = "manifest" THEN "manifest" ELSE "read"
      BY <1>3, <2>0, <2>3, FilesFacts DEF Walk
    <3>2. op' \in Op /\ op'.walk = 0 /\ op'.m = op.m /\ op'.asks = op.asks /\ op'.file = op.file /\ op'.chunk = op.chunk
      BY Zenon, <1>0, <3>1 DEF Op
    <3>3. op.asks \in {"manifest", "chunk"} /\ op.m \in Manifests /\ (op.asks = "manifest" => op.file = 0 /\ op.chunk = 0)
      BY Zenon, <2>0 DEF IInv, PlaceInv
    <3>4. CASE op.asks = "chunk"
      BY Zenon, <1>0, <2>0, <3>1, <3>2, <3>4, RequestMove DEF Requesting
    <3>5. CASE op.asks = "manifest"
      <4>1. PlaceInv'
        BY <3>1, <3>2, <3>3, <3>5, FilesFacts DEF PlaceInv, InCache, Filling, Fetching, Requesting
      <4>2. HereInv'
        BY Zenon, <3>1, <3>5 DEF HereInv, Filling, Fetching, Requesting
      <4> QED BY Zenon, <1>0, <2>0, <3>1, <3>2, <3>5, <4>1, <4>2, MoveIInv DEF PCs
    <3> QED BY Zenon, <3>3, <3>4, <3>5
  <2> QED BY Zenon, <2>1, <2>2, <2>3
<1>4. CASE \E ok \in BOOLEAN : Ask(ok)
  <2> PICK ok \in BOOLEAN : Ask(ok)
    BY Zenon, <1>4
  <2>1. ticket' \in 0..2 /\ UNCHANGED <<Backend, cache>> /\ pc = "ask"
    BY SMTT(30), <1>0 DEF Ask, EnsureTicket
  <2>2. CASE ok
    BY Zenon, <1>0, <2>1, <2>2, RequestMove DEF Ask, Goto, Requesting
  <2>3. CASE ~ok
    BY Zenon, <1>0, <2>1, <2>3, PlainFail DEF Ask, Backend
  <2> QED BY Zenon, <2>2, <2>3
<1>5. CASE \E ok \in BOOLEAN : ReadChunk(ok)
  <2> PICK ok \in BOOLEAN : ReadChunk(ok)
    BY Zenon, <1>5
  <2>1. UNCHANGED <<Backend, cache, ticket>> /\ pc = "read"
    BY Zenon DEF ReadChunk
  <2>2. CASE ok
    <3>1. op.file \in Files /\ op.chunk \in 1..Sizes[op.file] /\ op.asks = "chunk"
      BY Zenon, <2>1 DEF IInv, PlaceInv, InCache, Filling, Fetching
    <3>2. src[op.file][op.chunk] \in Data
      BY Zenon, <1>0, <3>1, ManifestFacts DEF Contents
    <3>3. op' = [op EXCEPT !.data = src[op.file][op.chunk]] /\ pc' = "write"
      BY Zenon, <2>2 DEF ReadChunk
    <3>4. op' \in Op /\ op'.m = op.m /\ op'.asks = op.asks /\ op'.file = op.file /\ op'.chunk = op.chunk
      BY Zenon, <1>0, <3>2, <3>3 DEF Op
    <3> QED BY Zenon, <1>0, <2>1, <3>1, <3>3, <3>4, RequestMove
  <2>3. CASE ~ok
    BY Zenon, <1>0, <2>1, <2>3, PlainFail DEF ReadChunk, Backend
  <2> QED BY Zenon, <2>2, <2>3
<1>6. CASE \E ok \in BOOLEAN : Manifest(ok)
  <2> PICK ok \in BOOLEAN : Manifest(ok)
    BY Zenon, <1>6
  <2>1. UNCHANGED <<Backend, cache, ticket>> /\ pc = "manifest"
    BY Zenon DEF Manifest
  <2>2. CASE ok
    <3>1. pc' = "capacity" /\ op' = op
      BY Zenon, <2>2 DEF Manifest, Goto
    <3>2. PlaceInv'
      BY Zenon, <2>1, <3>1 DEF IInv, PlaceInv, InCache, Filling, Fetching, Requesting
    <3>3. HereInv'
      BY Zenon, <3>1 DEF HereInv, Filling, Fetching, Requesting
    <3> QED BY Zenon, <1>0, <2>1, <3>1, <3>2, <3>3, MoveIInv DEF PCs
  <2>3. CASE ~ok
    BY Zenon, <1>0, <2>1, <2>3, PlainFail DEF Manifest, Backend
  <2> QED BY Zenon, <2>2, <2>3
<1> QED BY Zenon, <1>1, <1>2, <1>3, <1>4, <1>5, <1>6

\* the download: opening the cache, and going from file to file and from chunk to chunk
LEMMA DownloadIInv ==
  ASSUME IInv, File \/ Chunk \/ \E ok \in BOOLEAN : Capacity(ok)
  PROVE  IInv'
<1>0. op \in Op /\ ticket \in 0..2 /\ want \in BOOLEAN /\ approved \in Manifests /\ src \in Manifests
  BY Zenon DEF IInv, Types
<1>1. CASE \E ok \in BOOLEAN : Capacity(ok)
  <2> PICK ok \in BOOLEAN : Capacity(ok)
    BY Zenon, <1>1
  <2>0. UNCHANGED <<Backend, ticket>> /\ pc = "capacity" /\ op.m \in Manifests
    BY Zenon DEF Capacity, IInv, PlaceInv
  <2>1. CASE ok
    <3>1. op' = [op EXCEPT !.asks = "chunk", !.file = 1] /\ pc' = "file" /\ OpenCache
      BY Zenon, <2>1 DEF Capacity
    <3>2. 1 \in 0..Len(Sizes) + 1
      BY FilesFacts
    <3>3. op' \in Op /\ op'.m = op.m /\ op'.asks = "chunk" /\ op'.file = 1 /\ op'.chunk = op.chunk
      BY Zenon, <1>0, <3>1, <3>2 DEF Op
    <3>4. DOMAIN cache' = DOMAIN cache \cup {op.m} /\ \A m \in DOMAIN cache' : cache'[m] = IF m \in DOMAIN cache THEN cache[m] ELSE EmptyCache
      BY Zenon, <3>1 DEF OpenCache
    <3>5. Firsts' = Firsts /\ HandedInv'
      BY Zenon, <2>0 DEF Backend, Firsts, HandedInv, IInv
    <3>6. CacheOK(op.m, EmptyCache)
      <4>1. \A f \in Files : EmptyCache["tree"][f] = Blank(f) /\ EmptyCache["record"][f] = Blank(f)
        BY Zenon, EmptyFacts DEF Parts
      <4> QED BY Zenon, <2>0, <4>1, EmptyFacts, BlankFacts DEF CacheOK
    <3>7. \A m \in DOMAIN cache' : CacheOK(m, cache'[m])
      BY Zenon, <3>4, <3>6 DEF IInv, CacheInv
    <3>8. CacheInv'
      BY Zenon, <3>5, <3>7 DEF CacheInv, CacheOK, Shape
    <3>9. op.chunk = 0
      BY Zenon, <2>0 DEF IInv, PlaceInv
    <3>10. PlaceInv'
      BY <2>0, <3>1, <3>3, <3>4, <3>9, FilesFacts DEF PlaceInv, InCache, Filling, Fetching, Requesting
    <3>11. HereInv'
      BY Zenon, <3>1 DEF HereInv, Filling, Fetching, Requesting
    <3>12. Types'
      BY Zenon, <1>0, <2>0, <3>1, <3>3 DEF Types, PCs, Backend
    <3> QED BY Zenon, <3>5, <3>8, <3>10, <3>11, <3>12 DEF IInv
  <2>2. CASE ~ok
    BY Zenon, <1>0, <2>0, <2>2, PlainFail DEF Capacity, Backend
  <2> QED BY Zenon, <2>1, <2>2
<1>2. CASE File
  <2>0. /\ UNCHANGED <<Backend, cache, ticket>> /\ pc = "file" /\ op.chunk = 0 /\ op.file # 0 /\ op.asks = "chunk"
        /\ op.m \in Manifests /\ op.m \in DOMAIN cache /\ op.file \in 0..Len(Sizes) + 1
    BY Zenon, <1>0, <1>2 DEF File, IInv, PlaceInv, InCache, Op
  <2>1. CASE op.file > Len(Sizes)
    <3>1. pc' = "verify" /\ op' = op
      BY Zenon, <1>2, <2>1 DEF File, Goto
    <3>2. op.file \notin Files
      BY SMTT(30), <2>0, <2>1, FilesFacts
    <3>3. PlaceInv'
      BY Zenon, <2>0, <3>1, <3>2 DEF PlaceInv, InCache, Filling, Fetching, Requesting
    <3>4. HereInv'
      BY Zenon, <3>1 DEF HereInv, Filling, Fetching, Requesting
    <3> QED BY Zenon, <1>0, <2>0, <3>1, <3>3, <3>4, MoveIInv DEF PCs
  <2>2. CASE ~(op.file > Len(Sizes)) /\ FileVerified(op.m, op.file, Here.tree[op.file])
    <3>1. pc' = "file" /\ op' = [op EXCEPT !.file = op.file + 1, !.chunk = 0]
      BY Zenon, <1>2, <2>2 DEF File, NextFile
    <3>2. op.file + 1 \in 0..Len(Sizes) + 1 /\ op.file + 1 # 0
      BY <2>0, <2>2, FilesFacts
    <3>3. op' \in Op /\ op'.m = op.m /\ op'.asks = "chunk" /\ op'.file = op.file + 1 /\ op'.chunk = 0
      BY Zenon, <1>0, <2>0, <3>1, <3>2 DEF Op
    <3>4. PlaceInv'
      BY <2>0, <3>1, <3>2, <3>3, FilesFacts DEF PlaceInv, InCache, Filling, Fetching, Requesting
    <3>5. HereInv'
      BY Zenon, <3>1 DEF HereInv, Filling, Fetching, Requesting
    <3> QED BY Zenon, <1>0, <2>0, <3>1, <3>3, <3>4, <3>5, MoveIInv DEF PCs
  <2>3. CASE ~(op.file > Len(Sizes)) /\ ~FileVerified(op.m, op.file, Here.tree[op.file])
    <3>1. pc' = "chunk" /\ op' = [op EXCEPT !.chunk = 1]
      BY Zenon, <1>2, <2>3 DEF File
    <3>2. op.file \in Files /\ 1 \in 1..Sizes[op.file] + 1
      BY <2>0, <2>3, FilesFacts
    <3>3. op' \in Op /\ op'.m = op.m /\ op'.asks = "chunk" /\ op'.file = op.file /\ op'.chunk = 1
      BY Zenon, <1>0, <2>0, <3>1 DEF Op
    <3>4. cache[op.m]["tree"][op.file] = Blank(op.file)
      BY Zenon, <2>0, <2>3, <3>2 DEF IInv, CacheInv, CacheOK, FileVerified, Here
    <3>5. PlaceInv'
      BY <2>0, <3>1, <3>2, <3>3, FilesFacts DEF PlaceInv, InCache, Filling, Fetching, Requesting
    <3>6. HereInv'
      BY Zenon, <2>0, <3>1, <3>3, <3>4 DEF HereInv, Fetching, Requesting
    <3> QED BY Zenon, <1>0, <2>0, <3>1, <3>3, <3>5, <3>6, MoveIInv DEF PCs
  <2> QED BY Zenon, <2>1, <2>2, <2>3
<1>3. CASE Chunk
  <2>0. /\ UNCHANGED <<Backend, cache, ticket>> /\ pc = "chunk" /\ op.file \in Files /\ op.chunk \in 1..Sizes[op.file] + 1 /\ op.asks = "chunk"
        /\ op.m \in Manifests /\ op.m \in DOMAIN cache /\ cache[op.m]["tree"][op.file] = Blank(op.file) /\ Sizes[op.file] \in Nat
    BY ZenonT(40), <1>3, FilesFacts DEF Chunk, IInv, PlaceInv, InCache, HereInv, Filling
  <2>1. CASE op.chunk > Sizes[op.file]
    <3>1. pc' = "assemble" /\ op' = op
      BY Zenon, <1>3, <2>1 DEF Chunk, Goto
    <3>2. PlaceInv'
      BY SMTT(30), <2>0, <3>1 DEF PlaceInv, InCache, Filling, Fetching, Requesting
    <3>3. HereInv'
      BY Zenon, <2>0, <3>1 DEF HereInv, Filling, Fetching, Requesting
    <3> QED BY Zenon, <1>0, <2>0, <3>1, <3>2, <3>3, MoveIInv DEF PCs
  <2>2. CASE ~(op.chunk > Sizes[op.file]) /\ OnRecord(op.file, op.chunk)
    <3>1. pc' = "chunk" /\ op' = [op EXCEPT !.chunk = op.chunk + 1, !.data = None]
      BY Zenon, <1>3, <2>2 DEF Chunk, NextChunk
    <3>2. op.chunk + 1 \in 1..Sizes[op.file] + 1 /\ op.chunk + 1 \in Nat
      BY <2>0, <2>2
    <3>3. op' \in Op /\ op'.m = op.m /\ op'.asks = "chunk" /\ op'.file = op.file /\ op'.chunk = op.chunk + 1
      BY ZenonT(40), <1>0, <2>0, <3>1, <3>2 DEF Op
    <3>4. PlaceInv'
      BY <2>0, <3>1, <3>2, <3>3 DEF PlaceInv, InCache, Filling, Fetching, Requesting
    <3>5. HereInv'
      BY Zenon, <2>0, <3>1, <3>3 DEF HereInv, Filling, Fetching, Requesting
    <3> QED BY Zenon, <1>0, <2>0, <3>1, <3>3, <3>4, <3>5, MoveIInv DEF PCs
  <2>3. CASE ~(op.chunk > Sizes[op.file]) /\ ~OnRecord(op.file, op.chunk)
    <3>1. pc' = "ask" /\ op' = op /\ Firsts' = Firsts
      BY Zenon, <1>3, <2>3 DEF Chunk, Goto, Firsts, Backend
    <3>2. op.chunk \in 1..Sizes[op.file]
      BY <2>0, <2>3
    <3>3. op.m \notin Firsts => cache[op.m]["record"][op.file][op.chunk] = None
      <4>1. Blank(op.file)[op.chunk] = None
        BY Zenon, <2>0, <3>2, BlankFacts
      <4>2. CacheOK(op.m, cache[op.m])
        BY Zenon, <2>0 DEF IInv, CacheInv
      <4>3. op.m \notin Firsts => cache[op.m]["record"][op.file][op.chunk] \in {None, cache[op.m]["partial"][op.file][op.chunk]}
        <5>1. op.m \notin Firsts => \A c \in 1..Sizes[op.file] :
                cache[op.m]["record"][op.file][c] \in {None, cache[op.m]["partial"][op.file][c], cache[op.m]["tree"][op.file][c]}
          BY Zenon, <2>0, <4>2 DEF CacheOK
        <5> QED BY ZenonT(40), <2>0, <3>2, <4>1, <5>1
      <4> QED BY Zenon, <2>3, <4>3 DEF OnRecord, Here
    <3>4. PlaceInv'
      BY SMTT(30), <2>0, <3>1, <3>2 DEF PlaceInv, InCache, Filling, Fetching, Requesting
    <3>5. HereInv'
      BY Zenon, <2>0, <3>1, <3>3 DEF HereInv
    <3> QED BY Zenon, <1>0, <2>0, <3>1, <3>4, <3>5, MoveIInv DEF PCs
  <2> QED BY Zenon, <2>1, <2>2, <2>3
<1> QED BY Zenon, <1>1, <1>2, <1>3

\* the download: a chunk is written and put on record, a file is completed
LEMMA WriteIInv ==
  ASSUME IInv, \E ok \in BOOLEAN : Write(ok) \/ Save(ok) \/ Assemble(ok)
  PROVE  IInv'
<1>0. op \in Op /\ ticket \in 0..2 /\ want \in BOOLEAN /\ Types
  BY Zenon DEF IInv, Types
<1>1. CASE \E ok \in BOOLEAN : Write(ok)
  <2> PICK ok \in BOOLEAN : Write(ok)
    BY Zenon, <1>1
  <2>0. UNCHANGED <<Backend, ticket>> /\ pc = "write" /\ Fetching /\ Filling
    BY Zenon DEF Write, Fetching, Filling
  <2>1. CASE ok
    <3>1. pc' = "save" /\ op' = op /\ SetHere("partial", op.file, WrittenChunk)
      BY Zenon, <2>1 DEF Write, Goto
    <3>2. /\ CacheInv' /\ HandedInv' /\ DOMAIN cache' = DOMAIN cache /\ cache'[op.m]["tree"][op.file] = Blank(op.file)
          /\ cache'[op.m]["partial"][op.file][op.chunk] = op.data
      BY Zenon, <2>0, <3>1, WriteEffect DEF Backend
    <3>3. PlaceInv'
      BY ZenonT(40), <2>0, <3>1, <3>2 DEF IInv, PlaceInv, InCache, Filling, Fetching, Requesting
    <3>4. HereInv'
      BY Zenon, <3>1, <3>2 DEF HereInv, Fetching, Requesting
    <3>5. Types'
      BY Zenon, <1>0, <2>0, <3>1 DEF Types, PCs, Backend
    <3> QED BY Zenon, <3>2, <3>3, <3>4, <3>5 DEF IInv
  <2>2. CASE ~ok
    <3>1. CacheInv' /\ HandedInv'
      BY Zenon, <2>0, <2>2, WriteEffect, CachesKept DEF Write, Backend
    <3> QED BY Zenon, <1>0, <2>0, <2>2, <3>1, FailIInv DEF Write, Backend
  <2> QED BY Zenon, <2>1, <2>2
<1>2. CASE \E ok \in BOOLEAN : Save(ok)
  <2> PICK ok \in BOOLEAN : Save(ok)
    BY Zenon, <1>2
  <2>0. /\ UNCHANGED <<Backend, ticket>> /\ pc = "save" /\ op.file \in Files /\ op.chunk \in 1..Sizes[op.file] /\ Sizes[op.file] \in Nat
        /\ op.asks = "chunk" /\ op.m \in Manifests /\ op.m \in DOMAIN cache
    BY Zenon, FilesFacts DEF Save, IInv, PlaceInv, InCache, Filling
  <2>1. CASE ok
    <3>1. /\ pc' = "chunk" /\ op' = [op EXCEPT !.chunk = op.chunk + 1, !.data = None]
          /\ SetHere("record", op.file, [Here.record[op.file] EXCEPT ![op.chunk] = op.data])
      BY Zenon, <2>1 DEF Save, NextChunk
    <3>2. op.chunk + 1 \in 1..Sizes[op.file] + 1 /\ op.chunk + 1 \in Nat
      BY <2>0
    <3>3. op' \in Op /\ op'.m = op.m /\ op'.asks = "chunk" /\ op'.file = op.file /\ op'.chunk = op.chunk + 1
      BY ZenonT(40), <1>0, <2>0, <3>1, <3>2 DEF Op
    <3>4. CacheInv' /\ HandedInv' /\ DOMAIN cache' = DOMAIN cache /\ cache'[op.m]["tree"][op.file] = Blank(op.file)
      BY Zenon, <2>0, <3>1, SaveEffect DEF Backend
    <3>5. PlaceInv'
      BY <2>0, <3>1, <3>2, <3>3, <3>4 DEF PlaceInv, InCache, Filling, Fetching, Requesting
    <3>6. HereInv'
      BY Zenon, <3>1, <3>3, <3>4 DEF HereInv, Fetching, Requesting
    <3>7. Types'
      BY Zenon, <1>0, <2>0, <3>1, <3>3 DEF Types, PCs, Backend
    <3> QED BY Zenon, <3>4, <3>5, <3>6, <3>7 DEF IInv
  <2>2. CASE ~ok
    <3>1. CacheInv' /\ HandedInv'
      BY Zenon, <2>0, <2>2, SaveEffect, CachesKept DEF Save, Backend
    <3> QED BY Zenon, <1>0, <2>0, <2>2, <3>1, FailIInv DEF Save, Backend
  <2> QED BY Zenon, <2>1, <2>2
<1>3. CASE \E ok \in BOOLEAN : Assemble(ok)
  <2> PICK ok \in BOOLEAN : Assemble(ok)
    BY Zenon, <1>3
  <2>0. /\ UNCHANGED <<Backend, ticket>> /\ pc = "assemble" /\ op.file \in Files
        /\ op.asks = "chunk" /\ op.m \in Manifests /\ op.m \in DOMAIN cache
    BY Zenon DEF Assemble, IInv, PlaceInv, InCache, Filling
  <2>1. CASE FileVerified(op.m, op.file, Here.partial[op.file]) /\ ok
    <3>1. /\ pc' = "file" /\ op' = [op EXCEPT !.file = op.file + 1, !.chunk = 0]
          /\ cache' = [cache EXCEPT ![op.m].tree[op.file] = Here.partial[op.file], ![op.m].partial[op.file] = Blank(op.file)]
      BY Zenon, <2>1 DEF Assemble, NextFile
    <3>2. op.file + 1 \in 0..Len(Sizes) + 1 /\ op.file + 1 # 0
      BY <2>0, FilesFacts
    <3>3. op' \in Op /\ op'.m = op.m /\ op'.asks = "chunk" /\ op'.file = op.file + 1 /\ op'.chunk = 0
      BY Zenon, <1>0, <2>0, <3>1, <3>2 DEF Op
    <3>4. CacheInv' /\ HandedInv' /\ DOMAIN cache' = DOMAIN cache
      BY Zenon, <2>0, <2>1, <3>1, AssembleEffect DEF Backend
    <3>5. PlaceInv'
      BY <2>0, <3>1, <3>2, <3>3, <3>4, FilesFacts DEF PlaceInv, InCache, Filling, Fetching, Requesting
    <3>6. HereInv'
      BY Zenon, <3>1 DEF HereInv, Filling, Fetching, Requesting
    <3>7. Types'
      BY Zenon, <1>0, <2>0, <3>1, <3>3 DEF Types, PCs, Backend
    <3> QED BY Zenon, <3>4, <3>5, <3>6, <3>7 DEF IInv
  <2>2. CASE ~(FileVerified(op.m, op.file, Here.partial[op.file]) /\ ok)
    BY Zenon, <1>0, <2>0, <2>2, PlainFail DEF Assemble, Backend
  <2> QED BY Zenon, <2>1, <2>2
<1> QED BY Zenon, <1>1, <1>2, <1>3

\* the end of a sync: the tree is verified and handed over, and the cache removed
LEMMA HandOverIInv ==
  ASSUME IInv, VerifyTree \/ RemoveEntry \/ \E ok \in BOOLEAN : Apply(ok) \/ RemoveCache(ok)
  PROVE  IInv'
<1>0. op \in Op /\ ticket \in 0..2 /\ want \in BOOLEAN /\ Types
  BY Zenon DEF IInv, Types
<1>1. CASE VerifyTree
  <2>0. UNCHANGED <<Backend, cache, ticket>> /\ pc = "verify" /\ op.m \in Manifests /\ op.m \in DOMAIN cache /\ op.asks = "chunk"
    BY Zenon, <1>1 DEF VerifyTree, IInv, PlaceInv, InCache
  <2>1. CASE Goto("apply") /\ \A f \in Files : FileVerified(op.m, f, Here.tree[f])
    <3>1. pc' = "apply" /\ op' = op
      BY Zenon, <2>1 DEF Goto
    <3>2. cache[op.m]["tree"] = op.m
      <4>1. cache[op.m]["tree"] = [f \in Files |-> cache[op.m]["tree"][f]] /\ op.m = [f \in Files |-> op.m[f]]
        BY ZenonT(40), <2>0, ManifestFacts DEF IInv, CacheInv, CacheOK, Shape, Parts
      <4>2. \A f \in Files : cache[op.m]["tree"][f] = op.m[f]
        BY Zenon, <2>1 DEF FileVerified, Here
      <4> QED BY Zenon, <4>1, <4>2
    <3>3. PlaceInv'
      BY Zenon, <2>0, <3>1 DEF IInv, PlaceInv, InCache, Filling, Fetching, Requesting
    <3>4. HereInv'
      BY Zenon, <2>0, <3>1, <3>2 DEF HereInv, Filling, Fetching, Requesting
    <3> QED BY Zenon, <1>0, <2>0, <3>1, <3>3, <3>4, MoveIInv DEF PCs
  <2>2. CASE Fail
    BY Zenon, <1>0, <2>0, <2>2, PlainFail DEF Backend
  <2> QED BY Zenon, <1>1, <2>1, <2>2 DEF VerifyTree
<1>2. CASE RemoveEntry
  <2>1. pc = "remove" /\ UNCHANGED <<pc, op, Backend, ticket>>
    BY Zenon, <1>2 DEF RemoveEntry
  <2>2. CacheInv' /\ HandedInv' /\ DOMAIN cache' = DOMAIN cache
    BY Zenon, <1>2, RemoveEffect
  <2>3. Types'
    BY Zenon, <1>0, <2>1 DEF Types, Backend
  <2>4. PlaceInv'
    BY Zenon, <2>1, <2>2 DEF IInv, PlaceInv, InCache, Filling, Fetching, Requesting
  <2>5. HereInv'
    BY Zenon, <2>1 DEF IInv, HereInv, Filling, Fetching, Requesting, Firsts, Backend
  <2> QED BY Zenon, <2>2, <2>3, <2>4, <2>5 DEF IInv
<1>3. CASE \E ok \in BOOLEAN : Apply(ok)
  <2> PICK ok \in BOOLEAN : Apply(ok)
    BY Zenon, <1>3
  <2>0. /\ UNCHANGED <<src, approved, want, cache, ticket>> /\ pc = "apply" /\ op.m \in Manifests /\ cache[op.m]["tree"] = op.m
        /\ handed' = handed \cup {<<op.m, cache[op.m]["tree"]>>}
    BY Zenon DEF Apply, IInv, PlaceInv, HereInv, Here
  <2>1. HandedInv'
    BY Zenon, <2>0 DEF IInv, HandedInv
  <2>2. Firsts \subseteq Firsts' /\ op.m \in Firsts'
    <3>1. <<op.m, op.m>> \in handed' /\ <<op.m, op.m>>[1] = op.m
      BY Zenon, <2>0
    <3> QED BY Zenon, <2>0, <3>1 DEF Firsts
  <2>3. CacheInv'
    BY Zenon, <2>0, <2>2 DEF IInv, CacheInv, CacheOK
  <2>4. CASE ok
    <3>1. pc' = "remove" /\ op' = op
      BY Zenon, <2>4 DEF Apply, Goto
    <3>2. PlaceInv'
      BY ZenonT(40), <2>0, <3>1 DEF IInv, PlaceInv, InCache, Filling, Fetching, Requesting
    <3>3. HereInv'
      BY Zenon, <2>2, <3>1 DEF HereInv, Filling, Fetching, Requesting
    <3>4. Types'
      BY Zenon, <1>0, <2>0, <3>1 DEF Types, PCs
    <3> QED BY Zenon, <2>1, <2>3, <3>2, <3>3, <3>4 DEF IInv
  <2>5. CASE ~ok
    BY Zenon, <1>0, <2>0, <2>1, <2>3, <2>5, FailIInv DEF Apply
  <2> QED BY Zenon, <2>4, <2>5
<1>4. CASE \E ok \in BOOLEAN : RemoveCache(ok)
  <2> PICK ok \in BOOLEAN : RemoveCache(ok)
    BY Zenon, <1>4
  <2>0. UNCHANGED <<src, approved, handed, ticket>> /\ Fail /\ want' \in BOOLEAN
    BY Zenon DEF RemoveCache
  <2>1. CASE ok
    <3>1. cache' = [m \in DOMAIN cache \ {op.m} |-> cache[m]]
      BY Zenon, <2>1 DEF RemoveCache
    <3>2. \A m \in DOMAIN cache' : m \in DOMAIN cache /\ cache'[m] = cache[m]
      BY Zenon, <3>1
    <3>3. HandedInv' /\ Firsts' = Firsts
      BY Zenon, <2>0 DEF IInv, HandedInv, Firsts
    <3>4. \A m \in DOMAIN cache' : CacheOK(m, cache'[m])
      BY Zenon, <3>2 DEF IInv, CacheInv
    <3>5. CacheInv'
      BY Zenon, <3>3, <3>4 DEF CacheInv, CacheOK, Shape
    <3> QED BY Zenon, <1>0, <2>0, <3>3, <3>5, FailIInv
  <2>2. CASE ~ok
    BY Zenon, <1>0, <2>0, <2>2, PlainFail DEF RemoveCache
  <2> QED BY Zenon, <2>1, <2>2
<1> QED BY Zenon, <1>1, <1>2, <1>3, <1>4

\* the backend, the users of the source, time and crashes
LEMMA OutsideIInv ==
  ASSUME IInv, Request \/ Tick \/ Crash \/ \E f \in Files : \E c \in 1..Sizes[f], d \in Data : Edit(f, c, d)
  PROVE  IInv'
<1>0. op \in Op /\ ticket \in 0..2 /\ want \in BOOLEAN /\ src \in Manifests /\ approved \in Manifests /\ pc \in PCs /\ Types
  BY Zenon DEF IInv, Types
<1>a. UNCHANGED <<cache, pc, op, handed>> => (PlaceInv /\ HereInv)'
  BY Zenon DEF IInv, PlaceInv, HereInv, Filling, Fetching, Firsts
<1>1. CASE Request
  <2>1. UNCHANGED <<src, cache, pc, op, ticket, handed>> /\ approved' = src /\ want' = TRUE
    BY Zenon, <1>1 DEF Request
  <2>2. want' \in BOOLEAN
    BY Zenon, <2>1
  <2>3. Types'
    BY Zenon, <1>0, <2>1, <2>2 DEF Types
  <2> QED BY Zenon, <1>a, <2>1, <2>3, CachesKept DEF IInv
<1>2. CASE Tick
  <2>1. UNCHANGED <<Backend, cache, pc, op>> /\ ticket' \in 0..2
    BY <1>0, <1>2 DEF Tick
  <2> QED BY Zenon, <1>0, <1>a, <2>1, MoveIInv DEF Backend
<1>3. CASE Crash
  <2>1. UNCHANGED <<Backend, ticket>> /\ Fail
    BY Zenon, <1>3 DEF Crash
  <2>2. CacheInv' /\ HandedInv'
    BY Zenon, <1>3, <2>1, WriteEffect, CachesKept DEF Crash, Backend
  <2> QED BY Zenon, <1>0, <2>1, <2>2, FailIInv DEF Backend
<1>4. CASE \E f \in Files : \E c \in 1..Sizes[f], d \in Data : Edit(f, c, d)
  <2> PICK f \in Files : \E c \in 1..Sizes[f], d \in Data : Edit(f, c, d)
    BY Zenon, <1>4
  <2> PICK c \in 1..Sizes[f], d \in Data : Edit(f, c, d)
    BY Zenon
  <2>1. src' = [src EXCEPT ![f] = [src[f] EXCEPT ![c] = d]] /\ UNCHANGED <<approved, want, cache, pc, op, ticket, handed>>
    BY Zenon DEF Edit
  <2>2. [src[f] EXCEPT ![c] = d] \in Contents(f)
    BY Zenon, <1>0, ManifestFacts DEF Contents
  <2>3. src' \in Manifests
    BY Zenon, <1>0, <2>1, <2>2 DEF Manifests
  <2>4. Types'
    BY Zenon, <1>0, <2>1, <2>3 DEF Types
  <2> QED BY Zenon, <1>a, <2>1, <2>4, CachesKept DEF IInv
<1> QED BY Zenon, <1>1, <1>2, <1>3, <1>4

\* every step keeps the invariant
LEMMA NextIInv == IInv /\ [Next]_vars => IInv'
<1> SUFFICES ASSUME IInv, [Next]_vars PROVE IInv'
  BY Zenon
<1>1. CASE UNCHANGED vars
  <2>1. UNCHANGED <<Backend, cache, pc, op, ticket, handed>>
    BY Zenon, <1>1 DEF vars, Backend
  <2>2. PlaceInv' /\ HereInv'
    BY ZenonT(40), <2>1 DEF IInv, PlaceInv, HereInv, Filling, Fetching, Firsts
  <2>3. pc' \in PCs /\ op' \in Op /\ ticket' \in 0..2
    BY Zenon, <2>1 DEF IInv, Types
  <2> QED BY Zenon, <2>1, <2>2, <2>3, MoveIInv
<1>2. CASE Sync
  BY Zenon, <1>2, RequestIInv, DownloadIInv, WriteIInv, HandOverIInv DEF Sync
<1>3. CASE Next /\ ~Sync
  BY Zenon, <1>3, OutsideIInv DEF Next
<1> QED BY Zenon, <1>1, <1>2, <1>3

-----------------------------------------------------------------------------
(* The theorems *)

\* Every reachable state is well typed, and an agent that is idle keeps nothing of an attempt.
THEOREM TransferTypeCorrect == Spec => []TypeOK
<1>1. IInv => TypeOK
  <2> SUFFICES ASSUME IInv PROVE TypeOK
    BY Zenon
  <2>1. op.file \in 0..Len(Sizes) + 1 /\ op.walk \in 0..Len(Sizes)
    BY Zenon DEF IInv, Types, Op
  <2>2. handed \subseteq Manifests \X Manifests
    BY SMTT(30) DEF IInv, HandedInv
  <2>3. ASSUME NEW m \in DOMAIN cache, NEW f \in Files
        PROVE  /\ cache[m].tree[f] \in Contents(f) \cup {Blank(f)}
               /\ \A part \in {"partial", "record"} : cache[m][part][f] \in [1..Sizes[f] -> Data \cup {None}]
    <3>1. m \in Manifests /\ cache[m]["tree"][f] \in {Blank(f), m[f]} /\ Shape(cache[m])
      BY Zenon DEF IInv, CacheInv, CacheOK
    <3> QED BY ZenonT(40), <3>1, ManifestFacts DEF Shape, Parts, OnDisk
  <2>4. DOMAIN cache \subseteq Manifests
    BY Zenon DEF IInv, CacheInv, CacheOK
  <2> QED BY Zenon, <2>1, <2>2, <2>3, <2>4 DEF TypeOK, IInv, Types, PlaceInv
<1> QED BY <1>1, InitIInv, NextIInv, PTL DEF Spec

\* For any tree and any writes to the source, failures and crashes, filesSync gives applyFileTree the tree of the
\* approved manifest and no other.
THEOREM HandedAlways == Spec => []HandedIsManifest
<1>1. IInv => HandedIsManifest
  BY SMTT(30) DEF IInv, HandedInv, HandedIsManifest
<1> QED BY <1>1, InitIInv, NextIInv, PTL DEF Spec

\* For any files and chunks and at every crash, what downloadManifestTree has put on record in its checkpoint is on
\* disk, in the .partial file or in the finished one.
THEOREM RecordedAlways == Spec => []RecordedOnDisk
<1>1. IInv => RecordedOnDisk
  BY Zenon DEF IInv, CacheInv, CacheOK, RecordedOnDisk, Firsts
<1> QED BY <1>1, InitIInv, NextIInv, PTL DEF Spec

-----------------------------------------------------------------------------
(* Part 2: remote jobs *)

-----------------------------------------------------------------------------
(* The inductive invariant *)

\* which jobs a handler at position p can have
Suits(p, j) ==
  /\ p # "free" => j \in Jobs
  /\ p \in {"look", "repost", "drop", "put", "write", "rename"} => j \in Kept
  /\ p \in {"handled", "unhandled"} => j \in Audits

Formed == JobsTypeOK /\ \A h \in Handlers : Suits(at[h], job[h])

\* an audit has one handler, and is in flight as long as it has one
Exclusive ==
  /\ \A h \in Handlers : at[h] # "free" /\ job[h] \in Audits => job[h] \in inFlight
  /\ \A g, h \in Handlers :
       at[g] # "free" /\ at[h] # "free" /\ job[h] \in Audits /\ job[g] = job[h] => g = h

\* an acknowledged job is closed, an acknowledged audit is not begun again
Done ==
  /\ acked \cap open = {}
  /\ \A h \in Handlers : at[h] = "drop" => job[h] \in acked
  /\ \A h \in Handlers : at[h] # "free" /\ job[h] \in Audits /\ job[h] \in acked => at[h] \in {"drop", "handled"}
  /\ conf # NoJob /\ conf.audit \in acked => conf.audit \in inFlight \cup (recent \ aged)

\* no other handler disturbs the entry of an audit
Saved ==
  \A h \in Handlers :
    /\ at[h] \notin {"write", "rename"} => fd[h] = "none"
    /\ job[h] \in Audits /\ at[h] \in {"write", "rename"} => fd[h] = "tmp"
    /\ job[h] \in Audits /\ at[h] = "write" => tmp[job[h]] = Torn
    /\ job[h] \in Audits /\ at[h] = "rename" => tmp[job[h]] \in Nat
    /\ job[h] \in Audits /\ at[h] = "repost" => file[job[h]] \in Nat

\* an audit that used up its executions has a result, or is about to have one
Spent ==
  \A j \in Audits :
    /\ runs[j] <= 1 + (crashes + lost)
    /\ runs[j] <= crashes + lost \/ Entry(j) # "waiting"

JobsInv == Formed /\ Exclusive /\ Done /\ Saved /\ Spent

-----------------------------------------------------------------------------
(* Types *)

\* The backend offers an open job of the kind, or none (PollOnce).
LEMMA OfferType ==
  ASSUME NEW S
  PROVE  Offer(S) \in (S \cap open) \cup {NoJob}
BY Zenon DEF Offer

\* What a dispatch of the poll loop may change, whichever job it starts.
LEMMA DispatchEffect ==
  ASSUME Formed, Dispatch
  PROVE  /\ conf' = NoJob /\ last' \in Legacy \cup {NoJob}
         /\ UNCHANGED <<refused, open, acked, file, tmp, fd, faults, lost, crashes>>
         /\ recent' \subseteq recent /\ aged' \subseteq recent'
         /\ \/ UNCHANGED <<at, job, res, runs, inFlight>>
            \/ \E h \in Handlers, j \in Jobs, p \in {"look", "exec"} :
                 /\ at[h] = "free" /\ at' = [at EXCEPT ![h] = p] /\ job' = [job EXCEPT ![h] = j]
                 /\ res' = [res EXCEPT ![h] = runs'[j]]
                 /\ \/ p = "look" /\ j \in Kept /\ runs' = runs
                    \/ p = "exec" /\ j \notin Kept /\ runs' = [runs EXCEPT ![j] = @ + 1]
                 /\ inFlight' = inFlight \cup ({j} \cap Audits)
                 /\ j \in Audits => /\ j \notin inFlight /\ j \notin recent \ aged
                                    /\ conf # NoJob /\ conf.audit = j
<1> USE RemoteJobsAssumption DEF Jobs, Kept
<1>0. JobsTypeOK
  BY Zenon DEF Formed
<1>1. CASE DispatchAction
  <2>1. conf # NoJob /\ conf.action \in Actions
    BY ZenonT(40), <1>0, <1>1 DEF DispatchAction, JobsTypeOK
  <2>2. CASE conf.action \in refused
    BY Zenon, <1>0, <1>1, <2>2 DEF DispatchAction, Skip, JobsTypeOK, handling, storing
  <2>3. CASE conf.action \notin refused
    <3>1. Start(conf.action, "look")
      BY Zenon, <1>1, <2>3 DEF DispatchAction
    <3>2. PICK h \in Handlers : 
            /\ at[h] = "free" /\ at' = [at EXCEPT ![h] = "look"] /\ job' = [job EXCEPT ![h] = conf.action]
            /\ runs' = runs /\ res' = [res EXCEPT ![h] = runs'[conf.action]]
      BY Zenon, <3>1 DEF Start
    <3>3. inFlight' = inFlight \cup ({conf.action} \cap Audits) /\ conf.action \notin Audits
      BY SMTT(30), <1>1, <2>1 DEF DispatchAction
    <3> QED
      BY Zenon, <1>0, <1>1, <2>1, <3>2, <3>3 DEF DispatchAction, JobsTypeOK, storing
  <2> QED
    BY ZenonT(40), <2>2, <2>3
<1>2. CASE DispatchAudit
  <2>1. conf # NoJob /\ conf.audit \in Audits
    BY ZenonT(40), <1>0, <1>2 DEF DispatchAudit, JobsTypeOK
  <2>2. CASE conf.audit \in refused
    BY ZenonT(40), <1>0, <1>2, <2>2 DEF DispatchAudit, Skip, JobsTypeOK, handling, storing
  <2>3. CASE conf.audit \notin refused /\ conf.audit \in inFlight \cup recent'
    BY SMTT(30), <1>0, <1>2, <2>3 DEF DispatchAudit, Skip, JobsTypeOK, handling, storing
  <2>4. CASE conf.audit \notin refused /\ conf.audit \notin inFlight \cup recent'
    <3>1. /\ Start(conf.audit, "look") /\ inFlight' = inFlight \cup {conf.audit}
          /\ recent' = recent \ aged /\ aged' = {}
      BY Zenon, <1>2, <2>4 DEF DispatchAudit
    <3>2. PICK h \in Handlers : 
            /\ at[h] = "free" /\ at' = [at EXCEPT ![h] = "look"] /\ job' = [job EXCEPT ![h] = conf.audit]
            /\ runs' = runs /\ res' = [res EXCEPT ![h] = runs'[conf.audit]]
      BY Zenon, <3>1 DEF Start
    <3>3. inFlight' = inFlight \cup ({conf.audit} \cap Audits)
      BY SMTT(30), <2>1, <3>1
    <3> QED
      BY Zenon, <1>0, <1>2, <2>1, <2>4, <3>1, <3>2, <3>3 DEF DispatchAudit, JobsTypeOK, storing
  <2> QED
    BY ZenonT(40), <2>2, <2>3, <2>4
<1>3. CASE DispatchCommand
  <2>1. conf # NoJob /\ conf.command \in Commands
    BY ZenonT(40), <1>0, <1>3 DEF DispatchCommand, JobsTypeOK
  <2>2. CASE conf.command \in refused
    BY Zenon, <1>0, <1>3, <2>2 DEF DispatchCommand, Skip, JobsTypeOK, handling, storing
  <2>3. CASE conf.command \notin refused
    <3>1. Start(conf.command, "exec")
      BY Zenon, <1>3, <2>3 DEF DispatchCommand
    <3>2. PICK h \in Handlers : 
            /\ at[h] = "free" /\ at' = [at EXCEPT ![h] = "exec"] /\ job' = [job EXCEPT ![h] = conf.command]
            /\ runs' = [runs EXCEPT ![conf.command] = @ + 1] /\ res' = [res EXCEPT ![h] = runs'[conf.command]]
      BY Zenon, <3>1 DEF Start
    <3>3. inFlight' = inFlight \cup ({conf.command} \cap Audits) /\ conf.command \notin Kept
      BY SMTT(30), <1>3, <2>1 DEF DispatchCommand
    <3> QED
      BY Zenon, <1>0, <1>3, <2>1, <3>2, <3>3 DEF DispatchCommand, JobsTypeOK, storing
  <2> QED
    BY Zenon, <2>2, <2>3
<1>4. CASE DispatchLegacy
  <2>1. CASE conf.legacy \in refused \cup {last, NoJob}
    BY ZenonT(40), <1>0, <1>4, <2>1 DEF DispatchLegacy, Skip, JobsTypeOK, handling, storing
  <2>2. CASE conf.legacy \notin refused \cup {last, NoJob}
    <3>0. conf # NoJob /\ conf.legacy \in Legacy
      BY Zenon, <1>0, <1>4, <2>2 DEF DispatchLegacy, JobsTypeOK
    <3>1. Start(conf.legacy, "exec") /\ last' = conf.legacy
      BY Zenon, <1>4, <2>2 DEF DispatchLegacy
    <3>2. PICK h \in Handlers : 
            /\ at[h] = "free" /\ at' = [at EXCEPT ![h] = "exec"] /\ job' = [job EXCEPT ![h] = conf.legacy]
            /\ runs' = [runs EXCEPT ![conf.legacy] = @ + 1] /\ res' = [res EXCEPT ![h] = runs'[conf.legacy]]
      BY Zenon, <3>1 DEF Start
    <3>3. inFlight' = inFlight \cup ({conf.legacy} \cap Audits) /\ conf.legacy \notin Kept
      BY SMTT(30), <1>4, <3>0 DEF DispatchLegacy
    <3> QED
      BY Zenon, <1>0, <1>4, <3>0, <3>1, <3>2, <3>3 DEF DispatchLegacy, JobsTypeOK, storing
  <2> QED
    BY ZenonT(40), <2>1, <2>2
<1> QED
  BY ZenonT(40), <1>1, <1>2, <1>3, <1>4 DEF Dispatch

\* The handlers have well-formed positions and the state stays well typed.
LEMMA FormedInit == JobsInit => Formed
BY SMTT(30), RemoteJobsAssumption DEF JobsInit, Formed, JobsTypeOK, Jobs, Kept, Suits

\* A handler that goes on suits its job.
LEMMA MoveSuits ==
  ASSUME Formed, NEW h \in Handlers, NEW p, at' = [at EXCEPT ![h] = p], job' = job, Suits(p, job[h])
  PROVE  \A g \in Handlers : Suits(at[g], job[g])'
<1>1. ASSUME NEW g \in Handlers
      PROVE  Suits(at'[g], job'[g])
  <2>1. DOMAIN at = Handlers
    BY Zenon DEF Formed, JobsTypeOK
  <2>2. at'[g] = IF g = h THEN p ELSE at[g]
    BY Zenon, <2>1
  <2> QED
    BY Zenon, <2>2 DEF Formed
<1> QED
  BY Zenon, <1>1 DEF Suits

\* Every step keeps the state well typed and the handlers at suitable positions.
LEMMA FormedStep ==
  ASSUME Formed, [JobsNext]_jobVars
  PROVE  Formed'
<1> USE RemoteJobsAssumption
<1>0. JobsTypeOK
  BY Zenon DEF Formed
<1>1. ASSUME NEW ok \in BOOLEAN, Poll(ok)
      PROVE  Formed'
  <2>1. /\ Offer(Actions) \in Actions \cup {NoJob} /\ Offer(Audits) \in Audits \cup {NoJob}
        /\ Offer(Commands) \in Commands \cup {NoJob} /\ Offer(Legacy) \in Legacy \cup {NoJob}
    BY Zenon, OfferType
  <2>2. conf' = NoJob \/ conf' \in [action: Actions \cup {NoJob}, audit: Audits \cup {NoJob},
                                   command: Commands \cup {NoJob}, legacy: Legacy \cup {NoJob}]
    BY Zenon, <1>1, <2>1 DEF Poll
  <2>3. faults' \in Nat
    <3>1. faults \in Nat /\ JobFault(ok)
      BY Zenon, <1>0, <1>1 DEF JobsTypeOK, Poll
    <3> QED
      BY SMT, <3>1 DEF JobFault
  <2>4. JobsTypeOK'
    BY ZenonT(40), <1>0, <1>1, <2>2, <2>3 DEF JobsTypeOK, Poll, handling, storing
  <2> QED
    BY Zenon, <1>1, <2>4 DEF Formed, Poll, handling, Suits
<1>2. ASSUME Dispatch
      PROVE  Formed'
  <2>1. CASE UNCHANGED <<at, job, res, runs, inFlight>>
    <3>1. /\ conf' = NoJob /\ last' \in Legacy \cup {NoJob}
          /\ UNCHANGED <<refused, open, acked, file, tmp, fd, faults, lost, crashes>>
          /\ recent' \subseteq recent /\ aged' \subseteq recent'
      BY Zenon, <1>2, DispatchEffect
    <3>2. recent' \subseteq Audits
      BY Zenon, <1>0, <3>1 DEF JobsTypeOK
    <3>3. JobsTypeOK'
      BY Zenon, <1>0, <2>1, <3>1, <3>2 DEF JobsTypeOK
    <3> QED
      BY Zenon, <2>1, <3>3 DEF Formed, Suits
  <2>2. ASSUME NEW h \in Handlers, NEW j \in Jobs, NEW p \in {"look", "exec"},
               at' = [at EXCEPT ![h] = p], job' = [job EXCEPT ![h] = j],
               res' = [res EXCEPT ![h] = runs'[j]],
               \/ p = "look" /\ j \in Kept /\ runs' = runs
               \/ p = "exec" /\ j \notin Kept /\ runs' = [runs EXCEPT ![j] = @ + 1],
               inFlight' = inFlight \cup ({j} \cap Audits)
        PROVE  Formed'
    <3>1. runs' \in [Jobs -> Nat]
      BY SMTT(30), <1>0, <2>2 DEF JobsTypeOK
    <3>2. res' \in [Handlers -> Nat]
      BY Zenon, <1>0, <2>2, <3>1 DEF JobsTypeOK
    <3>3. JobsTypeOK'
      BY SMTT(30), <1>0, <1>2, <2>2, <3>1, <3>2, DispatchEffect DEF JobsTypeOK
    <3> QED
      <4>1. ASSUME NEW g \in Handlers
            PROVE  Suits(at[g], job[g])'
        <5>1. CASE g = h
          <6>1. at'[g] = p /\ job'[g] = j
            BY ZenonT(40), <1>0, <2>2, <5>1 DEF JobsTypeOK
          <6> QED
            BY Zenon, <2>2, <6>1 DEF Suits
        <5>2. CASE g # h
          <6>1. at'[g] = at[g] /\ job'[g] = job[g]
            BY ZenonT(40), <1>0, <2>2, <5>2 DEF JobsTypeOK
          <6> QED
            BY Zenon, <6>1 DEF Formed, Suits
        <5> QED
          BY Zenon, <5>1, <5>2
      <4> QED
        BY Zenon, <3>3, <4>1 DEF Formed
  <2> QED
    BY ZenonT(40), <1>2, <2>1, <2>2, DispatchEffect
<1>3. ASSUME NEW h \in Handlers, NEW ok \in BOOLEAN, Look(h, ok)
      PROVE  Formed'
  <2>1. job[h] \in Kept /\ job[h] \in Jobs
    BY ZenonT(40), <1>3 DEF Formed, Look, Jobs, Suits
  <2>2. runs' \in [Jobs -> Nat]
    <3>1. runs \in [Jobs -> Nat] /\ (runs' = runs \/ runs' = [runs EXCEPT ![job[h]] = @ + 1])
      BY Zenon, <1>0, <1>3 DEF Look, JobsTypeOK
    <3> QED
      BY SMT, <2>1, <3>1
  <2>3. res' \in [Handlers -> Nat]
    <3>1. PICK n \in Nat : res' = [res EXCEPT ![h] = n]
      BY Zenon, <1>3, <2>1, <2>2 DEF Look
    <3> QED
      BY Zenon, <1>0, <3>1 DEF JobsTypeOK
  <2>4. at' \in [Handlers -> {"free", "look", "repost", "drop", "exec", "post", "put", "write", "rename",
                              "handled", "unhandled"}]
    <3>1. PICK p \in {"repost", "exec"} : at' = [at EXCEPT ![h] = p]
      BY Zenon, <1>3 DEF Look
    <3> QED
      BY Zenon, <1>0, <3>1 DEF JobsTypeOK
  <2>5. faults' \in Nat /\ lost' \in Nat
    <3>1. /\ faults \in Nat /\ lost \in Nat
          /\ JobFault(ok) /\ lost' = IF ok THEN lost ELSE lost + 1
      BY Zenon, <1>0, <1>3 DEF Look, JobsTypeOK
    <3> QED
      BY SMT, <3>1 DEF JobFault
  <2>6. JobsTypeOK'
    BY ZenonT(40), <1>0, <1>3, <2>2, <2>3, <2>4, <2>5 DEF Look, JobsTypeOK, polling, storing
  <2>7. at' = [at EXCEPT ![h] = at'[h]] /\ at'[h] \in {"repost", "exec"} /\ job' = job
    <3>1. PICK p \in {"repost", "exec"} : at' = [at EXCEPT ![h] = p] /\ job' = job
      BY Zenon, <1>3 DEF Look
    <3>2. at'[h] = p
      BY Zenon, <1>0, <3>1 DEF JobsTypeOK
    <3> QED
      BY Zenon, <3>1, <3>2
  <2> QED
    <3>1. Suits(at'[h], job[h])
      BY Zenon, <2>1, <2>7 DEF Suits
    <3> QED
      BY Zenon, <2>6, <2>7, <3>1, MoveSuits DEF Formed
<1>4. ASSUME NEW h \in Handlers, NEW call \in Calls, Repost(h, call) \/ Post(h, call)
      PROVE  Formed'
  <2>1. job[h] \in Jobs
    BY Zenon, <1>4 DEF Formed, Repost, Post, Suits
  <2>2. open' \subseteq Jobs /\ acked' \subseteq Jobs /\ faults' \in Nat
    <3>1. Send(h, call)
      BY Zenon, <1>4 DEF Repost, Post
    <3>2. open \subseteq Jobs /\ acked \subseteq Jobs /\ faults \in Nat
      BY Zenon, <1>0 DEF JobsTypeOK
    <3>3. faults' \in Nat
      BY SMTT(30), <3>1, <3>2 DEF Send, JobFault
    <3> QED
      BY Zenon, <2>1, <3>1, <3>2, <3>3 DEF Send
  <2>3. job' = job /\ res' = res
    BY ZenonT(40), <1>4 DEF Repost, Post, Proceed, Leave
  <2>4. PICK p \in {"free", "handled", "unhandled", "drop", "put"} :
          /\ at' = [at EXCEPT ![h] = p]
          /\ p \in {"handled", "unhandled"} => job[h] \in Audits
          /\ p \in {"drop", "put"} => job[h] \in Kept
    BY Zenon, <1>4 DEF Repost, Post, Proceed, Leave, Formed, Suits
  <2>5. JobsTypeOK'
    BY ZenonT(40), <1>0, <1>4, <2>2, <2>3, <2>4 DEF Repost, Post, JobsTypeOK, polling, storing
  <2> QED
    <3>1. Suits(p, job[h])
      BY Zenon, <2>1, <2>4 DEF Suits
    <3> QED
      BY Zenon, <2>3, <2>4, <2>5, <3>1, MoveSuits DEF Formed
<1>5. ASSUME NEW h \in Handlers, NEW ok \in BOOLEAN, Drop(h, ok)
      PROVE  Formed'
  <2>1. file' \in [Kept -> Nat \cup {Absent, Torn}] /\ fd' \in [Handlers -> {"none", "tmp", "file", "gone"}]
        /\ faults' \in Nat
    BY SMTT(30), <1>0, <1>5 DEF Drop, Unlinked, JobFault, JobsTypeOK
  <2>2. job' = job /\ res' = res
    BY Zenon, <1>5 DEF Drop, Proceed, Leave
  <2>3. PICK p \in {"free", "handled"} :
          at' = [at EXCEPT ![h] = p] /\ (p = "handled" => job[h] \in Audits)
    BY Zenon, <1>5 DEF Drop, Proceed, Leave
  <2>4. JobsTypeOK'
    BY Zenon, <1>0, <1>5, <2>1, <2>2, <2>3 DEF Drop, JobsTypeOK, polling
  <2> QED
    <3>1. Suits(p, job[h])
      BY Zenon, <2>3 DEF Suits, Jobs, Kept
    <3> QED
      BY Zenon, <2>2, <2>3, <2>4, <3>1, MoveSuits DEF Formed
<1>6. ASSUME NEW h \in Handlers, Execute(h)
      PROVE  Formed'
  <2>1. job' = job /\ res' = res
    BY Zenon, <1>6 DEF Execute, Proceed
  <2>2. PICK p \in {"free", "post"} : at' = [at EXCEPT ![h] = p]
    BY Zenon, <1>6 DEF Execute, Proceed
  <2>3. JobsTypeOK'
    BY ZenonT(40), <1>0, <1>6, <2>1, <2>2 DEF Execute, JobsTypeOK, polling, storing
  <2> QED
    <3>1. Suits(p, job[h])
      BY Zenon, <1>6, <2>2 DEF Suits, Formed, Execute
    <3> QED
      BY Zenon, <2>1, <2>2, <2>3, <3>1, MoveSuits DEF Formed
<1>7. ASSUME NEW h \in Handlers, EndAudit(h)
      PROVE  Formed'
  <2>1. job' = job /\ res' = res /\ at' = [at EXCEPT ![h] = "free"] /\ job[h] \in Audits
    BY ZenonT(40), <1>7 DEF EndAudit, Proceed, Formed, Suits
  <2>2. JobsTypeOK'
    BY ZenonT(40), <1>0, <1>7, <2>1 DEF EndAudit, JobsTypeOK, storing
  <2> QED
    <3>1. Suits("free", job[h])
      BY Zenon DEF Suits
    <3> QED
      BY Zenon, <2>1, <2>2, <3>1, MoveSuits DEF Formed
<1>8. ASSUME NEW h \in Handlers, NEW ok \in BOOLEAN, PutOpen(h, ok)
      PROVE  Formed'
  <2>1. /\ tmp' \in [Kept -> Nat \cup {Absent, Torn}] /\ fd' \in [Handlers -> {"none", "tmp", "file", "gone"}]
        /\ faults' \in Nat /\ lost' \in Nat
    <3>1. /\ tmp \in [Kept -> Nat \cup {Absent, Torn}] /\ fd \in [Handlers -> {"none", "tmp", "file", "gone"}]
          /\ faults \in Nat /\ lost \in Nat
      BY Zenon, <1>0 DEF JobsTypeOK
    <3>2. faults' \in Nat
      <4>1. JobFault(ok)
        BY Zenon, <1>8 DEF PutOpen
      <4> QED
        BY <3>1, <4>1 DEF JobFault
    <3>5. lost' \in Nat
      <4>1. lost' = lost \/ lost' = lost + 1
        BY Zenon, <1>8 DEF PutOpen
      <4> QED
        BY <3>1, <4>1
    <3>3. tmp' \in [Kept -> Nat \cup {Absent, Torn}]
      BY Zenon, <1>8, <3>1 DEF PutOpen
    <3>4. fd' \in [Handlers -> {"none", "tmp", "file", "gone"}]
      BY ZenonT(40), <1>8, <3>1 DEF PutOpen
    <3> QED
      BY Zenon, <3>2, <3>3, <3>4, <3>5
  <2>2. job' = job /\ res' = res
    BY Zenon, <1>8 DEF PutOpen, Proceed, Leave
  <2>3. PICK p \in {"free", "unhandled", "write"} :
          at' = [at EXCEPT ![h] = p] /\ (p = "unhandled" => job[h] \in Audits)
    BY Zenon, <1>8 DEF PutOpen, Proceed, Leave
  <2>4. JobsTypeOK'
    <3>1. at' \in [Handlers -> {"free", "look", "repost", "drop", "exec", "post", "put", "write", "rename",
                              "handled", "unhandled"}]
      BY Zenon, <1>0, <2>3 DEF JobsTypeOK
    <3> QED
      BY ZenonT(40), <1>0, <1>8, <2>1, <2>2, <3>1 DEF PutOpen, JobsTypeOK, polling
  <2> QED
    <3>1. Suits(p, job[h])
      BY Zenon, <1>8, <2>3 DEF Suits, Formed, PutOpen, Jobs
    <3> QED
      BY ZenonT(40), <2>2, <2>3, <2>4, <3>1, MoveSuits DEF Formed
<1>9. ASSUME NEW h \in Handlers, PutWrite(h)
      PROVE  Formed'
  <2>1. /\ file' \in [Kept -> Nat \cup {Absent, Torn}] /\ tmp' \in [Kept -> Nat \cup {Absent, Torn}]
    BY SMTT(30), <1>0, <1>9 DEF PutWrite, JobsTypeOK
  <2>2. job' = job /\ res' = res /\ at' = [at EXCEPT ![h] = "rename"]
    BY Zenon, <1>9 DEF PutWrite, Proceed
  <2>3. JobsTypeOK'
    BY ZenonT(40), <1>0, <1>9, <2>1, <2>2 DEF PutWrite, JobsTypeOK, polling
  <2> QED
    <3>1. Suits("rename", job[h])
      BY ZenonT(40), <1>9 DEF Suits, Formed, PutWrite, Jobs
    <3> QED
      BY ZenonT(40), <2>2, <2>3, <3>1, MoveSuits DEF Formed
<1>10. ASSUME NEW h \in Handlers, PutRename(h)
       PROVE  Formed'
  <2>0. job[h] \in Kept
    BY Zenon, <1>10 DEF Formed, PutRename, Suits
  <2>1. /\ file' \in [Kept -> Nat \cup {Absent, Torn}] /\ tmp' \in [Kept -> Nat \cup {Absent, Torn}]
        /\ fd' \in [Handlers -> {"none", "tmp", "file", "gone"}]
    <3>1. /\ file \in [Kept -> Nat \cup {Absent, Torn}] /\ tmp \in [Kept -> Nat \cup {Absent, Torn}]
          /\ fd \in [Handlers -> {"none", "tmp", "file", "gone"}]
      BY Zenon, <1>0 DEF JobsTypeOK
    <3>2. file' \in [Kept -> Nat \cup {Absent, Torn}]
      <4>1. file' = file \/ file' = [file EXCEPT ![job[h]] = tmp[job[h]]]
        BY Zenon, <1>10 DEF PutRename
      <4>2. tmp[job[h]] \in Nat \cup {Absent, Torn}
        BY Zenon, <2>0, <3>1
      <4> QED
        BY Zenon, <3>1, <4>1, <4>2
    <3>3. tmp' \in [Kept -> Nat \cup {Absent, Torn}]
      BY Zenon, <1>10, <2>0, <3>1 DEF PutRename
    <3>4. fd' \in [Handlers -> {"none", "tmp", "file", "gone"}]
      <4>1. Unlinked(job[h]) \in [Handlers -> {"none", "tmp", "file", "gone"}]
        BY Zenon, <3>1 DEF Unlinked
      <4>2. CASE tmp[job[h]] = Absent
        BY ZenonT(40), <1>10, <3>1, <4>2 DEF PutRename
      <4>3. CASE tmp[job[h]] # Absent
        <5>1. fd' = [g \in Handlers |-> IF g = h THEN "none"
                       ELSE IF job[g] = job[h] /\ fd[g] = "tmp" THEN "file" ELSE Unlinked(job[h])[g]]
          BY Zenon, <1>10, <4>3 DEF PutRename
        <5> QED
          BY Zenon, <4>1, <5>1
      <4> QED
        BY Zenon, <4>2, <4>3
    <3> QED
      BY Zenon, <3>2, <3>3, <3>4
  <2>2. job' = job /\ res' = res
    BY Zenon, <1>10 DEF PutRename, Proceed, Leave
  <2>3. PICK p \in {"free", "unhandled"} :
          at' = [at EXCEPT ![h] = p] /\ (p = "unhandled" => job[h] \in Audits)
    BY Zenon, <1>10 DEF PutRename, Proceed, Leave
  <2>4. JobsTypeOK'
    BY ZenonT(40), <1>0, <1>10, <2>1, <2>2, <2>3 DEF PutRename, JobsTypeOK, polling
  <2> QED
    <3>1. Suits(p, job[h])
      BY Zenon, <2>3 DEF Suits, Jobs, Kept
    <3> QED
      BY Zenon, <2>2, <2>3, <2>4, <3>1, MoveSuits DEF Formed
<1>11. CASE Age
  BY ZenonT(40), <1>11 DEF Age, Formed, JobsTypeOK, handling, storing
<1>12. CASE DaemonCrash
  <2>1. crashes' \in Nat
    <3>1. crashes \in Nat /\ crashes' = crashes + 1
      BY Zenon, <1>0, <1>12 DEF JobsTypeOK, DaemonCrash
    <3> QED
      BY SMT, <3>1
  <2>2. 0 \in Nat
    BY Zenon
  <2>3. JobsTypeOK'
    BY ZenonT(40), <1>0, <1>12, <2>1, <2>2 DEF DaemonCrash, JobsTypeOK
  <2>4. \A g \in Handlers : at'[g] = "free"
    BY Zenon, <1>12 DEF DaemonCrash
  <2> QED
    BY Zenon, <2>3, <2>4 DEF Formed, Suits
<1>13. CASE UNCHANGED jobVars
  BY Zenon, <1>13 DEF jobVars, Formed, JobsTypeOK, polling, handling, storing
<1> QED
  BY <1>1, <1>2, <1>3, <1>4, <1>5, <1>6, <1>7, <1>8, <1>9, <1>10, <1>11, <1>12, <1>13
  DEF JobsNext, PollLoop, Handler

-----------------------------------------------------------------------------
(* One handler per audit *)

\* A step of a handler moves only this handler, which has a job.
LEMMA HandlerEffect ==
  ASSUME Formed, NEW h \in Handlers, Handler(h)
  PROVE  /\ at[h] # "free" /\ job' = job /\ at' = [at EXCEPT ![h] = at'[h]]
         /\ conf' = conf /\ crashes' = crashes /\ refused' = refused
         /\ \/ inFlight' = inFlight /\ recent' = recent /\ aged' = aged
            \/ at'[h] = "free" /\ inFlight' = inFlight \ {job[h]}
<1>0. at \in [Handlers -> {"free", "look", "repost", "drop", "exec", "post", "put", "write", "rename",
                           "handled", "unhandled"}]
  BY Zenon DEF Formed, JobsTypeOK
<1>1. ASSUME NEW ok \in BOOLEAN, Look(h, ok) \/ Drop(h, ok) \/ PutOpen(h, ok)
      PROVE  /\ at[h] # "free" /\ job' = job /\ at' = [at EXCEPT ![h] = at'[h]]
             /\ conf' = conf /\ crashes' = crashes /\ refused' = refused
             /\ inFlight' = inFlight /\ recent' = recent /\ aged' = aged
  BY Zenon, <1>0, <1>1 DEF Look, Drop, PutOpen, Proceed, Leave, polling
<1>2. ASSUME NEW call \in Calls, Repost(h, call) \/ Post(h, call)
      PROVE  /\ at[h] # "free" /\ job' = job /\ at' = [at EXCEPT ![h] = at'[h]]
             /\ conf' = conf /\ crashes' = crashes /\ refused' = refused
             /\ inFlight' = inFlight /\ recent' = recent /\ aged' = aged
  BY Zenon, <1>0, <1>2 DEF Repost, Post, Proceed, Leave, polling
<1>3. ASSUME Execute(h) \/ PutWrite(h) \/ PutRename(h)
      PROVE  /\ at[h] # "free" /\ job' = job /\ at' = [at EXCEPT ![h] = at'[h]]
             /\ conf' = conf /\ crashes' = crashes /\ refused' = refused
             /\ inFlight' = inFlight /\ recent' = recent /\ aged' = aged
  BY Zenon, <1>0, <1>3 DEF Execute, PutWrite, PutRename, Proceed, Leave, polling
<1>4. ASSUME EndAudit(h)
      PROVE  /\ at[h] # "free" /\ job' = job /\ at' = [at EXCEPT ![h] = at'[h]]
             /\ conf' = conf /\ crashes' = crashes /\ refused' = refused
             /\ at'[h] = "free" /\ inFlight' = inFlight \ {job[h]}
  BY Zenon, <1>0, <1>4 DEF EndAudit, Proceed
<1> QED
  BY Zenon, <1>1, <1>2, <1>3, <1>4 DEF Handler

\* An audit never has two handlers (beginAuditJob, endAuditJob).
LEMMA ExclusiveStep ==
  ASSUME Formed, Exclusive, [JobsNext]_jobVars
  PROVE  Exclusive'
<1>0. /\ at \in [Handlers -> {"free", "look", "repost", "drop", "exec", "post", "put", "write", "rename",
                              "handled", "unhandled"}]
      /\ job \in [Handlers -> Jobs \cup {NoJob}]
  BY Zenon DEF Formed, JobsTypeOK
<1>1. ASSUME NEW ok \in BOOLEAN, Poll(ok)
      PROVE  Exclusive'
  BY ZenonT(40), <1>1 DEF Poll, Exclusive, handling
<1>2. ASSUME Dispatch
      PROVE  Exclusive'
  <2>1. CASE UNCHANGED <<at, job, inFlight>>
    BY Zenon, <2>1 DEF Exclusive
  <2>2. ASSUME NEW h \in Handlers, NEW j \in Jobs, NEW p \in {"look", "exec"},
               at' = [at EXCEPT ![h] = p], job' = [job EXCEPT ![h] = j],
               inFlight' = inFlight \cup ({j} \cap Audits),
               j \in Audits => j \notin inFlight
        PROVE  Exclusive'
    BY ZenonT(40), <1>0, <2>2 DEF Exclusive
  <2> QED
    BY Zenon, <1>2, <2>1, <2>2, DispatchEffect
<1>3. ASSUME NEW h \in Handlers, Handler(h)
      PROVE  Exclusive'
  <2>1. /\ at[h] # "free" /\ job' = job /\ at' = [at EXCEPT ![h] = at'[h]]
        /\ \/ inFlight' = inFlight
           \/ at'[h] = "free" /\ inFlight' = inFlight \ {job[h]}
    BY Zenon, <1>3, HandlerEffect
  <2>2. \A g \in Handlers : at'[g] # "free" => at[g] # "free" /\ (g # h \/ inFlight' = inFlight)
    BY Zenon, <1>0, <2>1
  <2> QED
    BY Zenon, <2>1, <2>2 DEF Exclusive
<1>4. CASE Age
  BY Zenon, <1>4 DEF Age, Exclusive, handling
<1>5. CASE DaemonCrash
  BY Zenon, <1>5 DEF DaemonCrash, Exclusive
<1>6. CASE UNCHANGED jobVars
  BY Zenon, <1>6 DEF jobVars, Exclusive, handling, polling
<1> QED
  BY Zenon, <1>1, <1>2, <1>3, <1>4, <1>5, <1>6 DEF JobsNext, PollLoop

-----------------------------------------------------------------------------
(* Acknowledged jobs *)

\* A request closes the job it is about; only an answered one acknowledges it.
LEMMA DoneStep ==
  ASSUME Formed, Exclusive, Done, [JobsNext]_jobVars
  PROVE  Done'
<1> USE RemoteJobsAssumption
<1>0. /\ at \in [Handlers -> {"free", "look", "repost", "drop", "exec", "post", "put", "write", "rename",
                              "handled", "unhandled"}]
      /\ job \in [Handlers -> Jobs \cup {NoJob}] /\ acked \subseteq Jobs /\ NoJob \notin acked
  BY Zenon DEF Formed, JobsTypeOK
<1>1. ASSUME NEW ok \in BOOLEAN, Poll(ok)
      PROVE  Done'
  <2>1. conf' # NoJob => conf'.audit \in open \cup {NoJob}
    BY Zenon, <1>1, OfferType DEF Poll
  <2> QED
    BY SMTT(30), <1>0, <1>1, <2>1 DEF Poll, Done, handling
<1>2. ASSUME Dispatch
      PROVE  Done'
  <2>1. conf' = NoJob /\ open' = open /\ acked' = acked
    BY Zenon, <1>2, DispatchEffect
  <2>2. CASE UNCHANGED <<at, job>>
    BY Zenon, <2>1, <2>2 DEF Done
  <2>3. ASSUME NEW h \in Handlers, NEW j \in Jobs, NEW p \in {"look", "exec"},
               at' = [at EXCEPT ![h] = p], job' = [job EXCEPT ![h] = j],
               j \in Audits => /\ j \notin inFlight /\ j \notin recent \ aged
                               /\ conf # NoJob /\ conf.audit = j
        PROVE  Done'
    <3>1. j \in Audits => j \notin acked
      BY Zenon, <2>3 DEF Done
    <3> QED
      BY Zenon, <1>0, <2>1, <2>3, <3>1 DEF Done
  <2> QED
    BY Zenon, <1>2, <2>2, <2>3, DispatchEffect
<1>3. ASSUME NEW h \in Handlers, NEW call \in Calls, Repost(h, call) \/ Post(h, call)
      PROVE  Done'
  <2>1. /\ job' = job /\ at' = [at EXCEPT ![h] = at'[h]] /\ at[h] # "free"
        /\ conf' = conf /\ inFlight' = inFlight /\ recent' = recent /\ aged' = aged
    BY ZenonT(40), <1>0, <1>3 DEF Repost, Post, Proceed, Leave, polling
  <2>2. /\ \/ open' = open /\ acked' = acked
           \/ open' = open \ {job[h]} /\ acked' = acked
           \/ open' = open \ {job[h]} /\ acked' = acked \cup {job[h]}
        /\ at'[h] = "drop" => job[h] \in acked'
        /\ job[h] \in Audits /\ job[h] \in acked' => at'[h] \in {"drop", "handled"}
    <3>1. CASE call = "ok"
      BY <1>0, <1>3, <3>1 DEF Repost, Post, Send, Proceed, Leave
    <3>2. CASE call # "ok"
      <4>1. at[h] \in {"repost", "post"} /\ acked' = acked /\ at'[h] # "drop"
        BY SMTT(30), <1>0, <1>3, <3>2 DEF Repost, Post, Send, Proceed, Leave
      <4>2. ~(job[h] \in Audits /\ job[h] \in acked)
        BY Zenon, <4>1 DEF Done
      <4> QED
        BY Zenon, <1>3, <4>1, <4>2 DEF Repost, Post, Send
    <3> QED
      BY Zenon, <3>1, <3>2
  <2>3. acked' \cap open' = {}
    BY Zenon, <2>2 DEF Done
  <2>4. \A g \in Handlers : g # h /\ at[g] # "free" /\ job[g] \in Audits => job[g] # job[h]
    BY Zenon, <2>1 DEF Exclusive
  <2>5. acked \subseteq acked'
    BY Zenon, <2>2
  <2>6. \A g \in Handlers : at'[g] = "drop" => job[g] \in acked'
    BY Zenon, <1>0, <2>1, <2>2, <2>5 DEF Done
  <2>7. \A g \in Handlers : at'[g] # "free" /\ job[g] \in Audits /\ job[g] \in acked' => at'[g] \in {"drop", "handled"}
    BY SMTT(30), <1>0, <2>1, <2>2, <2>4 DEF Done
  <2>8. conf # NoJob /\ conf.audit \in acked' => conf.audit \in inFlight \cup (recent \ aged)
    <3>1. CASE conf # NoJob /\ conf.audit = job[h]
      <4>1. conf.audit # NoJob
        BY ZenonT(40), <2>1, <3>1 DEF Formed, Suits
      <4>2. conf.audit \in Audits
        BY Zenon, <3>1, <4>1 DEF Formed, JobsTypeOK
      <4> QED
        BY Zenon, <2>1, <3>1, <4>2 DEF Exclusive
    <3>2. CASE conf # NoJob /\ conf.audit # job[h]
      BY Zenon, <2>2, <3>2 DEF Done
    <3> QED
      BY Zenon, <3>1, <3>2
  <2> QED
    BY Zenon, <2>1, <2>3, <2>6, <2>7, <2>8 DEF Done
<1>4. ASSUME NEW h \in Handlers, EndAudit(h)
      PROVE  Done'
  <2>1. /\ job' = job /\ at' = [at EXCEPT ![h] = "free"] /\ open' = open /\ acked' = acked /\ conf' = conf
        /\ inFlight' = inFlight \ {job[h]}
        /\ recent' = IF at[h] = "handled" THEN recent \cup {job[h]} ELSE recent
        /\ aged' = IF at[h] = "handled" THEN aged \ {job[h]} ELSE aged
    BY Zenon, <1>4 DEF EndAudit, Proceed
  <2>2. job[h] \in acked => at[h] = "handled"
    BY Zenon, <1>4 DEF Done, Formed, EndAudit, Suits
  <2>3. conf # NoJob /\ conf.audit \in acked => conf.audit \in inFlight' \cup (recent' \ aged')
    BY Zenon, <2>1, <2>2 DEF Done
  <2> QED
    BY Zenon, <1>0, <2>1, <2>3 DEF Done
<1>5. ASSUME NEW h \in Handlers, NEW ok \in BOOLEAN, Look(h, ok) \/ Drop(h, ok) \/ PutOpen(h, ok)
      PROVE  Done'
  <2>1. /\ job' = job /\ at' = [at EXCEPT ![h] = at'[h]]
        /\ UNCHANGED <<open, acked, conf, inFlight, recent, aged>>
        /\ at[h] # "free" /\ at[h] # "handled" /\ at'[h] # "drop"
        /\ at[h] = "drop" => at'[h] \in {"free", "handled"}
    BY ZenonT(40), <1>0, <1>5 DEF Look, Drop, PutOpen, Proceed, Leave, polling
  <2> QED
    BY Zenon, <1>0, <2>1 DEF Done
<1>6. ASSUME NEW h \in Handlers, Execute(h) \/ PutWrite(h) \/ PutRename(h)
      PROVE  Done'
  <2>1. /\ job' = job /\ at' = [at EXCEPT ![h] = at'[h]]
        /\ UNCHANGED <<open, acked, conf, inFlight, recent, aged>>
        /\ at[h] \in {"exec", "write", "rename"} /\ at'[h] # "drop"
    BY ZenonT(40), <1>0, <1>6 DEF Execute, PutWrite, PutRename, Proceed, Leave, polling
  <2> QED
    BY Zenon, <1>0, <2>1 DEF Done
<1>7. CASE Age
  BY ZenonT(40), <1>7 DEF Age, Done, handling
<1>8. CASE DaemonCrash
  BY ZenonT(40), <1>8 DEF DaemonCrash, Done
<1>9. CASE UNCHANGED jobVars
  BY ZenonT(40), <1>9 DEF jobVars, Done, handling, polling
<1> QED
  BY SMTT(30), <1>1, <1>2, <1>3, <1>4, <1>5, <1>6, <1>7, <1>8, <1>9 DEF JobsNext, PollLoop, Handler

-----------------------------------------------------------------------------
(* The store *)

\* A handler works on the entry of its own job; who saves another job is not
\* disturbed (FileStore.Put, FileStore.Delete).
LEMMA StoreEffect ==
  ASSUME Formed, NEW h \in Handlers, Handler(h)
  PROVE  /\ \A g \in Handlers \ {h} : /\ fd[g] = "none" => fd'[g] = "none"
                                      /\ job[g] # job[h] => fd'[g] = fd[g]
         /\ \A k \in Kept \ {job[h]} : file'[k] = file[k] /\ tmp'[k] = tmp[k]
<1>0. /\ fd \in [Handlers -> {"none", "tmp", "file", "gone"}]
      /\ file \in [Kept -> Nat \cup {Absent, Torn}] /\ tmp \in [Kept -> Nat \cup {Absent, Torn}]
  BY Zenon DEF Formed, JobsTypeOK
<1>1. ASSUME UNCHANGED storing
      PROVE  /\ \A g \in Handlers \ {h} : /\ fd[g] = "none" => fd'[g] = "none"
                                          /\ job[g] # job[h] => fd'[g] = fd[g]
             /\ \A k \in Kept \ {job[h]} : file'[k] = file[k] /\ tmp'[k] = tmp[k]
  BY Zenon, <1>1 DEF storing
<1>2. ASSUME NEW ok \in BOOLEAN, Drop(h, ok)
      PROVE  /\ \A g \in Handlers \ {h} : /\ fd[g] = "none" => fd'[g] = "none"
                                          /\ job[g] # job[h] => fd'[g] = fd[g]
             /\ \A k \in Kept \ {job[h]} : file'[k] = file[k] /\ tmp'[k] = tmp[k]
  BY Zenon, <1>0, <1>2 DEF Drop, Unlinked
<1>3. ASSUME NEW ok \in BOOLEAN, PutOpen(h, ok)
      PROVE  /\ \A g \in Handlers \ {h} : /\ fd[g] = "none" => fd'[g] = "none"
                                          /\ job[g] # job[h] => fd'[g] = fd[g]
             /\ \A k \in Kept \ {job[h]} : file'[k] = file[k] /\ tmp'[k] = tmp[k]
  BY Zenon, <1>0, <1>3 DEF PutOpen
<1>4. ASSUME PutWrite(h)
      PROVE  /\ \A g \in Handlers \ {h} : /\ fd[g] = "none" => fd'[g] = "none"
                                          /\ job[g] # job[h] => fd'[g] = fd[g]
             /\ \A k \in Kept \ {job[h]} : file'[k] = file[k] /\ tmp'[k] = tmp[k]
  BY ZenonT(40), <1>0, <1>4 DEF PutWrite
<1>5. ASSUME PutRename(h)
      PROVE  /\ \A g \in Handlers \ {h} : /\ fd[g] = "none" => fd'[g] = "none"
                                          /\ job[g] # job[h] => fd'[g] = fd[g]
             /\ \A k \in Kept \ {job[h]} : file'[k] = file[k] /\ tmp'[k] = tmp[k]
  BY Zenon, <1>0, <1>5 DEF PutRename, Unlinked
<1>6. \/ UNCHANGED storing
      \/ \E ok \in BOOLEAN : Drop(h, ok) \/ PutOpen(h, ok)
      \/ PutWrite(h) \/ PutRename(h)
  BY Zenon DEF Handler, Look, Repost, Post, Execute, EndAudit
<1> QED
  BY Zenon, <1>1, <1>2, <1>3, <1>4, <1>5, <1>6

\* What a handler needs to find in the store is there as long as it needs it.
LEMMA SavedStep ==
  ASSUME Formed, Exclusive, Saved, [JobsNext]_jobVars
  PROVE  Saved'
<1> USE RemoteJobsAssumption
<1> DEFINE Own(h) ==
      /\ at[h] \notin {"write", "rename"} => fd[h] = "none"
      /\ job[h] \in Audits /\ at[h] \in {"write", "rename"} => fd[h] = "tmp"
      /\ job[h] \in Audits /\ at[h] = "write" => tmp[job[h]] = Torn
      /\ job[h] \in Audits /\ at[h] = "rename" => tmp[job[h]] \in Nat
      /\ job[h] \in Audits /\ at[h] = "repost" => file[job[h]] \in Nat
<1>0. /\ JobsTypeOK /\ Audits \subseteq Kept
      /\ at \in [Handlers -> {"free", "look", "repost", "drop", "exec", "post", "put", "write", "rename",
                              "handled", "unhandled"}]
      /\ job \in [Handlers -> Jobs \cup {NoJob}] /\ res \in [Handlers -> Nat]
      /\ fd \in [Handlers -> {"none", "tmp", "file", "gone"}]
      /\ file \in [Kept -> Nat \cup {Absent, Torn}] /\ tmp \in [Kept -> Nat \cup {Absent, Torn}]
  BY ZenonT(40) DEF Formed, JobsTypeOK, Kept
<1>1. ASSUME NEW ok \in BOOLEAN, Poll(ok)
      PROVE  Saved'
  BY Zenon, <1>1 DEF Poll, Saved, handling, storing
<1>2. ASSUME Dispatch
      PROVE  Saved'
  <2>1. file' = file /\ tmp' = tmp /\ fd' = fd
    BY Zenon, <1>2, DispatchEffect
  <2>2. CASE UNCHANGED <<at, job>>
    BY ZenonT(40), <2>1, <2>2 DEF Saved
  <2>3. ASSUME NEW h \in Handlers, NEW j \in Jobs, NEW p \in {"look", "exec"}, at[h] = "free",
               at' = [at EXCEPT ![h] = p], job' = [job EXCEPT ![h] = j]
        PROVE  Saved'
    BY Zenon, <1>0, <2>1, <2>3 DEF Saved
  <2> QED
    BY Zenon, <1>2, <2>2, <2>3, DispatchEffect
<1>3. ASSUME NEW h \in Handlers, Handler(h)
      PROVE  Saved'
  <2>0. /\ at[h] # "free" /\ job' = job /\ at' = [at EXCEPT ![h] = at'[h]]
    BY Zenon, <1>3, HandlerEffect
  <2>1. ASSUME NEW g \in Handlers, g # h
        PROVE  Own(g)'
    <3>1. at'[g] = at[g] /\ job'[g] = job[g]
      BY Zenon, <1>0, <2>0, <2>1
    <3>2. Own(g)
      BY Zenon DEF Saved
    <3>3. CASE at[g] = "free" \/ job[g] \notin Audits
      <4>1. fd[g] = "none" => fd'[g] = "none"
        BY ZenonT(40), <1>3, <2>1, StoreEffect
      <4>2. at'[g] \notin {"write", "rename"} => fd'[g] = "none"
        BY Zenon, <3>1, <3>2, <4>1
      <4>3. ~(job'[g] \in Audits /\ at'[g] \in {"write", "rename", "repost"})
        BY Zenon, <3>1, <3>3
      <4> QED
        BY Zenon, <4>2, <4>3
    <3>4. CASE at[g] # "free" /\ job[g] \in Audits
      <4>1. job[g] # job[h]
        BY ZenonT(40), <2>0, <2>1, <3>4 DEF Exclusive
      <4>2. fd'[g] = fd[g] /\ file'[job[g]] = file[job[g]] /\ tmp'[job[g]] = tmp[job[g]]
        <5>1. job[g] \in Kept \ {job[h]} /\ g \in Handlers \ {h}
          BY Zenon, <1>0, <2>1, <3>4, <4>1
        <5> QED
          BY ZenonT(40), <1>3, <4>1, <5>1, StoreEffect
      <4> QED
        BY ZenonT(40), <3>1, <3>2, <4>2
    <3> QED
      BY Zenon, <3>3, <3>4
  <2>2. Own(h)'
    <3>1. Own(h)
      BY Zenon DEF Saved
    <3>2. ASSUME NEW ok \in BOOLEAN, Look(h, ok)
          PROVE  Own(h)'
      BY SMTT(30), <1>0, <3>1, <3>2 DEF Look, storing
    <3>3. ASSUME NEW ok \in BOOLEAN, Drop(h, ok)
          PROVE  Own(h)'
      <4>1. at'[h] \in {"free", "handled"}
        BY ZenonT(40), <1>0, <3>3 DEF Drop, Leave, Proceed
      <4>2. fd'[h] = "none"
        <5>1. at[h] = "drop" /\ (fd' = fd \/ fd' = Unlinked(job[h]))
          BY Zenon, <3>3 DEF Drop
        <5>2. fd[h] = "none"
          BY Zenon, <3>1, <5>1
        <5> QED
          BY Zenon, <5>1, <5>2 DEF Unlinked
      <4> QED
        BY Zenon, <4>1, <4>2
    <3>4. ASSUME NEW ok \in BOOLEAN, PutOpen(h, ok)
          PROVE  Own(h)'
      <4>1. CASE ok
        <5>1. /\ at' = [at EXCEPT ![h] = "write"] /\ job' = job
              /\ tmp' = [tmp EXCEPT ![job[h]] = Torn] /\ fd' = [fd EXCEPT ![h] = "tmp"]
          BY Zenon, <3>4, <4>1 DEF PutOpen, Proceed
        <5>2. at'[h] = "write" /\ fd'[h] = "tmp"
          BY Zenon, <1>0, <5>1
        <5>3. job[h] \in Audits => tmp'[job[h]] = Torn
          BY Zenon, <1>0, <5>1
        <5> QED
          BY Zenon, <5>1, <5>2, <5>3
      <4>2. CASE ~ok
        <5>1. at[h] = "put" /\ fd' = fd /\ job' = job
          BY Zenon, <3>4, <4>2 DEF PutOpen, Leave, Proceed
        <5>2. at'[h] \in {"free", "unhandled"}
          BY ZenonT(40), <1>0, <3>4, <4>2 DEF PutOpen, Leave, Proceed
        <5>3. fd'[h] = "none"
          BY Zenon, <3>1, <5>1
        <5> QED
          BY Zenon, <5>2, <5>3
      <4> QED
        BY Zenon, <4>1, <4>2
    <3>5. ASSUME NEW call \in Calls, Repost(h, call) \/ Post(h, call)
          PROVE  Own(h)'
      BY SMTT(30), <1>0, <3>1, <3>5 DEF Repost, Post, Leave, Proceed, storing
    <3>6. ASSUME PutWrite(h)
          PROVE  Own(h)'
      <4>1. at'[h] = "rename" /\ job' = job /\ fd' = fd /\ at[h] = "write"
        BY Zenon, <1>0, <3>6 DEF PutWrite, Proceed
      <4>2. job[h] \in Audits => fd[h] = "tmp" /\ tmp[job[h]] \notin Nat /\ job[h] \in Kept
        BY Zenon, <1>0, <3>1, <4>1
      <4>3. job[h] \in Audits => tmp' = [tmp EXCEPT ![job[h]] = res[h]]
        BY ZenonT(40), <3>6, <4>2 DEF PutWrite
      <4> QED
        BY ZenonT(40), <1>0, <4>1, <4>2, <4>3
    <3>7. ASSUME PutRename(h)
          PROVE  Own(h)'
      <4>1. at'[h] \in {"free", "unhandled"} /\ fd'[h] = "none"
        <5>1. at'[h] \in {"free", "unhandled"}
          BY ZenonT(40), <1>0, <3>7 DEF PutRename, Leave, Proceed
        <5>2. fd'[h] = "none"
          <6>1. CASE tmp[job[h]] = Absent
            <7>1. fd' = [fd EXCEPT ![h] = "none"]
              BY Zenon, <3>7, <6>1 DEF PutRename
            <7> QED
              BY Zenon, <1>0, <7>1
          <6>2. CASE tmp[job[h]] # Absent
            <7>1. fd' = [g \in Handlers |-> IF g = h THEN "none"
                           ELSE IF job[g] = job[h] /\ fd[g] = "tmp" THEN "file" ELSE Unlinked(job[h])[g]]
              BY Zenon, <3>7, <6>2 DEF PutRename
            <7> QED
              BY Zenon, <7>1
          <6> QED
            BY Zenon, <6>1, <6>2
        <5> QED
          BY Zenon, <5>1, <5>2
      <4> QED
        BY Zenon, <4>1
    <3>8. ASSUME Execute(h) \/ EndAudit(h)
          PROVE  Own(h)'
      BY <1>0, <3>1, <3>8 DEF Execute, EndAudit, Proceed, storing
    <3> QED
      BY Zenon, <1>3, <3>2, <3>3, <3>4, <3>5, <3>6, <3>7, <3>8 DEF Handler
  <2> QED
    BY Zenon, <2>1, <2>2 DEF Saved
<1>4. CASE Age
  BY Zenon, <1>4 DEF Age, Saved, handling, storing
<1>5. CASE DaemonCrash
  BY Zenon, <1>5 DEF DaemonCrash, Saved
<1>6. CASE UNCHANGED jobVars
  <2>1. UNCHANGED <<at, job, res, file, tmp, fd>>
    BY Zenon, <1>6 DEF jobVars, handling, storing
  <2> QED
    BY Zenon, <2>1 DEF Saved
<1> QED
  BY Zenon, <1>1, <1>2, <1>3, <1>4, <1>5, <1>6 DEF JobsNext, PollLoop

-----------------------------------------------------------------------------
(* The entries of the ledger *)

Holds == {"post", "put", "write", "rename", "repost"}

\* A handler changes nothing about the audits of others.
LEMMA OtherEntries ==
  ASSUME Formed, NEW h \in Handlers, Handler(h), NEW j \in Audits, job[h] # j
  PROVE  Entry(j)' = Entry(j) /\ runs'[j] = runs[j]
<1>1. /\ job' = job /\ at' = [at EXCEPT ![h] = at'[h]] /\ at \in [Handlers -> {"free", "look", "repost", "drop",
           "exec", "post", "put", "write", "rename", "handled", "unhandled"}]
  BY Zenon, HandlerEffect DEF Formed, JobsTypeOK
<1>2. \A g \in Handlers : job[g] = j => at'[g] = at[g]
  BY Zenon, <1>1
<1>3. file'[j] = file[j]
  BY Zenon, StoreEffect DEF Kept
<1>4. j \in acked' <=> j \in acked
  BY Zenon DEF Handler, Look, Drop, PutOpen, Repost, Post, Execute, PutWrite, PutRename, EndAudit, Send
<1>5. runs \in [Jobs -> Nat] /\ j \in Jobs
  BY Zenon DEF Formed, JobsTypeOK, Jobs, Kept
<1>6. runs'[j] = runs[j]
  BY Zenon, <1>5 DEF Handler, Look, Drop, PutOpen, Repost, Post, Execute, PutWrite, PutRename, EndAudit
<1>7. (Executing(j)' <=> Executing(j)) /\ (Holding(j)' <=> Holding(j))
  BY Zenon, <1>1, <1>2 DEF Executing, Holding
<1> QED
  BY Zenon, <1>3, <1>4, <1>6, <1>7 DEF Entry

\* While an audit has a handler, its entry is what the handler, the store and
\* the acknowledgement say.
LEMMA OwnEntry ==
  ASSUME Formed, Exclusive, Done, Saved, NEW h \in Handlers, Handler(h), NEW j \in Audits, job[h] = j
  PROVE  /\ Entry(j) = IF at[h] = "exec" THEN "running" ELSE IF j \in acked THEN "answered"
                       ELSE IF at[h] \in Holds \/ file[j] \in Nat THEN "held" ELSE "waiting"
         /\ Entry(j)' = IF at'[h] = "exec" THEN "running" ELSE IF j \in acked' THEN "answered"
                        ELSE IF at'[h] \in Holds \/ file'[j] \in Nat THEN "held" ELSE "waiting"
<1>1. /\ at[h] # "free" /\ job' = job /\ at' = [at EXCEPT ![h] = at'[h]] /\ at \in [Handlers -> {"free", "look", "repost", "drop",
           "exec", "post", "put", "write", "rename", "handled", "unhandled"}]
  BY Zenon, HandlerEffect DEF Formed, JobsTypeOK
<1>2. \A g \in Handlers : job[g] = j /\ at[g] # "free" => g = h
  BY Zenon, <1>1 DEF Exclusive
<1>3. \A g \in Handlers : job'[g] = j /\ at'[g] # "free" => g = h
  BY Zenon, <1>1, <1>2
<1>4. (Executing(j) <=> at[h] = "exec") /\ (Holding(j) <=> at[h] \in Holds)
  BY Zenon, <1>2 DEF Executing, Holding, Holds
<1>5. (Executing(j)' <=> at'[h] = "exec") /\ (Holding(j)' <=> at'[h] \in Holds)
  BY Zenon, <1>1, <1>3 DEF Executing, Holding, Holds
<1> QED
  BY Zenon, <1>4, <1>5 DEF Entry

\* How a step of its handler moves an audit in the ledger, and what it costs.
LEMMA EntryEffect ==
  ASSUME Formed, Exclusive, Done, Saved, NEW h \in Handlers, Handler(h), NEW j \in Audits, job[h] = j
  PROVE  \/ Entry(j)' = Entry(j) /\ runs'[j] = runs[j] /\ lost' \in {lost, lost + 1}
         \/ /\ Entry(j) \in {"waiting", "held"} /\ Entry(j)' = "running" /\ runs'[j] = runs[j] + 1
            /\ (lost' = lost /\ Entry(j) = "waiting") \/ lost' = lost + 1
         \/ Entry(j) = "running" /\ Entry(j)' = "held" /\ runs'[j] = runs[j] /\ lost' = lost
         \/ Entry(j) = "held" /\ Entry(j)' = "answered" /\ runs'[j] = runs[j] /\ lost' = lost
         \/ Entry(j) = "held" /\ Entry(j)' = "waiting" /\ runs'[j] = runs[j] /\ lost' = lost + 1
<1> USE RemoteJobsAssumption
<1> DEFINE E == IF at[h] = "exec" THEN "running" ELSE IF j \in acked THEN "answered"
                ELSE IF at[h] \in Holds \/ file[j] \in Nat THEN "held" ELSE "waiting"
           F == IF at'[h] = "exec" THEN "running" ELSE IF j \in acked' THEN "answered"
                ELSE IF at'[h] \in Holds \/ file'[j] \in Nat THEN "held" ELSE "waiting"
<1>0. Entry(j) = E /\ Entry(j)' = F
  BY Zenon, OwnEntry
<1>1. /\ at \in [Handlers -> {"free", "look", "repost", "drop", "exec", "post", "put", "write", "rename",
                              "handled", "unhandled"}]
      /\ j \in Kept /\ j \in Jobs /\ j \notin Legacy
      /\ file \in [Kept -> Nat \cup {Absent, Torn}] /\ tmp \in [Kept -> Nat \cup {Absent, Torn}]
      /\ runs \in [Jobs -> Nat] /\ lost \in Nat
  BY ZenonT(40) DEF Formed, JobsTypeOK, Kept, Jobs
<1>2. /\ at[h] # "free" /\ j \in acked => at[h] \in {"drop", "handled"}
      /\ at[h] = "drop" => j \in acked
  BY Zenon DEF Done
<1>3. ASSUME NEW ok \in BOOLEAN, Look(h, ok)
      PROVE  \/ E = F /\ runs'[j] = runs[j] /\ lost' = lost
             \/ /\ E \in {"waiting", "held"} /\ F = "running" /\ runs'[j] = runs[j] + 1
                /\ (lost' = lost /\ E = "waiting") \/ lost' = lost + 1
  <2>1. at[h] = "look" /\ j \notin acked /\ acked' = acked /\ file' = file
    BY Zenon, <1>2, <1>3 DEF Look, storing
  <2>2. CASE ok /\ file[j] \in Nat
    <3>1. at'[h] = "repost" /\ runs' = runs /\ lost' = lost
      BY SMTT(30), <1>1, <1>3, <2>2 DEF Look
    <3> QED
      BY Zenon, <2>1, <2>2, <3>1 DEF Holds
  <2>3. CASE ~(ok /\ file[j] \in Nat)
    <3>1. /\ at' = [at EXCEPT ![h] = "exec"] /\ runs' = [runs EXCEPT ![j] = @ + 1]
          /\ lost' = IF ok THEN lost ELSE lost + 1
      BY Zenon, <1>3, <2>3 DEF Look
    <3>2. at'[h] = "exec" /\ runs'[j] = runs[j] + 1
      BY Zenon, <1>1, <3>1
    <3> QED
      BY Zenon, <2>1, <2>3, <3>1, <3>2 DEF Holds
  <2> QED
    BY Zenon, <2>2, <2>3
<1>4. ASSUME NEW call \in Calls, Repost(h, call)
      PROVE  /\ runs'[j] = runs[j] /\ lost' = lost
             /\ E = F \/ (E = "held" /\ F = "answered")
  <2>1. at[h] = "repost" /\ j \notin acked /\ file' = file /\ file[j] \in Nat /\ runs' = runs /\ lost' = lost
    BY Zenon, <1>2, <1>4 DEF Repost, Saved, storing
  <2>2. at'[h] \in {"drop", "unhandled"} /\ (call = "ok" => j \in acked') /\ (call # "ok" => acked' = acked)
    BY SMTT(30), <1>1, <1>4 DEF Repost, Leave, Proceed, Send
  <2> QED
    BY Zenon, <2>1, <2>2 DEF Holds
<1>5. ASSUME NEW call \in Calls, Post(h, call)
      PROVE  /\ runs'[j] = runs[j] /\ lost' = lost
             /\ E = F \/ (E = "held" /\ F = "answered")
  <2>1. at[h] = "post" /\ j \notin acked /\ file' = file /\ runs' = runs /\ lost' = lost
    BY Zenon, <1>2, <1>5 DEF Post, storing
  <2>2. /\ call = "ok" => at'[h] = "handled" /\ j \in acked'
        /\ call # "ok" => at'[h] = "put" /\ acked' = acked
    BY SMTT(30), <1>1, <1>5 DEF Post, Leave, Proceed, Send
  <2> QED
    BY Zenon, <2>1, <2>2 DEF Holds
<1>6. ASSUME NEW ok \in BOOLEAN, Drop(h, ok)
      PROVE  E = F /\ runs'[j] = runs[j] /\ lost' = lost
  <2>1. at[h] = "drop" /\ j \in acked /\ acked' = acked /\ runs' = runs /\ lost' = lost /\ at'[h] = "handled"
    BY Zenon, <1>1, <1>2, <1>6 DEF Drop, Leave, Proceed
  <2> QED
    BY Zenon, <2>1
<1>7. ASSUME Execute(h)
      PROVE  E = "running" /\ F = "held" /\ runs'[j] = runs[j] /\ lost' = lost
  <2>1. at[h] = "exec" /\ j \notin acked /\ acked' = acked /\ runs' = runs /\ lost' = lost /\ at'[h] = "post"
    BY Zenon, <1>1, <1>2, <1>7 DEF Execute, Proceed
  <2> QED
    BY Zenon, <2>1 DEF Holds
<1>8. ASSUME EndAudit(h)
      PROVE  E = F /\ runs'[j] = runs[j] /\ lost' = lost
  <2>1. /\ at[h] \in {"handled", "unhandled"} /\ at'[h] = "free"
        /\ acked' = acked /\ file' = file /\ runs' = runs /\ lost' = lost
    BY Zenon, <1>1, <1>8 DEF EndAudit, Proceed, storing
  <2> QED
    BY Zenon, <2>1 DEF Holds
<1>9. ASSUME NEW ok \in BOOLEAN, PutOpen(h, ok)
      PROVE  /\ runs'[j] = runs[j]
             /\ \/ E = F /\ lost' \in {lost, lost + 1}
                \/ E = "held" /\ F = "waiting" /\ lost' = lost + 1
  <2>1. at[h] = "put" /\ j \notin acked /\ acked' = acked /\ file' = file /\ runs' = runs
    BY Zenon, <1>2, <1>9 DEF PutOpen
  <2>2. \/ at'[h] = "write" /\ lost' = lost
        \/ at'[h] = "unhandled" /\ lost' = lost + 1
    BY ZenonT(40), <1>1, <1>9 DEF PutOpen, Leave, Proceed
  <2> QED
    BY Zenon, <2>1, <2>2 DEF Holds
<1>10. ASSUME PutWrite(h)
       PROVE  E = F /\ runs'[j] = runs[j] /\ lost' = lost
  <2>1. /\ at[h] = "write" /\ at'[h] = "rename" /\ j \notin acked /\ acked' = acked
        /\ runs' = runs /\ lost' = lost
    BY Zenon, <1>1, <1>2, <1>10 DEF PutWrite, Proceed
  <2> QED
    BY ZenonT(40), <2>1 DEF Holds
<1>11. ASSUME PutRename(h)
       PROVE  E = F /\ runs'[j] = runs[j] /\ lost' = lost
  <2>1. /\ at[h] = "rename" /\ at'[h] = "unhandled" /\ j \notin acked /\ acked' = acked
        /\ runs' = runs /\ lost' = lost
    BY Zenon, <1>1, <1>2, <1>11 DEF PutRename, Leave, Proceed
  <2>2. tmp[j] \in Nat
    BY Zenon, <2>1 DEF Saved
  <2>3. file'[j] \in Nat
    <3>1. tmp[j] # Absent
      BY Zenon, <2>2
    <3>2. file' = [file EXCEPT ![j] = tmp[j]]
      BY Zenon, <1>11, <3>1 DEF PutRename
    <3> QED
      BY Zenon, <1>1, <2>2, <3>2
  <2> QED
    BY Zenon, <2>1, <2>3 DEF Holds
<1> HIDE DEF E, F
<1> QED
  BY Zenon, <1>0, <1>3, <1>4, <1>5, <1>6, <1>7, <1>8, <1>9, <1>10, <1>11 DEF Handler

\* A dispatch moves no audit in the ledger and executes none.
LEMMA DispatchEntries ==
  ASSUME Formed, Dispatch, NEW j \in Audits
  PROVE  Entry(j)' = Entry(j) /\ runs'[j] = runs[j] /\ lost' = lost /\ crashes' = crashes
<1> USE RemoteJobsAssumption
<1>0. /\ at \in [Handlers -> {"free", "look", "repost", "drop", "exec", "post", "put", "write", "rename",
                              "handled", "unhandled"}]
      /\ job \in [Handlers -> Jobs \cup {NoJob}] /\ runs \in [Jobs -> Nat] /\ j \in Kept /\ j \in Jobs
  BY Zenon DEF Formed, JobsTypeOK, Kept, Jobs
<1>1. acked' = acked /\ file' = file /\ lost' = lost /\ crashes' = crashes
  BY Zenon, DispatchEffect
<1>2. CASE UNCHANGED <<at, job, runs>>
  BY ZenonT(40), <1>1, <1>2 DEF Entry, Executing, Holding
<1>3. ASSUME NEW h \in Handlers, NEW i \in Jobs, NEW p \in {"look", "exec"}, at[h] = "free",
             at' = [at EXCEPT ![h] = p], job' = [job EXCEPT ![h] = i],
             \/ p = "look" /\ i \in Kept /\ runs' = runs
             \/ p = "exec" /\ i \notin Kept /\ runs' = [runs EXCEPT ![i] = @ + 1]
      PROVE  Entry(j)' = Entry(j) /\ runs'[j] = runs[j]
  <2>1. runs'[j] = runs[j]
    BY Zenon, <1>0, <1>3
  <2>2. Executing(j)' <=> Executing(j)
    BY Zenon, <1>0, <1>3 DEF Executing
  <2>3. Holding(j)' <=> Holding(j)
    BY ZenonT(40), <1>0, <1>3 DEF Holding
  <2> QED
    BY Zenon, <1>1, <2>1, <2>2, <2>3 DEF Entry
<1> QED
  BY ZenonT(40), <1>1, <1>2, <1>3, DispatchEffect

\* An audit that used up its executions is not executed again.
LEMMA SpentStep ==
  ASSUME JobsInv, [JobsNext]_jobVars
  PROVE  Spent'
<1>0. Formed /\ Exclusive /\ Done /\ Saved /\ Spent /\ Formed'
  BY Zenon, FormedStep DEF JobsInv
<1>1. SUFFICES ASSUME NEW j \in Audits
               PROVE  /\ runs'[j] <= 1 + (crashes' + lost')
                      /\ runs'[j] <= crashes' + lost' \/ Entry(j)' # "waiting"
  BY Zenon DEF Spent
<1>2. /\ runs[j] <= 1 + (crashes + lost)
      /\ runs[j] <= crashes + lost \/ Entry(j) # "waiting"
      /\ runs[j] \in Nat /\ crashes \in Nat /\ lost \in Nat
  BY Zenon, <1>0 DEF Spent, Formed, JobsTypeOK, Jobs, Kept
<1>3. ASSUME UNCHANGED <<at, job, acked, file, runs, lost, crashes>>
      PROVE  /\ runs'[j] <= 1 + (crashes' + lost')
             /\ runs'[j] <= crashes' + lost' \/ Entry(j)' # "waiting"
  BY Zenon, <1>2, <1>3 DEF Entry, Executing, Holding
<1>4. CASE Dispatch
  BY Zenon, <1>0, <1>2, <1>4, DispatchEntries
<1>5. ASSUME NEW h \in Handlers, Handler(h)
      PROVE  /\ runs'[j] <= 1 + (crashes' + lost')
             /\ runs'[j] <= crashes' + lost' \/ Entry(j)' # "waiting"
  <2>1. crashes' = crashes /\ lost' \in {lost, lost + 1}
    <3>1. crashes' = crashes
      BY Zenon, <1>0, <1>5, HandlerEffect
    <3>2. lost' \in {lost, lost + 1}
      BY Zenon, <1>5 DEF Handler, Look, Drop, PutOpen, Repost, Post, Execute, PutWrite, PutRename, EndAudit
    <3> QED
      BY Zenon, <3>1, <3>2
  <2>2. CASE job[h] # j
    <3>1. Entry(j)' = Entry(j) /\ runs'[j] = runs[j]
      BY Zenon, <1>0, <1>5, <2>2, OtherEntries
    <3> QED
      BY SMTT(30), <1>2, <2>1, <3>1
  <2>3. CASE job[h] = j
    <3>1. \/ Entry(j)' = Entry(j) /\ runs'[j] = runs[j] /\ lost' \in {lost, lost + 1}
          \/ /\ Entry(j) \in {"waiting", "held"} /\ Entry(j)' = "running" /\ runs'[j] = runs[j] + 1
             /\ (lost' = lost /\ Entry(j) = "waiting") \/ lost' = lost + 1
          \/ Entry(j) = "running" /\ Entry(j)' = "held" /\ runs'[j] = runs[j] /\ lost' = lost
          \/ Entry(j) = "held" /\ Entry(j)' = "answered" /\ runs'[j] = runs[j] /\ lost' = lost
          \/ Entry(j) = "held" /\ Entry(j)' = "waiting" /\ runs'[j] = runs[j] /\ lost' = lost + 1
      BY Zenon, <1>0, <1>5, <2>3, EntryEffect
    <3> QED
      BY SMTT(30), <1>2, <2>1, <3>1
  <2> QED
    BY Zenon, <2>2, <2>3
<1>6. CASE DaemonCrash
  <2>1. crashes' = crashes + 1 /\ lost' = lost /\ runs' = runs
    BY Zenon, <1>6 DEF DaemonCrash
  <2> QED
    BY SMTT(30), <1>2, <2>1
<1> QED
  BY Zenon, <1>3, <1>4, <1>5, <1>6 DEF JobsNext, PollLoop, Poll, Age, jobVars, handling, storing

-----------------------------------------------------------------------------
(* Theorems *)

\* The inductive invariant holds in every reachable state.
THEOREM JobsInvariant == JobsSpec => []JobsInv
<1>1. JobsInit => JobsInv
  <2>1. JobsInit => Formed
    BY Zenon, FormedInit
  <2>2. JobsInit => Exclusive /\ Done /\ Saved
    BY Zenon DEF JobsInit, Exclusive, Done, Saved
  <2>3. JobsInit => Spent
    <3>1. JobsInit => (\A j \in Audits : runs[j] = 0) /\ crashes = 0 /\ lost = 0
      BY Zenon DEF JobsInit, Jobs, Kept
    <3> QED
      BY SMTT(30), <3>1 DEF Spent
  <2> QED
    BY Zenon, <2>1, <2>2, <2>3 DEF JobsInv
<1>2. JobsInv /\ [JobsNext]_jobVars => JobsInv'
  BY Zenon, FormedStep, ExclusiveStep, DoneStep, SavedStep, SpentStep DEF JobsInv
<1> QED
  BY <1>1, <1>2, PTL DEF JobsSpec

\* Every reachable state is well typed.
THEOREM JobsTypeCorrect == JobsSpec => []JobsTypeOK
<1>1. JobsInv => JobsTypeOK
  BY Zenon DEF JobsInv, Formed
<1> QED
  BY <1>1, JobsInvariant, PTL

\* An audit is executed once, and again at most for every crash and every
\* failed access to the store (beginAuditJob, endAuditJob, the result cache).
THEOREM AuditRunsBoundedHolds == JobsSpec => []AuditRunsBounded
<1>1. JobsInv => AuditRunsBounded
  <2>1. SUFFICES ASSUME JobsInv, NEW j \in Audits
                 PROVE  runs[j] <= 1 + crashes + lost
    BY Zenon DEF AuditRunsBounded
  <2>2. runs[j] <= 1 + (crashes + lost) /\ runs[j] \in Nat /\ crashes \in Nat /\ lost \in Nat
    BY Zenon, <2>1 DEF JobsInv, Spent, Formed, JobsTypeOK, Jobs, Kept
  <2> QED
    BY <2>2
<1> QED
  BY <1>1, JobsInvariant, PTL

\* The entry of an audit always parses: its only handler writes the temporary
\* file it truncated, and renames it after that (FileStore.Put).
THEOREM AuditEntryWholeHolds == JobsSpec => []AuditEntryWhole
<1>1. JobsInit => AuditEntryWhole
  <2>1. SUFFICES ASSUME JobsInit, NEW j \in Audits
                 PROVE  file[j] # Torn
    BY Zenon DEF AuditEntryWhole
  <2>2. file[j] = Absent
    BY Zenon, <2>1 DEF JobsInit, Kept
  <2> QED
    BY Zenon, <2>2, RemoteJobsAssumption
<1>2. JobsInv /\ AuditEntryWhole /\ [JobsNext]_jobVars => AuditEntryWhole'
  <2>1. SUFFICES ASSUME JobsInv, AuditEntryWhole, [JobsNext]_jobVars, NEW j \in Audits, file'[j] # file[j]
                 PROVE  file'[j] # Torn
    BY Zenon DEF AuditEntryWhole
  <2>2. /\ Formed /\ Saved /\ j \in Kept
        /\ file \in [Kept -> Nat \cup {Absent, Torn}] /\ tmp \in [Kept -> Nat \cup {Absent, Torn}]
    BY ZenonT(40), <2>1 DEF JobsInv, Formed, JobsTypeOK, Kept
  <2>3. PICK h \in Handlers : Handler(h)
    <3>1. file' # file
      BY Zenon, <2>1
    <3>2. ~Dispatch
      BY Zenon, <2>2, <3>1, DispatchEffect
    <3> QED
      BY Zenon, <2>1, <3>1, <3>2 DEF JobsNext, PollLoop, Poll, Age, DaemonCrash, storing, jobVars
  <2>4. job[h] = j
    BY ZenonT(40), <2>1, <2>2, <2>3, StoreEffect
  <2>5. ~PutWrite(h)
    BY ZenonT(40), <2>1, <2>2, <2>4 DEF PutWrite, Saved
  <2>6. CASE PutRename(h)
    <3>1. at[h] = "rename" /\ tmp[j] \in Nat
      BY Zenon, <2>2, <2>4, <2>6 DEF PutRename, Saved
    <3>2. file'[j] = tmp[j]
      BY ZenonT(40), <2>1, <2>2, <2>4, <2>6 DEF PutRename
    <3> QED
      BY Zenon, <3>1, <3>2, RemoteJobsAssumption
  <2>7. ASSUME NEW ok \in BOOLEAN, Drop(h, ok)
        PROVE  file'[j] # Torn
    <3>1. file'[j] = Absent
      BY ZenonT(40), <2>1, <2>2, <2>4, <2>7 DEF Drop
    <3> QED
      BY Zenon, <3>1, RemoteJobsAssumption
  <2> QED
    BY Zenon, <2>1, <2>3, <2>5, <2>6, <2>7 DEF Handler, Look, PutOpen, Repost, Post, Execute, EndAudit, storing
<1> QED
  BY <1>1, <1>2, JobsInvariant, PTL DEF JobsSpec

\* A kept result leaves the store only when the backend has a result of its
\* job (handlePendingAction, handlePendingAuditJob, FileStore).
THEOREM ResultKeptHolds == JobsSpec => ResultKept
<1>1. JobsInv /\ [JobsNext]_jobVars => [\A j \in Kept : file[j] # Absent /\ file'[j] = Absent => j \notin open]_jobVars
  <2> USE RemoteJobsAssumption
  <2>1. SUFFICES ASSUME JobsInv, JobsNext, NEW j \in Kept, file[j] # Absent, file'[j] = Absent
                 PROVE  j \notin open
    BY Zenon
  <2>2. /\ Formed /\ Done
        /\ file \in [Kept -> Nat \cup {Absent, Torn}] /\ tmp \in [Kept -> Nat \cup {Absent, Torn}]
        /\ res \in [Handlers -> Nat]
    BY ZenonT(40), <2>1 DEF JobsInv, Formed, JobsTypeOK
  <2>3. PICK h \in Handlers : Handler(h)
    <3>1. file' # file
      BY Zenon, <2>1
    <3>2. ~Dispatch
      BY Zenon, <2>2, <3>1, DispatchEffect
    <3> QED
      BY Zenon, <2>1, <3>1, <3>2 DEF JobsNext, PollLoop, Poll, Age, DaemonCrash, storing
  <2>4. job[h] = j
    BY ZenonT(40), <2>1, <2>2, <2>3, StoreEffect
  <2>5. ~PutWrite(h)
    BY ZenonT(40), <2>1, <2>2, <2>4 DEF PutWrite
  <2>6. ~PutRename(h)
    BY ZenonT(40), <2>1, <2>2, <2>4 DEF PutRename
  <2>7. PICK ok \in BOOLEAN : Drop(h, ok)
    BY Zenon, <2>1, <2>3, <2>5, <2>6 DEF Handler, Look, PutOpen, Repost, Post, Execute, EndAudit, storing
  <2> QED
    BY Zenon, <2>2, <2>4, <2>7 DEF Drop, Done
<1> QED
  BY <1>1, JobsInvariant, PTL DEF JobsSpec, ResultKept

\* The audit handlers implement the ledger: results are produced before they
\* are answered, and an answered audit is never executed again.
THEOREM LedgerKeptHolds == JobsSpec => LedgerKept
<1>1. JobsInit => Ledger!Init
  <2>1. SUFFICES ASSUME JobsInit
                 PROVE  [j \in Audits |-> Entry(j)] = [j \in Audits |-> "waiting"]
    BY Zenon DEF Ledger!Init
  <2>2. ASSUME NEW j \in Audits
        PROVE  Entry(j) = "waiting"
    BY Zenon, <2>1, RemoteJobsAssumption DEF JobsInit, Entry, Executing, Holding, Kept
  <2> QED
    BY Zenon, <2>2
<1>2. JobsInv /\ [JobsNext]_jobVars => [Ledger!Next]_([j \in Audits |-> Entry(j)])
  <2> DEFINE L == [j \in Audits |-> Entry(j)]
  <2>1. SUFFICES ASSUME JobsInv, [JobsNext]_jobVars
                 PROVE  L' = L \/ Ledger!Next
    BY Zenon
  <2>2. Formed /\ Exclusive /\ Done /\ Saved
    BY Zenon, <2>1 DEF JobsInv
  <2>3. ASSUME UNCHANGED <<at, job, acked, file>>
        PROVE  L' = L
    BY Zenon, <2>3 DEF Entry, Executing, Holding
  <2>4. CASE Dispatch
    <3>1. \A j \in Audits : Entry(j)' = Entry(j)
      BY Zenon, <2>2, <2>4, DispatchEntries
    <3> QED
      BY Zenon, <3>1
  <2>5. ASSUME NEW h \in Handlers, Handler(h)
        PROVE  L' = L \/ Ledger!Next
    <3>1. \A j \in Audits : job[h] # j => Entry(j)' = Entry(j)
      BY Zenon, <2>2, <2>5, OtherEntries
    <3>2. CASE job[h] \notin Audits
      <4>1. \A j \in Audits : Entry(j)' = Entry(j)
        BY Zenon, <3>1, <3>2
      <4> QED
        BY Zenon, <4>1
    <3>3. CASE job[h] \in Audits
      <4>1. PICK k \in Audits : k = job[h]
        BY Zenon, <3>3
      <4>2. \/ Entry(k)' = Entry(k)
            \/ Entry(k) \in {"waiting", "held"} /\ Entry(k)' = "running"
            \/ Entry(k) = "running" /\ Entry(k)' = "held"
            \/ Entry(k) = "held" /\ Entry(k)' = "answered"
            \/ Entry(k) = "held" /\ Entry(k)' = "waiting"
        BY Zenon, <2>2, <2>5, <4>1, EntryEffect
      <4>3. L' = [L EXCEPT ![k] = Entry(k)']
        BY Zenon, <3>1, <4>1
      <4>4. L[k] = Entry(k)
        BY Zenon
      <4>5. CASE Entry(k)' = Entry(k)
        BY Zenon, <4>3, <4>4, <4>5
      <4>6. CASE Entry(k) \in {"waiting", "held"} /\ Entry(k)' = "running"
        <5>1. Ledger!Run(k)
          BY Zenon, <4>3, <4>4, <4>6 DEF Ledger!Run, Ledger!Move
        <5> QED
          BY Zenon, <5>1 DEF Ledger!Next
      <4>7. CASE Entry(k) = "running" /\ Entry(k)' = "held"
        <5>1. Ledger!Produce(k)
          BY Zenon, <4>3, <4>4, <4>7 DEF Ledger!Produce, Ledger!Move
        <5> QED
          BY Zenon, <5>1 DEF Ledger!Next
      <4>8. CASE Entry(k) = "held" /\ Entry(k)' = "answered"
        <5>1. Ledger!Answer(k)
          BY Zenon, <4>3, <4>4, <4>8 DEF Ledger!Answer, Ledger!Move
        <5> QED
          BY Zenon, <5>1 DEF Ledger!Next
      <4>9. CASE Entry(k) = "held" /\ Entry(k)' = "waiting"
        <5>1. L' = [j \in Audits |-> IF j \in {} THEN "held" ELSE IF j \in {k} THEN "waiting" ELSE L[j]]
          BY Zenon, <4>3, <4>9
        <5>2. Ledger!Lose({k}, {})
          BY Zenon, <4>4, <4>9, <5>1 DEF Ledger!Lose
        <5> QED
          BY Zenon, <5>2 DEF Ledger!Next
      <4> QED
        BY Zenon, <4>2, <4>5, <4>6, <4>7, <4>8, <4>9
    <3> QED
      BY Zenon, <3>2, <3>3
  <2>6. CASE DaemonCrash
    <3> DEFINE K == {j \in Audits : Entry(j) = "running" /\ file[j] \in Nat}
               S == {j \in Audits : Entry(j) \in {"running", "held"} /\ file[j] \notin Nat}
    <3>1. ASSUME NEW j \in Audits
          PROVE  Entry(j)' = IF j \in K THEN "held" ELSE IF j \in S THEN "waiting" ELSE Entry(j)
      <4>1. ~Executing(j)' /\ ~Holding(j)' /\ acked' = acked /\ file' = file
        BY Zenon, <2>6 DEF DaemonCrash, Executing, Holding
      <4>2. Executing(j) => j \notin acked
        BY Zenon, <2>2 DEF Done, Executing
      <4>3. Entry(j)' = IF j \in acked THEN "answered" ELSE IF file[j] \in Nat THEN "held" ELSE "waiting"
        BY Zenon, <4>1 DEF Entry
      <4> QED
        BY Zenon, <4>2, <4>3 DEF Entry
    <3>2. L' = [j \in Audits |-> IF j \in K THEN "held" ELSE IF j \in S THEN "waiting" ELSE L[j]]
      BY Zenon, <3>1
    <3>3. (\A j \in S : L[j] \in {"running", "held"}) /\ (\A j \in K : L[j] = "running")
      BY Zenon
    <3>4. S \in SUBSET Audits /\ K \in SUBSET Audits
      BY Zenon
    <3> HIDE DEF S, K
    <3>5. Ledger!Lose(S, K)
      BY Zenon, <3>2, <3>3 DEF Ledger!Lose
    <3> QED
      BY Zenon, <3>4, <3>5 DEF Ledger!Next
  <2> HIDE DEF L
  <2> QED
    BY Zenon, <2>1, <2>3, <2>4, <2>5, <2>6 DEF JobsNext, PollLoop, Poll, Age, jobVars, handling, storing
<1> QED
  BY <1>1, <1>2, JobsInvariant, PTL DEF JobsSpec, LedgerKept, Ledger!Spec

=============================================================================
