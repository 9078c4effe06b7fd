----------------------------- MODULE MCSwarmer -----------------------------
(* Instances of Swarmer: one or two frontends on a file of a few bytes. *)
EXTENDS Swarmer, TLC

CONSTANTS prim, sec     \* the primary and a secondary

oneFrontend == {prim}
twoFrontends == {prim, sec}

\* Chunk sizes that do not divide each other: blocks {0,1}, {2}, {3}.
crossing == prim :> 2 @@ sec :> 3
\* Chunks of the secondary inside those of the primary: blocks {0}, {1}, {2}.
nested == prim :> 2 @@ sec :> 1
\* One frontend, two chunks.
alone == prim :> 2

\* eDonkey, which learns the hashes of its chunks after it has started, and
\* BitTorrent, which has them from the beginning.
lateHashes == {prim :> "NotAvailable" @@ sec :> "Chunks"}
chunkHashes == {prim :> "Chunks" @@ sec :> "Chunks"}
aloneHashes == {prim :> "Chunks"}
\* Gnutella, with the hash of the file or before it is known; fileTP.
anyHashes == {prim :> p : p \in {"Chunks", "Whole"}}
weakVerifiers == {prim :> p : p \in {"Whole", "Force", "None"}}

\* SoloChunks: the second frontend is new when it is merged.
nothing == {}

\* EnvBound: the kinds in f as often as f says, the others never.
bound(f) == f @@ [k \in EnvKinds |-> 0]
mergeFaults == bound("bad" :> 1 @@ "fail" :> 1 @@ "copy" :> 1)
\* A flush may go before a save that does none.
crashFaults == bound("unflushed" :> 1 @@ "crash" :> 1)
recheckFaults == bound("rot" :> 1 @@ "save" :> 1 @@ "crash" :> 1 @@ "recheck" :> 1)
weakFaults == bound("bad" :> 1 @@ "fail" :> 1 @@ "save" :> 1 @@ "crash" :> 1 @@ "hash" :> 1)
noFaults == bound(<<>>)
plainRecheck == bound("recheck" :> 1)
lostFile == bound("save" :> 1 @@ "lost" :> 1)
=============================================================================
