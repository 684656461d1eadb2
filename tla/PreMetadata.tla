----------------------------- MODULE PreMetadata -----------------------------
(***************************************************************************)
(* The buffer of SpaceSyncReceiver for DATA that arrives before its        *)
(* METADATA (space_sync/receiver.py:1135-1228), with the places that fill, *)
(* pop, age and clear it.                                                  *)
(*                                                                         *)
(* The receive thread handles DATA and METADATA and replays what it popped *)
(* without holding the lock; the finalize worker and the maintenance       *)
(* thread run in between.                                                  *)
(***************************************************************************)
EXTENDS Integers, Sequences, FiniteSets, SequencesExt, FiniteSetsExt

CONSTANTS
  Tid,             \* transfer ids
  Chunk,           \* chunk indexes
  Size,            \* Size[t][c]: payload length of chunk c of transfer t
  Version,         \* Version[t]: manifest signature of transfer t
  MaxBytes,        \* pre_metadata_max_pending_bytes
  MaxPerTransfer,  \* pre_metadata_max_pending_bytes_per_transfer
  MaxTransfers,    \* pre_metadata_max_pending_transfers
  TotalBound,      \* bound on the byte counter explored
  NoTid

ASSUME BufferAssumption ==
  /\ IsFiniteSet(Tid)
  /\ Chunk \subseteq Nat /\ IsFiniteSet(Chunk)
  /\ Size \in [Tid -> [Chunk -> Nat]]
  /\ {MaxBytes, MaxPerTransfer, MaxTransfers, TotalBound} \subseteq Nat \ {0}
  /\ NoTid \notin Tid

VARIABLES
  buffer,  \* _pending_pre_metadata and its byte counter
  known,   \* ids in _transfers
  got,     \* the chunks each of them received
  replay   \* chunks popped from the buffer and not yet accepted

vars == <<buffer, known, got, replay>>

\* recent: ids with an entry, the least recently updated first.
NoBuffer == [recent |-> <<>>, chunks |-> [t \in Tid |-> {}], size |-> [t \in Tid |-> 0],
             total |-> 0]
NoReplay == [tid |-> NoTid, chunks |-> {}]

Init ==
  /\ buffer = NoBuffer
  /\ known = {}
  /\ got = [t \in Tid |-> {}]
  /\ replay = NoReplay

-----------------------------------------------------------------------------
(* Entries. *)

Pending(b) == ToSet(b.recent)

\* pop of an entry, and the subtraction that goes with it.
Without(b, t) ==
  [recent |-> RemoveFirst(b.recent, t),
   chunks |-> [b.chunks EXCEPT ![t] = {}],
   size |-> [b.size EXCEPT ![t] = 0],
   total |-> Max({0, b.total - b.size[t]})]

\* Evicted(b)[k]: the buffer after its k least recently updated entries went.
Evicted(b) ==
  LET after[k \in 0 .. Len(b.recent)] ==
        IF k = 0 THEN b ELSE Without(after[k - 1], b.recent[k])
  IN  after

\* Entries older than the time to live: some of the least recently updated.
Expirations(b) == {Evicted(b)[k] : k \in 0 .. Len(b.recent)}

\* A new entry, after making room for it among max_pending_transfers.
Opened(b, t) ==
  LET k == Min({Len(b.recent), Max({0, Len(b.recent) - MaxTransfers + 1})})
      e == Evicted(b)[k]
  IN  [e EXCEPT !.recent = Append(@, t)]

\* Faulty variant: a duplicate is counted again.
NothingReplaced(b, t, c) == 0
\* The bytes that chunk c replaces.
Replaced(b, t, c) == IF c \in b.chunks[t] THEN Size[t][c] ELSE 0

\* Faulty variant: at most one entry is evicted.
OneEviction(b, t, more) ==
  IF b.total + more > MaxBytes /\ b.recent # <<t>> THEN 1 ELSE 0

\* How many entries go before "more" bytes fit: until they do, none is left,
\* or only the entry of t itself.
Evictions(b, t, more) ==
  LET after == Evicted(b) IN
  Min({k \in 0 .. Len(b.recent) : \/ after[k].total + more <= MaxBytes
                                  \/ after[k].recent \in {<<>>, <<t>>}})

\* Chunk c goes into the entry of t that was looked up before the evictions:
\* when they took that entry too, it is written to an object nobody refers to.
Stored(b, t, c) ==
  LET more == Size[t][c] - Replaced(b, t, c)
      e == Evicted(b)[Evictions(b, t, more)]
  IN  IF b.size[t] + more > MaxPerTransfer THEN b
      ELSE IF e.total + more > MaxBytes /\ e.recent = <<t>> THEN e
      ELSE IF t \notin Pending(e) THEN [e EXCEPT !.total = @ + more]
      ELSE [recent |-> Append(RemoveFirst(e.recent, t), t),
            chunks |-> [e.chunks EXCEPT ![t] = @ \cup {c}],
            size |-> [e.size EXCEPT ![t] = @ + more],
            total |-> e.total + more]

\* _buffer_pre_metadata_chunk_locked.
Buffer(t, c) ==
  /\ Size[t][c] <= MaxPerTransfer
  /\ buffer.total + Size[t][c] <= TotalBound
  /\ IF t \in Pending(buffer)
     THEN buffer' = Stored(buffer, t, c)
     ELSE \E b \in Expirations(buffer) : buffer' = Stored(Opened(b, t), t, c)

-----------------------------------------------------------------------------
(* The receive thread. *)

DataUnknown(t, c) ==
  /\ replay = NoReplay
  /\ t \notin known
  /\ Buffer(t, c)
  /\ UNCHANGED <<known, got, replay>>

DataKnown(t, c) ==
  /\ replay = NoReplay
  /\ t \in known
  /\ got' = [got EXCEPT ![t] = @ \cup {c}]
  /\ UNCHANGED <<buffer, known, replay>>

\* Faulty variant: the loop is entered though nothing was buffered.
AlwaysReplays(t) ==
  /\ replay = NoReplay
  /\ t \notin known
  /\ known' = known \cup {t}
  /\ buffer' = IF t \in Pending(buffer) THEN Without(buffer, t) ELSE buffer
  /\ replay' = [tid |-> t, chunks |-> buffer.chunks[t]]
  /\ UNCHANGED got

\* A new transfer takes what was buffered for its id.
MetadataNew(t) ==
  /\ replay = NoReplay
  /\ t \notin known
  /\ \A p \in known : Version[p] # Version[t]
  /\ known' = known \cup {t}
  /\ buffer' = IF t \in Pending(buffer) THEN Without(buffer, t) ELSE buffer
  /\ replay' = IF buffer.chunks[t] = {} THEN NoReplay
               ELSE [tid |-> t, chunks |-> buffer.chunks[t]]
  /\ UNCHANGED got

\* A transfer of the same version goes on under the new id; the branch returns
\* before the buffer is popped.
MetadataResumed(t) ==
  /\ replay = NoReplay
  /\ t \notin known
  /\ \E p \in known :
       /\ Version[p] = Version[t]
       /\ known' = (known \ {p}) \cup {t}
       /\ got' = [got EXCEPT ![t] = got[p], ![p] = {}]
  /\ UNCHANGED <<buffer, replay>>

\* Faulty variant: the loop ends after the first chunk.
ReplayFirst ==
  /\ replay # NoReplay
  /\ replay' = NoReplay
  /\ IF replay.tid \in known
     THEN /\ got' = [got EXCEPT ![replay.tid] = @ \cup {Min(replay.chunks)}]
          /\ UNCHANGED buffer
     ELSE /\ Buffer(replay.tid, Min(replay.chunks))
          /\ UNCHANGED got
  /\ UNCHANGED known

\* One round of the replay loop, which goes through _accept_data again.
Replay ==
  LET t == replay.tid
      c == Min(replay.chunks)
      rest == replay.chunks \ {c}
  IN  /\ replay # NoReplay
      /\ replay' = IF rest = {} THEN NoReplay ELSE [replay EXCEPT !.chunks = rest]
      /\ IF t \in known
         THEN /\ got' = [got EXCEPT ![t] = @ \cup {c}]
              /\ UNCHANGED buffer
         ELSE /\ Buffer(t, c)
              /\ UNCHANGED got
      /\ UNCHANGED known

-----------------------------------------------------------------------------
(* The other threads. *)

\* The finalize worker takes a whole transfer out of the table.
Finalized(t) ==
  /\ t \in known /\ got[t] = Chunk
  /\ known' = known \ {t}
  /\ got' = [got EXCEPT ![t] = {}]
  /\ UNCHANGED <<buffer, replay>>

Expire ==
  /\ buffer' \in Expirations(buffer)
  /\ UNCHANGED <<known, got, replay>>

\* The part of a clear request that concerns the tables.
Clear ==
  /\ buffer' = NoBuffer
  /\ known' = {}
  /\ got' = [t \in Tid |-> {}]
  /\ UNCHANGED replay

Next ==
  \/ \E t \in Tid, c \in Chunk : DataUnknown(t, c) \/ DataKnown(t, c)
  \/ \E t \in Tid : MetadataNew(t) \/ MetadataResumed(t) \/ Finalized(t)
  \/ Replay
  \/ Expire
  \/ Clear

Spec == Init /\ [][Next]_vars

-----------------------------------------------------------------------------
(* Properties. *)

\* Every variable holds a value of the kind the code keeps in it.
TypeOK ==
  /\ buffer \in [recent : Seq(Tid), chunks : [Tid -> SUBSET Chunk], size : [Tid -> Nat],
                 total : 0 .. TotalBound]
  /\ known \subseteq Tid
  /\ got \in [Tid -> SUBSET Chunk]
  /\ replay \in {NoReplay} \cup [tid : Tid, chunks : (SUBSET Chunk) \ {{}}]

Held == MapThenSumSet(LAMBDA t : buffer.size[t], Tid)

\* The memory taken by ids nobody announced stays within all three limits,
\* whatever mixture of ids, duplicates and evictions arrives.
MemoryBounded ==
  /\ Held <= MaxBytes
  /\ \A t \in Tid : buffer.size[t] <= MaxPerTransfer
  /\ Len(buffer.recent) <= MaxTransfers

\* An entry is charged for exactly the chunks it holds, one entry per id, and the
\* counter never falls below what is held.
Accounted ==
  /\ \A t \in Tid :
       buffer.size[t] = MapThenSumSet(LAMBDA c : Size[t][c], buffer.chunks[t])
  /\ \A t \in Tid : t \notin Pending(buffer) => buffer.chunks[t] = {}
  /\ IsInjective(buffer.recent)
  /\ Held <= buffer.total

\* What the receiver has of version v, or has popped and is about to replay.
Gathered(v) ==
  {c \in Chunk : \E t \in Tid : /\ Version[t] = v
                              /\ \/ t \in known /\ c \in got[t]
                                 \/ t = replay.tid /\ c \in replay.chunks}

\* While a version stays in the table, under whichever id, no chunk that arrived
\* or was popped for it is lost, whatever the other threads do during the replay.
ReplayKeepsAll ==
  [][\A t, u \in Tid :
       (Version[t] = Version[u] /\ t \in known /\ u \in known') =>
         Gathered(Version[t]) \subseteq Gathered(Version[t])']_vars
=============================================================================
