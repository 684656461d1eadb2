# Formal model of ssync

TLA+ specifications, TLC configurations and TLAPS proofs for
`ssync.space_sync`: file transfer over lossy, long-delay, sometimes one-way
UDP links. Paths below are relative to `src/` of the repository checkout
(`src/ssync/space_sync/receiver.py` is written `receiver.py`).

    tlc  -config ReceiverVersions.cfg MCReceiver.tla     # any run below
    tlapm ReceiverProofs.tla ; tlapm ReceiverSafetyProofs.tla
    tlapm ReceiverDeliveryProofs.tla
    tlapm TransferProofs.tla ; tlapm RepairRequestsProofs.tla
    tlapm SyncProofs.tla ; tlapm PreMetadataProofs.tla
    tlapm ChunkTrackerProofs.tla

## 1. The system

A sender cuts a file into numbered chunks and sends METADATA (the manifest) and
DATA frames. A receiver writes chunks into a hidden part file, asks for what is
missing with STATUS frames, verifies the SHA-256 and puts the file in place. A
feedback link may be absent, late or lossy. Both ends are single processes with
several threads; the receiver persists a journal.

| Component | State | Operations | Interacts with | What is hard | What makes it correct |
|---|---|---|---|---|---|
| Receiver core (`receiver.py`) | `_transfers`, `_transfer_ids_by_signature`, one `_TransferStateData` each with a memory map, `_finalize_queue`, `_completed`, journal, part files, destination files | METADATA: answer, resume or create; DATA; finalize (hash, place, utime, unlink, finish, report); flush; load journal | receive thread, finalize worker, maintenance thread, repair timer; sender over UDP; the monitor reads the journal | objects shared by reference between threads; checks outside the lock; crash between two steps; ids that change or come back | a destination is one whole version; COMPLETE is true; the journal never claims absent bytes; nothing is forgotten; threads end only at what a stop left half done |
| Buffer before METADATA (`receiver.py:1135-1228`) | `_pending_pre_metadata`, byte counters | buffer, evict oldest, expire, pop, replay | DATA and METADATA handlers, maintenance, clear | eviction while inserting, replay without the lock | the three limits, exact accounting, nothing popped is lost |
| Ranges and tracker (`ranges.py`) | sorted ranges, count | add, missing, limit, merge, restore | receiver, STATUS frame, sender | boundaries | the list is the set of chunks; requests name the first missing ones |
| Repair requests (`receiver.py:677-957`; `RepairRequests`) | in-flight flag, counts at the last request, times | periodic request, early release, timeout, leading-hole boost | tracker, timer thread, send queue | retry against late answers, dropped sends | a gap is asked for until it is filled; one batch at a time |
| Beacons (`receiver.py:264-312, 815-851`) | last sent and received times | send, receive, restore | journal, sender | monotonic times restored after a reboot | beacons resume |
| Clear requests (`receiver.py:1353-1386`, `output_dir.py`) | a request file | consume, empty tables, delete files | every thread, monitor | races with prepare and finalize | nothing half deleted is used |
| Sender (`sender.py`) | feedback mode, repair queue, budgets, paced bytes | send pass, probe, repair threads, wait | receiver, sync | threads merged after a timed join, consumed STATUS frames, retry budgets | completed means delivered when feedback is on |
| Directory sync (`cli.py:1415-2070`) | work list, revisit list, prefetch cache | scan, send, revisit, prefetch | sender threads | shared lists, timed joins, stale checksums | every file is eventually sent or reported |
| Frames (`frames.py`, `types.py`) | none | encode, decode | all | malformed input | round trip |
| Monitor (`monitor.py`) | snapshots, IPC events | merge, render | journal, IPC socket | event order | shown progress does not go back |
| Configuration, scripts | none over time | parse, validate, drive | | | |

`PROJECT.json` lists the components with their status and, under `hazards`, each
place of the code where the hard part bites.

## 2. Modules

| Module | Models | Lines |
|---|---|---|
| `Delivery` | abstract specification: a name changes from one whole version to another; COMPLETE is said of the version in place, or of the one found in place for the answer now given | the promise of the receiver |
| `Receiver` | the receiver core, refining `Delivery` | `receiver.py` 50-445, 491-674, 853-898, 959-1133, 1396-1562 |
| `ReceiverInvariant` | the inductive invariants of `Receiver` | |
| `MCReceiver` | instances: who sends which version under which id | |
| `ReceiverProofs` | type correctness, proved | |
| `ReceiverSafetyProofs` | the safety invariants, proved | |
| `ReceiverDeliveryProofs` | journal, restart, `Attended` and the refinement of `Delivery`, proved | |
| `PreMetadata`, `MCPreMetadata` | the buffer for early DATA | `receiver.py` 1135-1228 and its callers |
| `PreMetadataProofs` | its limits, accounts and `ReplayKeepsAll`, proved | |
| `Ranges` | the operators of `ranges.py`, shared by the receiver and the sender side | `ranges.py` |
| `ChunkTracker`, `MCChunkTracker` | the tracker as a state machine over `Ranges` | `ranges.py` 99-208 |
| `ChunkTrackerProofs` | its invariants, proved, and what the operators of `Ranges` compute | |
| `RepairRequests` | how a receiver with feedback asks for what is missing | `receiver.py` 677-997, 1608-1680 |
| `RepairRequestsProofs` | its properties but liveness, proved | |
| `Sender` | one call of `send_file`: the calling thread, the receive pump, the repair worker | `sender.py` 70-965, 1070-1222 |
| `Transfer`, `MCTransfer` | `Sender`, a link and the receiver of one file | the composition |
| `TransferProofs` | its invariants, proved | |
| `Sync`, `MCSync` | one run of the sync command | `cli.py` 1383-2070 |
| `SyncProofs` | its invariants, proved | |

### Receiver

State and code:

| Variable | Code |
|---|---|
| `transfers`, `sigIndex` | `_transfers`, `_transfer_ids_by_signature` |
| `obj` | the `_TransferStateData` objects, held by reference from the table, the queue and the threads' locals; `addr` is `source_addr` |
| `recv`, `fin` | where the receive thread and a finalization stand, with their locals (`recv`: the id, the version and the object in hand) |
| `queue`, `completed`, `journalDirty` | `_finalize_queue`, `_completed`, `_journal_dirty` |
| `journal` | `.ssync-journal.json` |
| `part`, `temp`, `final`, `file` | directory entries (`.<id>.part`, `.<name>.<id>.tmp`, the destination) and inodes: a path, a hard link and a memory map can name the same inode |
| `told` | the last STATUS emitted per id |

An action is a stretch of code under one hold of the lock, or one file system
operation, so that every other thread can run between two actions and a stop can
fall there. While the receive thread prepares a part file it keeps the lock over
several actions (`LockFree`):

| Action | Code |
|---|---|
| `MetadataOfPresentFile`, `MetadataOfOtherFile` | the check of the completed file (324), without the lock; its outcome is acted upon later |
| `AnswerComplete` | the COMPLETE for a file found in place (325-344), by which time the worker may have placed another version |
| `PrepareKnown`, `PrepareResume` | the first two branches under the lock (348-388) |
| `OpenPart`, `TruncatePart`, `PrepareCreate` | the third: `open("wb")` creates the part file without bytes (390), `truncate` gives it its size (391), the transfer enters the table and the file is mapped (392-445). A file too short for its version makes `mmap` raise, which ends the thread; an empty file goes on to its finalization |
| `Data`, `DataWithoutFile` | `_accept_data` (617-674); without a map and without a part file its `open` raises |
| `Beacon` | a beacon from the sender (293-312), which may change its address |
| `StaleComplete` | `_maybe_finalize_stale_transfer` (959-997) when nothing is missing |
| `MarkFinalized`, `PutFinalization` | `_queue_finalization` (1007-1023): the journal is written before the queue is filled |
| `TakeFinalization`, `Hash`, `Place`, `Utime`, `Unlink`, `Finish`, `Report`, `PartMissing` | the worker (999-1133), one action per file operation; `PartMissing` is an exception that nothing catches. The receive thread runs the same steps inline when the worker is dead |
| `Link`, `LinkToItself`, `OpenCopy`, `Copy` | with part files kept (1059-1062): `os.link` under the temporary name, and the fallback to `copyfile` when the name is taken, which raises `SameFileError` on a link to the part file itself, and otherwise empties the file and fills it |
| `FlushJournal`, `FlushMmap` | the maintenance thread (253-262) |
| `Restart` | a stop at any point and `_load_journal`; under `PowerLoss`, unflushed chunks of the part files may be lost. A graceful stop is `FlushJournal`, `FlushMmap`, `Restart` |

Abstractions: a chunk's content is the version it belongs to, so a hash matches
exactly when every chunk is of the manifest's version; the network is not stored
(any frame of any session, at any time, any number of times); the replay of
buffered chunks is a late DATA here and has its detail in `PreMetadata`; mapping a part file
fails only when the file is missing or too short, and a map whose file is cut short
under it, which kills the process, is a `Restart`; of the journaled fields that
change without the chunks the address stands for all; the journal itself survives a
power loss (it is replaced by rename, though not fsynced), and a power loss turns
unflushed chunks back into holes, never into an earlier version's bytes. Repair
requests, the send queue's overflow and its worker are in `RepairRequests`.

Left out: a hit in `_completed_hash_cache`, which answers COMPLETE for a file of the
very contents asked for whatever its time (556-563), and the digest that is compared
when a manifest has no modification time (574-586; `send_file` always sends one); the
moment in `start` before the worker exists (160-171), in which a restored transfer is
finalized inline; where a STATUS is sent to; clear requests.

### PreMetadata

`buffer` is `_pending_pre_metadata` with its counters, ids in the order of
their last update (which replaces the time stamps: the entries that expired are
the oldest ones, any number of them). `replay` is the list that the receive
thread popped and goes through without the lock while `Finalized`, `Expire` and
`Clear` run. The payload of a chunk has a fixed length per id and index.

### Ranges and ChunkTracker

Loops over a list are folds, the bisection is a recursive function. A sorted list is
stated by the place of each element, the number of those that stand before it, as a
stable sort gives it, because that can be reasoned about. `got` is the plain set of
chunks that arrived, the reference for the properties.
`RangesFromIndexes` is a second, independent way to the canonical list.
A list on the wire is encoded and decoded with a merge at both ends.

### RepairRequests

`tr` is the part of `_TransferStateData` that requests depend on, with the
chunks received as a set; `ask` holds `repair_request_in_flight`,
`received_count_at_last_request` (`base`), `requested_chunks_at_last_request`
(`asked`) and the age of `last_periodic_repair_request_s` (`request`). `receive`
separates the tick under the lock (809-819) from the stale check that takes the
lock again (820), so that the repair timer can run in between. Time is ages, cut
off where every comparison already says "long ago"; a beacon that is due and a
transfer that is stale are choices. `Init` is also a start from a journal, which
may be older than what was received. The link keeps the latest request only (an
older one counts as lost) and delivers frames any number of times.

Fulfilment is measured by count, not by identity: late DATA of the forward pass
releases a request as its own answer would. The tick does not look at
`forward_stream_quiet_s`, only the timer does.

### Sender and Transfer

| Variable | Code |
|---|---|
| `call` | the arguments and the configuration: feedback on, off or automatic, first pass or repairs only, limits |
| `main` | where the calling thread stands, with `completed_by_receiver_signal` (`signalled`), `dropped_chunk_indexes`, `initial_data_phase_complete` (`phaseDone`) and the `SendResult` |
| `fb` | `feedback_active`, `prioritize_forward_data`, and whether `feedback_deadline_s` has passed |
| `spent` | rounds counted against the budget and after the pass, idle timeouts |
| `rt`, `pump`, `worker` | `_ParallelRepairRuntime` and the two threads |
| `known` | `_auto_feedback_active`, which outlives the call |
| `wire`, `uplink` | every frame sent so far; STATUS frames and beacons on their way to or waiting in `rx_sock` |
| `rcv` (Transfer) | what the receiver has of this file |

Each turn of a loop, each frame taken from the socket and each burst of repairs
is an action. The three threads read one socket, so which of them gets a COMPLETE
is a race. Joining gives up after a second, so a thread may outlive it; one that
then touches the runtime finds `None` and ends with an exception. The calling
thread switches the socket to blocking before it gives it a timeout again (254-255,
285-286, 766-767); a `recvfrom` that the pump enters in between (`PumpMeets`) waits
for a frame without a limit (`pump = "blocked"`). Time outs,
suppression windows and due probes are choices. The source may be edited or cut
while it is sent. The receiver in `Transfer` is the promise of `Receiver`
(COMPLETE only with the file in place) together with its silence, its requests
and its restarts of a mismatched transfer.

Facts of the code the model has and a reader may not expect: the branch at
519-577 is never reached with anything to drain, because while feedback is active
the pass has its threads (`ThreadsServeThePass`); a return before the pass (a
file of no chunks, a signal) leaves threads started at 447 running; HASH_MISMATCH
is ignored by a drain, and ends only the pump when the pump hears it; a chunk
that cannot be read any more is skipped and an open-loop call still completes; a
revisit whose feedback went away before it sent anything completes as well (731-748);
a beacon or a repeated METADATA that finds the socket blocked past its timeout ends
the call with an exception (981-987, 1009-1012 catch `BlockingIOError` only).

### Sync

| Variable | Code |
|---|---|
| `main` | the main thread: the round, the items left, the current one, the result of its transfer |
| `queue`, `keys`, `current` | `revisit_queue`, `revisit_active_keys`, `current_primary_revisit_key` |
| `worker`, `thread`, `halt` | the revisit worker threads (one that outlived its join runs on), the one the command knows of, its stop event |
| `active` | `_auto_feedback_active` of the primary sender, written by three places |
| `ahead` | the checksum prefetch: queue, file in hand, cache |
| `counts` | the state file of open loop, all that survives a crash |
| `version`, `fate` | the contents of the sources; how the last transfer of each file ended |

A transfer is one action with the results that `Transfer` allows it; a file without
chunks (`args.empty`) is complete once its METADATA is sent, without an answer even
when feedback is forced on (`sender.py:475-486`). Between two
actions of the main thread the worker may take an entry, revisit it or die.

Left out: several destinations, dry run, printed counters, the unreachable branch
for a bad transfer id (1773). A revisit that meets an inactive uplink inside
`send_file` sends METADATA only and counts as completed, as the code has it; with
feedback not forced on, "completed" without an answer is therefore allowed by
`SuccessIsEarned`, and so is an empty file in every mode. It says nothing of a file
whose entry a worker took and never gave back, because it outlived its join or an
exception ended it (`Held`); `sync_forgets` shows what that costs. A file refused with PermissionError is skipped with exit code 0.

## 3. Runs

| Run | Instance | Shows |
|---|---|---|
| `versions` | two versions of one name (two chunks; empty), an id each, two addresses, 2 restarts | `TypeOK`; `JournalFresh`: a clean journal is what a restart should continue from; `Attended`; `DeliversTruthfully`: also between the look at the destination and the answer |
| `resent` | one version under two ids, part files kept, 2 restarts | `IndexExact`, `JournalSound`, `NoFalseMismatch`, `FinalWhole`, `RestartExact`; `ThreadsAlive`: a thread ends only at a part file without its size or at a temporary name that a stop left |
| `reused` | two versions of two chunks under one id, 1 restart | `DeliversTruthfully`: the part file may be a mixture, the destination never |
| `tangled` | a version under two ids, one of which returns with another version | `IndexExact`; the runs' only way into a missing part file (`PartMissing`, `DataWithoutFile`) |
| `power` | one version, 2 power losses, fairness | `DeliversTruthfully`, `Delivered` |
| `pre_metadata` | four ids of three versions, a long and a short chunk each; room for four bytes, three per id, three ids | `TypeOK`, `MemoryBounded`, `Accounted`, `ReplayKeepsAll` |
| `chunk_tracker` | files of 0, 1, 2, 5, 8 chunks; two foreign journals | `TypeOK`, `RangesExact`, `MissingExact`, `RequestsFirstMissing` |
| `repair_requests` | three chunks, any of them received before and any on their way, requests of one chunk (two for a leading hole), a queue of two | `FlightSound`: a request in flight is the latest one, with the counts of its time, and can be fulfilled; `RequestsUseful`: it names missing chunks, the first among them, within the budget; `RequestsPaced`: timer and tick together do not flood; `Recovered`: the file is completed in the end |
| `transfer` | eight kinds of calls on files of no, one and two chunks, two frames of the receiver at a time | `ConfirmedIsDelivered`: completed with feedback means the file is in place; `OpenLoopSentAll`: without it, every chunk was sent, or dropped and the call says so; of a call without a first pass it is only said that it completes; `ThreadsServeThePass`, `BudgetKept`; `Returns`: a limited call returns; `ThreadsEnd`: so do its threads, but for a pump in a `recvfrom` without a timeout |
| `sync` | six runs on one to three files, one of them empty; two worker threads | `OneOwner`: an incomplete transfer is in one place; `SuccessIsEarned`; `PrefetchSound`; `CountsFair`, crashes included; `SyncEnds` |

Two runs end in a counterexample, where the code does otherwise than a document
says (`findings` in `PROJECT.json`, with the quotation):

| Run | What happens |
|---|---|
| `stuck_resume` | METADATA under a new id takes over a transfer that is already queued. The worker removes the old id; the renamed entry stays, finalized, and refuses DATA for ever (`receiver.py:362-388, 632, 1104`) |
| `sync_forgets` | the revisit worker outlives its join while it revisits a file; the command ends with an empty queue and exit code 0, that file still incomplete (`cli.py:1862-1863, 2019-2024`) |

Other places where the modules show the code to do what a reader of the documents
would not expect, outside the instances above and in no run: a crash after the
journal left a finalized transfer out and before the worker placed it loses the
transfer (`receiver.py:1016-1021, 1399`); with part files kept, the next version
under the same id is written through the hard link into the delivered file
(389-391, 1059-1063), and a kept part file shorter than the next version makes
`mmap` raise `ValueError`, which ends the receive thread (861-873); an eviction
that takes the entry being filled leaves its bytes in the counter (1170-1183).

What the properties have to except, because the code does it inside the instances:

- a stop between 390 and 391 leaves a part file of no bytes; the next METADATA of its
  id ends the receive thread at 861, and the process goes on without one
  (`ThreadsAlive`, `Unprepared`);
- with part files kept, a temporary name that is left over ends the worker at 1062. A
  stop between 1060 and 1063 leaves one, and so does a second finalization of the same
  part file, because renaming one link over another of the same file does nothing
  (`ThreadsAlive`). The transfers then in the queue are finalized by nobody
  (`Attended`);
- after two such stops the leftover can be a link to the destination, which `copyfile`
  then empties and writes while it can be read (`FinalWhole`);
- COMPLETE can be said of a version that was replaced between the check (324) and the
  answer (326) (`DeliversTruthfully`, `found` in `Delivery`);
- a pump in a `recvfrom` without a timeout outlives the join, the call and, on a silent
  uplink, the closing of the socket (`ThreadsEnd`).

The `tangled` sessions are not claimed to be safe for the destination file:
there two live transfers share one part path (the resumed one keeps the path of
its old id), and a chunk written between `Hash` and `Place` reaches the
destination.

Bounds and why they are enough: two ids and two versions are what every race of
the code needs (a table entry and the one that replaces it), two objects and
three inodes are what can be alive at once (a part file, a destination and one
being created), two chunks give a partial file, one chunk and none the
boundaries, two restarts a restart of restored state. Objects and inodes are
interchangeable and declared symmetric where no liveness is checked. `TotalBound`
stops the counter that leaks; `MaxRestarts` the number of stops. Eight chunks
give up to four ranges, so that bisection has an inner, a left and a right case.
Three chunks are the least for a leading hole that is asked for in more than one
request, and for a request answered in part. Two chunks and two uplink frames give
a call of `send_file` a partial repair and a race for a COMPLETE; with a queue of
one request and bursts of one chunk both limits are met. Two files let a worker
revisit one during the transfer of the other; the third, and the second round,
return an entry to the queue. Two worker threads are one that outlived its join
and its successor; a third is not started in the model.

Fairness (`FairSpec`): a thread that can run does (weak fairness of the handler
it is in, of the worker and of each finalization step). The network and the
retries are strongly fair: a sender that keeps sending every frame gets each of
them through again and again, and its pauses let `recvfrom` time out, so that the stale
check is made (`receiver.py:242-243` to `809-820`). The maintenance thread needs none.
Deadlock is not checked where the system may stop: every transfer delivered and
nothing left to receive, a call or a command that has ended.
In `RepairRequests` the clock, the threads and the repair timer go on, a beacon is
not due again before the last one was sent (an interval of seconds against a
worker that polls), and of the frames sent again and again some arrive. In
`Transfer` the three threads run, the wait sees its time out, a drain sees an
empty socket some time, and a request that keeps coming is not within the
suppression window for ever (each suppressed one would reset the count of idle
timeouts, 849-876); `Returns` leaves out a source edited during the call,
with which a receiver can go on asking as long as frames of the old contents
arrive. In `Sync` both threads run; that a transfer ends is what `Returns` shows.

## 4. Proofs

`ReceiverProofs` proves `Spec => []TypeOK` for every value of the constants,
crashes and power losses included (`TypesHold`). Types alone are not inductive:
a step reads `file[part[t]]` and `obj[transfers[t]]`, which must not have been
reclaimed. `TypeInvariant` adds that paths and maps hold allocated inodes, that
containers and threads hold allocated objects, and that a thread inside a
handler knows its transfer.

`ReceiverSafetyProofs` proves, under `OneSigPerTid` (an id stands for one
version, as uuid4 ids do until a revisit) and without power loss,
`Spec => []SoundInvariant` (`Sound`), and from it `IndexAlwaysExact`,
`JournalAlwaysSound`, `MismatchNeverFalse`, `FinalAlwaysWhole` and
`ThreadsStayAlive`. The argument: every object is in the table under its own id
and the index finds it (`Keyed`, `Registered`), so one version has one object
and one part path; counted chunks are in its part file (`Registered`); an object
is handed to the worker once (`QueuedOnce`) and its part file is whole until
the worker moves it (`WaitingWhole`); so the worker finds the hash it expects
and never unlinks (`AtStation`); and journal records name unfinalized
transfers and chunks in their files (`JournalBacked`, `JournalKeys`), so that a
restart rebuilds the same invariant. Stops between two changes of the file system
make the rest: a part file has its size except between two steps or after a stop
(`PartsSound`, `Unsized`), a temporary name is a link to a part file of the version its
id stands for (`LinksNamed`), and a thread that has ended leaves its transfer in the
table, handed to nobody, and what ended it on the disk (`ReceiveEnded`,
`FinalizerEnded`). Both assumptions are needed: after a power
loss the journal may claim chunks that were not written back (it is saved before
the map is flushed, 260-262), and a reused id mixes two versions in a part file,
which rightly ends in a mismatch. For those cases the runs `power` and `reused`
check what must still hold.

`ReceiverDeliveryProofs` builds on both.

- `JournalAlwaysFresh` needs no assumption and holds with power losses. It is about the
  ids, part files and chunks, from which a restart continues; the address may be old
  (357, 654), and the id at which the receive thread ended between the table and the
  dirty flag is excepted (`Unprepared`).
- `RestartsAreExact` follows from that and from `SoundInvariant`, which says that the
  part file of a record has its size, so that the record is not dropped.
- `FinalizedAreAttended` also assumes `OneTidPerSig`: a version sent under a second
  id can take over a transfer in the worker's hands (the run `stuck_resume`).
- `DeliveryImplemented`: `Receiver` implements `Delivery` under the mapping of each
  destination to the version its file holds, and of `found` to the version that the
  receive thread is about to answer for. `DeliveryInvariant` adds to
  `SoundInvariant` that no two names share an inode and no part file is a destination
  (`Apart`); that a file has the modification time of its
  version or that of a write (`Dated`), which is all that the check of a completed
  file looks at; that the version is in place from `Place` to `Report` (`Placed`);
  and that an object which outlives its finalization still describes the destination
  (`DoneInPlace`). Every step that replaces a destination is one change to a whole
  version, and every COMPLETE is of a version in place or found in place.

The refinement has three more hypotheses. `VersionsTold`: versions of one name differ in
size or, when not empty, in modification time; otherwise METADATA of the second is
answered COMPLETE from the file of the first (547-588), without a hash. `ResentAlone`: a
version sent under two ids is the only one of its name; otherwise the entry that a resume
left in the table, finalized and done, answers COMPLETE for a version that another one
has replaced. And part files are not kept; otherwise a destination can be written
through a leftover temporary name. TLC finds a
counterexample for each that is left out.

`TransferProofs` proves all five invariants of `Transfer` for every set of calls
(any number of chunks, limits, drops and edits) and every configuration; the only
assumptions are that the limits of the configuration are natural numbers, four of
them not zero. Types are
inductive with `Steady`: where the calling thread stands says whether its pass
is over, that a chunk about to be sent exists, and that the idle count is below
its limit. `TransferConfirmed` follows one COMPLETE through the program
(`Told`): a COMPLETE that is on its way, that the pump noted, that the join or
a drain took over or that ended the call was sent by a receiver with the file
in place; since a placed transfer is closed it never starts over, so frames may
be as late as they like. `Settled` carries the rest. `Attended`: feedback can
be active in the pass only with the threads running, so the drain inside the
pass (519-577) does nothing and a drain always comes after it. `Budgeted`
needs that: the budget is then untouched until the poll after the pass, which
counts its own rounds from zero, and the wait serves only while budget is left,
hence less than one poll too many. `SentSoFar` is the loop invariant of the
pass: what lies behind the cursor was sent or is in `dropped`, from which the
tail removes only what it repeats, so that at the end of an open-loop call each chunk
is on the wire or was dropped (`TransferOpenLoop`). A call without a first pass has
dropped nothing and says that it has completed.

`RepairRequestsProofs` proves every safety property of `RepairRequests` for any
number of chunks, budgets, thresholds, timeouts and queue length. `FlightSound` alone
is not inductive: a check releases a request by counts, and the next request is
made in the same step, so a transfer that is not done must lack a chunk
(`Unfinished`), or that request would ask for nothing and never be fulfilled.
`RequestsPaced` relates the fields of the transfer to what was really put in the
queue: the age of the last request is the transfer's own clock up to one period
(`Clocks`), and a request in flight is that last one (`FlightSound`), whether the timer
or the tick made it. That it can be fulfilled, its base and what it asked for being no
more than the file has, counts the missing chunks at the time it was made
(`MissingCount`). `RequestsUseful` rests on the limits: what is left of a budget
begins with the first missing chunk, by the order of the chunk numbers.

`SyncProofs` proves every invariant of `Sync`, for any number of files, rounds,
edits, crashes and worker threads. `TypeOK` needs the phase of the main thread and of the
workers (`MainPhased`, `ThreadsPhased`). `OwnersCorrect` keeps `Owned`: queue, main
thread and workers divide `revisit_active_keys` among them, also when a worker that
outlived its join puts its entry back late. `SuccessCorrect` is the loop invariant
of a round over that: while nothing has failed, each file behind the cursor is
settled or has a key (`RoundKept`), the result in hand is that of the current file
(`ResultKept`), and forced feedback admits no unheard completion, but for a file
without chunks (`Heard`); at the
end the queue is empty and every key is in the hands of a worker, running or ended. `PrefetchCorrect` follows
a digest from the stat before the hash to the transfer (`Hashed`). `CountsCorrect`
keeps the counts in the order in which the rest of the round is sent (`Sorted`): the
round begins with the least, a crash keeps the counts and nothing else.

Two things the proof of `CountsCorrect` brought up: a file that `--skip-unchanged` found
unchanged is not counted, so the counts drift apart and the property is about runs
without it; and the order of a round is now stated by the place of each file
(`Place`), the number of files before it, as a stable sort gives it.

`PreMetadataProofs` proves the four properties of `PreMetadata` for any finite sets of
ids and chunks, any sizes and any limits. `Sound` says of a buffer that its entries are
distinct, that each is charged the sum of its chunks' sizes and no more than its limit,
that a missing entry holds nothing, and that the byte counter is at least what is held
(it may be more: an entry evicted while a chunk is added to it leaves its bytes
counted, 1170-1183). `StoredSound` follows one arrival through all its steps: the
opening of an entry with its evictions, the limit of the entry, the evictions for the
total, and the case in which the entry itself goes. `ReplayKeepsEverything` also needs
that the table has one id per version (`OneId`) and that nobody takes over the version
being replayed (`ReplayOwned`), since the replay runs without the lock.

The sums and the evictions in it are recursive functions. The library's theorems for
induction take an operator as a parameter and cannot be used; the proofs argue by the
least counterexample instead (`Least` for numbers, `Smallest` for finite sets), which
gives that a sum does not depend on the order of the summands (`SumSplit`) and what
k evictions leave (`EvictedSound`).

`ChunkTrackerProofs` proves the four properties of `ChunkTracker` for files of any
size, any lists of pairs of integers as journals and any budgets. `Inv` says that the
list is canonical (in order, a missing chunk between any two ranges, none empty), has
exactly the chunks that arrived and counts them. What makes that enough is `OneList`:
two canonical lists with the same chunks are the same list, so `RangesFromIndexes` of
the chunks is the only list there can be, and no operator is ever compared with
another one, only with the set of its chunks. Each loop has its own invariant
(`MergedUpto`, `ExtendedUpto`, `KeptUpto`, `SkippedUpto`, `SpentUpto`), which says what
the list is after k elements; `FoldExists` gives the values in between. Bisection is
compared with the number of ranges that begin before the chunk (`FoundExact`); adding a
chunk splices one range in place of none, one or two (`InsertedExact`); a limited list is
an initial part of the missing chunks (`Limited`), of which there is only one for each
number of chunks (`OneInitial`), also when the sender limits it again (`LimitedTwice`).

The proofs have one step per action and one per conjunct below it; the
assumptions on constants are those of `Receiver`, `Sender`, `Sync`,
`RepairRequests`, `PreMetadata` and `ChunkTracker`, which the runs evaluate.

Only model-checked:

- Liveness: `Delivered`, `Recovered`, `Returns`, `ThreadsEnd`, `SyncEnds`. It rests on
  fairness and ENABLED, which the prover does not reason about.
- What the receiver does outside the hypotheses above: after a power loss, with reused
  or tangled ids, with versions that cannot be told apart. The runs check there what
  must still hold, and the two runs that expect a violation what does not.

## 5. Plan

Done: `Receiver` with its invariants and proofs, `PreMetadata`, `Ranges`,
`ChunkTracker`, `RepairRequests`, `Sender`, `Transfer`, `Sync`; the proofs of every
safety property.

What could be proved next lies outside the hypotheses of the present theorems: what
the runs `power` and `reused` check there, `DeliversTruthfully` first of all (a file is
placed only after its hash was compared, and that must be enough), and what a finalized
entry that a resume left in the table still guarantees.

Not modelled and why: byte layouts of frames (no behaviour over time; a frame
that does not decode is a lost one), configuration and command line parsing, the
monitor (a view of the journal and of events), scripts and benchmarks; the files
deleted by a clear request; the ages in beacons and the clock they are read from
after a reboot; where a STATUS is sent to; `query_remote_file`, pacing and rate limit of the
sender, which only change when a step happens.
