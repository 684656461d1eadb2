------------------------------ MODULE Receiver ------------------------------
(***************************************************************************)
(* The transfer lifecycle of SpaceSyncReceiver (space_sync/receiver.py):   *)
(* a transfer is prepared by METADATA, filled by DATA, queued for          *)
(* finalization by the receive thread, verified and published by the       *)
(* finalize worker, journaled by the maintenance thread, and restored from *)
(* the journal when the process starts again.  A handler that reads or     *)
(* changes files outside the lock, or that a stop may cut between two      *)
(* changes of the file system, is one action per such step.                *)
(*                                                                         *)
(* The network is not stored: any frame of any sender session may arrive   *)
(* at any time, any number of times, in any order, or never.  That covers  *)
(* loss, duplication, delay and reordering, and also the replay of chunks  *)
(* that were buffered before their METADATA (module PreMetadata).          *)
(*                                                                         *)
(* Files are inodes, because the receiver holds a memory map of the part   *)
(* file while paths are renamed, linked and unlinked under it.             *)
(***************************************************************************)
EXTENDS Integers, FiniteSets, Sequences

CONSTANTS
  Tid,          \* transfer ids
  Sig,          \* manifest signatures: one version of one file each
  Name,         \* destination file names
  Obj,          \* identities of _TransferStateData objects
  Inode,        \* inodes of the receiver's file system
  FileName,     \* FileName[s]: the name in manifest s
  NumChunks,    \* NumChunks[s]: total_chunks of manifest s
  SourceMtime,  \* SourceMtime[s]: the SOURCE_MTIME_NS entry of manifest s
  Mtime,        \* the values SourceMtime takes
  Addr,         \* source addresses of frames
  Sessions,     \* <<t, s>>: some sender transmits version s under id t
  Feedback,     \* ReceiverConfig.enable_feedback
  KeepPart,     \* ReceiverConfig.keep_part_files_on_complete
  PowerLoss,    \* a stop may also lose pages not yet written back
  MaxRestarts,  \* bound: number of stops and restarts explored
  NoTid, NoSig, NoObj, NoInode,
  Hole,         \* the content of a chunk never written (zeros)
  Now,          \* an mtime set by writing rather than by os.utime
  Free          \* the state of an inode nothing refers to

ASSUME ManifestAssumption ==
  /\ FileName \in [Sig -> Name]
  /\ NumChunks \in [Sig -> Nat]
  /\ SourceMtime \in [Sig -> Mtime]
  /\ Sessions \subseteq Tid \X Sig

ASSUME ConfigAssumption ==
  /\ Feedback \in BOOLEAN /\ KeepPart \in BOOLEAN /\ PowerLoss \in BOOLEAN
  /\ MaxRestarts \in Nat

-----------------------------------------------------------------------------
(* Data types. *)

Thread == {"recv", "worker"}
State == {"INCOMPLETE", "COMPLETE", "HASH_MISMATCH"}

\* The chunk indexes of version s.
Chunks(s) == 0 .. NumChunks[s] - 1

\* A file just created, or opened again by open("wb"): it has no bytes.
NoBytes == [c \in {} |-> Hole]

Content == {NoBytes} \cup (UNION {[Chunks(s) -> Sig \cup {Hole}] : s \in Sig})
File == [bytes : Content, mtime : Mtime \cup {Now}]

\* _TransferStateData: the manifest under its current id, the part file, the
\* address its sender was heard from, the chunks received, those not yet written
\* back, and the map of the part file.
TransferRec ==
  [tid : Tid, sig : Sig, part : Tid, addr : Addr, got : SUBSET Nat,
   unsynced : SUBSET Nat, map : Inode \cup {NoInode}, finalized : BOOLEAN, done : BOOLEAN]

\* Where the receive thread stands: the frame and the transfer it handles.
RecvRec ==
  [pc : {"idle", "answer", "prepare", "truncate", "map", "full", "put", "dead"},
   tid : Tid \cup {NoTid}, sig : Sig \cup {NoSig}, o : Obj \cup {NoObj}]

\* What _save_journal_locked writes of a transfer.
JournalRec == [tid : Tid, sig : Sig, part : Tid, addr : Addr, got : SUBSET Nat]

\* The locals of _finalize_transfer_impl and where it stands.
FinRec ==
  [pc : {"idle", "hash", "link", "copy", "place", "utime", "unlink", "finish",
         "report", "dead"},
   o : Obj \cup {NoObj}, tid : Tid \cup {NoTid}, sig : Sig \cup {NoSig},
   part : Tid \cup {NoTid}, state : State]

ASSUME NoneAssumption ==
  /\ NoTid \notin Tid /\ NoSig \notin Sig
  /\ NoObj \notin Obj /\ NoObj \notin TransferRec
  /\ NoInode \notin Inode /\ Free \notin File
  /\ Hole \notin Sig /\ Now \notin Mtime

VARIABLES
  transfers,    \* _transfers: id -> object
  sigIndex,     \* _transfer_ids_by_signature
  obj,          \* the objects themselves, shared by reference
  queue,        \* _finalize_queue
  recv,         \* where the receive thread stands
  fin,          \* the local variables of _finalize_transfer_impl, per thread
  completed,    \* _completed
  journalDirty, \* _journal_dirty
  journal,      \* .ssync-journal.json
  part,         \* id -> inode of .<id>.part
  temp,         \* id, name -> inode of .<name>.<id>.tmp, beside the destination
  final,        \* name -> inode of the destination file
  file,         \* inode -> content and modification time
  told,         \* id -> the last transfer STATUS emitted for it
  restarts      \* stops so far, up to MaxRestarts

memory == <<transfers, sigIndex, obj, queue, recv, fin, completed, journalDirty>>
disk == <<journal, part, temp, final, file>>
vars == <<transfers, sigIndex, obj, queue, recv, fin, completed, journalDirty,
          journal, part, temp, final, file, told, restarts>>

-----------------------------------------------------------------------------
(* Helpers. *)

\* The bytes of version s.
Whole(s) == [c \in Chunks(s) |-> s]

\* The part file of version s after truncate(file_size).
EmptyFile(s) == [bytes |-> [c \in Chunks(s) |-> Hole], mtime |-> Now]

Transfer(t, s, p, a, got, map) ==
  [tid |-> t, sig |-> s, part |-> p, addr |-> a, got |-> got, unsynced |-> {},
   map |-> map, finalized |-> FALSE, done |-> FALSE]

\* Faulty variant: the part path is taken from the id, which a resume changes.
JournalOfId(tr, ob) ==
  {[tid |-> t, sig |-> ob[tr[t]].sig, part |-> t, addr |-> ob[tr[t]].addr,
    got |-> ob[tr[t]].got] :
     t \in {u \in Tid : tr[u] # NoObj /\ ~ob[tr[u]].finalized}}

\* _save_journal_locked: a record of every transfer not finalized.  The address
\* stands for the other fields that may change without the chunks: the last chunk
\* seen, the beacon times and ages.
JournalOf(tr, ob) ==
  {[tid |-> t, sig |-> ob[tr[t]].sig, part |-> ob[tr[t]].part,
    addr |-> ob[tr[t]].addr, got |-> ob[tr[t]].got] :
     t \in {u \in Tid : tr[u] # NoObj /\ ~ob[tr[u]].finalized}}

\* Inodes that a path or a memory map still holds; the rest are reclaimed.
Held(pt, tp, fn, ob) ==
  {i \in Inode : \/ \E t \in Tid : pt[t] = i
                 \/ \E x \in Tid \X Name : tp[x] = i
                 \/ \E n \in Name : fn[n] = i
                 \/ \E o \in Obj : ob[o] # NoObj /\ ob[o].map = i}
Reclaim(fl, held) == [i \in Inode |-> IF i \in held THEN fl[i] ELSE Free]

IdleRecv == [pc |-> "idle", tid |-> NoTid, sig |-> NoSig, o |-> NoObj]
IdleFin == [pc |-> "idle", o |-> NoObj, tid |-> NoTid, sig |-> NoSig,
            part |-> NoTid, state |-> "INCOMPLETE"]

-----------------------------------------------------------------------------
Init ==
  /\ transfers = [t \in Tid |-> NoObj]
  /\ sigIndex = [s \in Sig |-> NoTid]
  /\ obj = [o \in Obj |-> NoObj]
  /\ queue = <<>>
  /\ recv = IdleRecv
  /\ fin = [th \in Thread |-> IdleFin]
  /\ completed = {}
  /\ journalDirty = FALSE
  /\ journal = {}
  /\ part = [t \in Tid |-> NoInode]
  /\ temp = [x \in Tid \X Name |-> NoInode]
  /\ final = [n \in Name |-> NoInode]
  /\ file = [i \in Inode |-> Free]
  /\ told = [t \in Tid |-> [sig |-> NoSig, state |-> "INCOMPLETE"]]
  /\ restarts = 0

\* The receive thread waits in recvfrom: it is neither inside a handler nor
\* finalizing inline, and no exception has ended it.
RecvReady == recv.pc = "idle" /\ fin["recv"].pc = "idle"

\* The lock is held over several steps only while a part file is prepared.
LockFree == recv.pc \notin {"truncate", "map"}

\* _sendto_best_effort of a transfer STATUS.
Tell(t, s, state) ==
  IF Feedback THEN [told EXCEPT ![t] = [sig |-> s, state |-> state]] ELSE told

\* Faulty variant: size and modification time are not compared.
MatchesName(s) == final[FileName[s]] # NoInode

\* _is_matching_completed_file: the name exists with the size of s and the
\* modification time of s.  (Left out: a hit in _completed_hash_cache, which takes a
\* file of the very contents of s whatever its time, and the digest compared for a
\* manifest without a modification time; send_file always sends one.)
Matches(s) ==
  LET i == final[FileName[s]] IN
  /\ i # NoInode
  /\ DOMAIN file[i].bytes = Chunks(s)
  /\ file[i].mtime = SourceMtime[s]

\* Faulty variant: COMPLETE once everything arrived, verified or not.
AdvertiseReceived(t, o) ==
  told' = Tell(t, obj[o].sig,
               IF obj[o].got = Chunks(obj[o].sig) THEN "COMPLETE" ELSE "INCOMPLETE")

\* _maybe_advertise_receiver_state for object o under id t: silent before the
\* first chunk, and possibly while the forward stream is recent and incomplete.
Advertise(t, o) ==
  LET x == obj[o]
      whole == x.got = Chunks(x.sig)
  IN  \/ /\ x.got = {} \/ ~whole
         /\ told' = told
      \/ /\ x.got # {}
         /\ told' = Tell(t, x.sig, IF x.done /\ whole THEN "COMPLETE" ELSE "INCOMPLETE")

-----------------------------------------------------------------------------
(* METADATA: a match check without the lock, an answer or a section under   *)
(* the lock.                                                               *)

\* The version in place has the size and time of the one offered: COMPLETE will
\* be said, whatever the finalize worker does to that file meanwhile.
MetadataOfPresentFile(t, s) ==
  /\ RecvReady /\ Matches(s)
  /\ recv' = [pc |-> "answer", tid |-> t, sig |-> s, o |-> NoObj]
  /\ UNCHANGED <<transfers, sigIndex, obj, queue, fin, completed, journalDirty,
                 disk, told, restarts>>

AnswerComplete ==
  /\ recv.pc = "answer"
  /\ told' = Tell(recv.tid, recv.sig, "COMPLETE")
  /\ recv' = IdleRecv
  /\ UNCHANGED <<transfers, sigIndex, obj, queue, fin, completed, journalDirty,
                 disk, restarts>>

MetadataOfOtherFile(t, s) ==
  /\ RecvReady /\ ~Matches(s)
  /\ recv' = [pc |-> "prepare", tid |-> t, sig |-> s, o |-> NoObj]
  /\ UNCHANGED <<transfers, sigIndex, obj, queue, fin, completed, journalDirty,
                 disk, told, restarts>>

\* The id is known: a different signature is ignored, the same one advertises.
\* The new address is not a change that marks the journal.
PrepareKnown ==
  LET o == transfers[recv.tid] IN
  /\ recv.pc = "prepare"
  /\ o # NoObj
  /\ IF obj[o].sig = recv.sig
     THEN /\ \E a \in Addr : obj' = [obj EXCEPT ![o].addr = a]
          /\ Advertise(recv.tid, o)
     ELSE UNCHANGED <<obj, told>>
  /\ recv' = IdleRecv
  /\ UNCHANGED <<transfers, sigIndex, queue, fin, completed, journalDirty,
                 disk, restarts>>

\* Faulty variant: the signature index is not consulted.
NeverResumable(s) == NoTid

\* The id that _find_transfer_by_manifest_locked returns, or NoTid.
ResumableId(s) ==
  IF sigIndex[s] # NoTid /\ transfers[sigIndex[s]] # NoObj THEN sigIndex[s] ELSE NoTid

\* The signature is known under another id: the object moves to the new id.
PrepareResume ==
  LET t == recv.tid
      prev == ResumableId(recv.sig)
      o == transfers[prev]
  IN  /\ recv.pc = "prepare"
      /\ transfers[t] = NoObj
      /\ prev # NoTid
      /\ transfers' = [transfers EXCEPT ![prev] = NoObj, ![t] = o]
      /\ sigIndex' = [sigIndex EXCEPT ![recv.sig] = t]
      /\ \E a \in Addr : obj' = [obj EXCEPT ![o].tid = t, ![o].addr = a]
      /\ journalDirty' = TRUE
      /\ Advertise(t, o)
      /\ recv' = IdleRecv
      /\ UNCHANGED <<queue, fin, completed, disk, restarts>>

\* Faulty variant: a part file that exists is opened as a new one.
OpenPartAlways ==
  LET t == recv.tid IN
  /\ recv.pc = "prepare"
  /\ transfers[t] = NoObj
  /\ ResumableId(recv.sig) = NoTid
  /\ \E i \in IF part[t] = NoInode THEN {j \in Inode : file[j] = Free} ELSE {part[t]} :
       /\ part' = [part EXCEPT ![t] = i]
       /\ file' = [file EXCEPT ![i] = [bytes |-> NoBytes, mtime |-> Now]]
  /\ recv' = [recv EXCEPT !.pc = "truncate"]
  /\ UNCHANGED <<transfers, sigIndex, obj, queue, fin, completed, journalDirty,
                 journal, temp, final, told, restarts>>

\* A new transfer: its part file is created, or taken as an earlier transfer
\* left it.
OpenPart ==
  LET t == recv.tid IN
  /\ recv.pc = "prepare"
  /\ transfers[t] = NoObj
  /\ ResumableId(recv.sig) = NoTid
  /\ IF part[t] = NoInode
     THEN \E i \in {j \in Inode : file[j] = Free} :
            /\ part' = [part EXCEPT ![t] = i]
            /\ file' = [file EXCEPT ![i] = [bytes |-> NoBytes, mtime |-> Now]]
            /\ recv' = [recv EXCEPT !.pc = "truncate"]
     ELSE /\ recv' = [recv EXCEPT !.pc = "map"]
          /\ UNCHANGED <<part, file>>
  /\ UNCHANGED <<transfers, sigIndex, obj, queue, fin, completed, journalDirty,
                 journal, temp, final, told, restarts>>

\* Faulty variant: the part file stays empty.
TruncateNothing ==
  /\ recv.pc = "truncate"
  /\ recv' = [recv EXCEPT !.pc = "map"]
  /\ UNCHANGED <<transfers, sigIndex, obj, queue, fin, completed, journalDirty,
                 disk, told, restarts>>

TruncatePart ==
  /\ recv.pc = "truncate"
  /\ file' = IF part[recv.tid] = NoInode THEN file
             ELSE [file EXCEPT ![part[recv.tid]] = EmptyFile(recv.sig)]
  /\ recv' = [recv EXCEPT !.pc = "map"]
  /\ UNCHANGED <<transfers, sigIndex, obj, queue, fin, completed, journalDirty,
                 journal, part, temp, final, told, restarts>>

\* The transfer enters the table, then its part file is mapped.  A path that the
\* finalize worker took away meanwhile is an OSError, and the transfer goes on
\* without a map; a file shorter than file_size is a ValueError, which ends the
\* thread before the journal is marked.
PrepareCreate ==
  LET t == recv.tid
      s == recv.sig
      i == part[t]
      fits == i = NoInode \/ Chunks(s) \subseteq DOMAIN file[i].bytes
      map == IF Chunks(s) # {} /\ fits THEN i ELSE NoInode
  IN  /\ recv.pc = "map"
      /\ \E o \in {x \in Obj : obj[x] = NoObj}, a \in Addr :
           /\ transfers' = [transfers EXCEPT ![t] = o]
           /\ sigIndex' = [sigIndex EXCEPT ![s] = t]
           /\ obj' = [obj EXCEPT ![o] = Transfer(t, s, t, a, {}, map)]
           /\ journalDirty' = (journalDirty \/ fits)
           /\ recv' = CASE ~fits -> [recv EXCEPT !.pc = "dead"]
                        [] fits /\ Chunks(s) = {} -> [IdleRecv EXCEPT !.pc = "full", !.o = o]
                        [] fits /\ Chunks(s) # {} -> IdleRecv
      /\ UNCHANGED <<queue, fin, completed, disk, told, restarts>>

-----------------------------------------------------------------------------
(* DATA *)

\* The inode _accept_data writes to: the map, or by path when there is none.
Target(x) == IF x.map # NoInode THEN x.map ELSE part[x.part]

\* _accept_data of chunk c with the bytes of version v.  A repeated chunk is
\* written again; the tracker counts it once, and the journal is not marked.
\* (A map whose file was cut short under it kills the process: a Restart.)
Data(t, c, v) ==
  LET o == transfers[t]
      x == obj[o]
      i == Target(x)
      lost == IF x.map # NoInode /\ file[i].bytes[c] = Hole THEN {c} ELSE {}
      got == x.got \cup {c}
  IN  /\ RecvReady
      /\ o # NoObj
      /\ ~x.done /\ ~x.finalized
      /\ c \in Chunks(x.sig)
      /\ i # NoInode
      /\ c \in DOMAIN file[i].bytes
      /\ file' = [file EXCEPT ![i].bytes[c] = v, ![i].mtime = Now]
      /\ obj' = [obj EXCEPT ![o].got = got, ![o].unsynced = @ \cup lost]
      /\ journalDirty' = (journalDirty \/ c \notin x.got)
      /\ recv' = IF got = Chunks(x.sig) THEN [IdleRecv EXCEPT !.pc = "full", !.o = o] ELSE recv
      /\ UNCHANGED <<transfers, sigIndex, queue, fin, completed, journal, part, temp,
                     final, told, restarts>>

\* There is no map and no part file: open("r+b") raises, which ends the thread.
DataWithoutFile(t) ==
  LET o == transfers[t] IN
  /\ RecvReady
  /\ o # NoObj
  /\ ~obj[o].done /\ ~obj[o].finalized
  /\ Chunks(obj[o].sig) # {}
  /\ Target(obj[o]) = NoInode
  /\ recv' = [pc |-> "dead", tid |-> t, sig |-> obj[o].sig, o |-> NoObj]
  /\ UNCHANGED <<transfers, sigIndex, obj, queue, fin, completed, journalDirty,
                 disk, told, restarts>>

-----------------------------------------------------------------------------
(* BEACON: the sender was heard, possibly from another address. *)

Beacon(t) ==
  LET o == transfers[t] IN
  /\ RecvReady
  /\ o # NoObj
  /\ ~obj[o].finalized
  /\ \E a \in Addr : obj' = [obj EXCEPT ![o].addr = a]
  /\ journalDirty' = TRUE
  /\ UNCHANGED <<transfers, sigIndex, queue, recv, fin, completed, disk, told, restarts>>

-----------------------------------------------------------------------------
(* The inactivity timeout. *)

\* Faulty variant: a stale transfer is finalized whatever it misses.
StaleIncomplete(t) ==
  /\ RecvReady
  /\ transfers[t] # NoObj
  /\ ~obj[transfers[t]].done /\ ~obj[transfers[t]].finalized
  /\ recv' = [IdleRecv EXCEPT !.pc = "full", !.o = transfers[t]]
  /\ UNCHANGED <<transfers, sigIndex, obj, queue, fin, completed, journalDirty,
                 disk, told, restarts>>

\* _tick_periodic_repairs after transfer_inactivity_timeout_s: a transfer that
\* misses nothing is finalized, any other is kept.
StaleComplete(t) ==
  LET o == transfers[t] IN
  /\ RecvReady
  /\ o # NoObj
  /\ ~obj[o].done /\ ~obj[o].finalized
  /\ obj[o].got = Chunks(obj[o].sig)
  /\ recv' = [IdleRecv EXCEPT !.pc = "full", !.o = o]
  /\ UNCHANGED <<transfers, sigIndex, obj, queue, fin, completed, journalDirty,
                 disk, told, restarts>>

-----------------------------------------------------------------------------
(* _queue_finalization: mark under the lock, then hand over without it. *)

\* Faulty variant: the map is left open.
MarkWithoutClosing ==
  /\ recv.pc = "full"
  /\ obj' = [obj EXCEPT ![recv.o].finalized = TRUE]
  /\ journal' = JournalOf(transfers, obj')
  /\ journalDirty' = FALSE
  /\ recv' = [recv EXCEPT !.pc = "put"]
  /\ UNCHANGED <<transfers, sigIndex, queue, fin, completed, part, temp, final, file,
                 told, restarts>>

MarkFinalized ==
  LET o == recv.o IN
  /\ recv.pc = "full"
  /\ IF obj[o].finalized
     THEN /\ recv' = IdleRecv
          /\ UNCHANGED <<obj, journal, journalDirty>>
     ELSE /\ obj' = [obj EXCEPT ![o].finalized = TRUE, ![o].map = NoInode, ![o].unsynced = {}]
          /\ journal' = JournalOf(transfers, obj')
          /\ journalDirty' = FALSE
          /\ recv' = [recv EXCEPT !.pc = "put"]
  /\ file' = Reclaim(file, Held(part, temp, final, obj'))
  /\ UNCHANGED <<transfers, sigIndex, queue, fin, completed, part, temp, final, told,
                 restarts>>

\* The locals _finalize_transfer_impl takes from object o under the lock.
Frame(o) ==
  [pc |-> "hash", o |-> o, tid |-> obj[o].tid, sig |-> obj[o].sig,
   part |-> obj[o].part, state |-> "INCOMPLETE"]

\* Faulty variant: a busy queue drops the transfer.
PutWhenEmpty ==
  /\ recv.pc = "put"
  /\ queue' = IF queue = <<>> THEN <<recv.o>> ELSE queue
  /\ recv' = IdleRecv
  /\ UNCHANGED <<transfers, sigIndex, obj, fin, completed, journalDirty, disk, told, restarts>>

PutFinalization ==
  /\ recv.pc = "put"
  /\ IF fin["worker"].pc # "dead"
     THEN queue' = Append(queue, recv.o) /\ fin' = fin
     ELSE fin' = [fin EXCEPT !["recv"] = Frame(recv.o)] /\ queue' = queue
  /\ recv' = IdleRecv
  /\ UNCHANGED <<transfers, sigIndex, obj, completed, journalDirty, disk, told, restarts>>

TakeFinalization ==
  /\ LockFree
  /\ fin["worker"].pc = "idle"
  /\ queue # <<>>
  /\ fin' = [fin EXCEPT !["worker"] = Frame(Head(queue))]
  /\ queue' = Tail(queue)
  /\ UNCHANGED <<transfers, sigIndex, obj, recv, completed, journalDirty,
                 disk, told, restarts>>

-----------------------------------------------------------------------------
(* _finalize_transfer_impl, run by the worker, or inline once it is dead.  *)
(* Only the first and the last section hold the lock.                      *)

\* The objects a container or a thread still refers to; the rest are collected.
Referenced(ob, tr, fi) ==
  [o \in Obj |->
     IF \/ \E t \in Tid : tr[t] = o
        \/ \E k \in 1 .. Len(queue) : queue[k] = o
        \/ recv.o = o
        \/ \E th \in Thread : fi[th].o = o
     THEN ob[o] ELSE NoObj]

\* An exception ends the thread; its locals stay readable in the last state.
Ended(f) == [f EXCEPT !.pc = "dead", !.o = NoObj]

\* FileNotFoundError from hashing, linking or replacing: nothing catches it.
PartMissing(th) ==
  LET f == fin[th] IN
  /\ f.pc \in {"hash", "link"} \/ (f.pc = "place" /\ ~KeepPart)
  /\ part[f.part] = NoInode
  /\ fin' = [fin EXCEPT ![th] = Ended(f)]
  /\ obj' = Referenced(obj, transfers, fin')
  /\ UNCHANGED <<transfers, sigIndex, queue, recv, completed, journalDirty,
                 disk, told, restarts>>

Hash(th) ==
  LET f == fin[th] IN
  /\ f.pc = "hash"
  /\ part[f.part] # NoInode
  /\ fin' = [fin EXCEPT ![th].pc =
               IF file[part[f.part]].bytes # Whole(f.sig) THEN "unlink"
               ELSE IF KeepPart THEN "link" ELSE "place"]
  /\ UNCHANGED <<transfers, sigIndex, obj, queue, recv, completed, journalDirty,
                 disk, told, restarts>>

\* The temporary name beside the destination, made of its name and the id.
TempName(f) == <<f.tid, FileName[f.sig]>>

\* With --keep-part-files, os.link under the temporary name.
Link(th) ==
  LET f == fin[th] IN
  /\ f.pc = "link"
  /\ part[f.part] # NoInode
  /\ temp[TempName(f)] = NoInode
  /\ temp' = [temp EXCEPT ![TempName(f)] = part[f.part]]
  /\ fin' = [fin EXCEPT ![th].pc = "place"]
  /\ UNCHANGED <<transfers, sigIndex, obj, queue, recv, completed, journalDirty,
                 journal, part, final, file, told, restarts>>

\* The name is taken (OSError), and shutil.copyfile raises SameFileError when it
\* is a link to the part file itself: nothing catches that.
LinkToItself(th) ==
  LET f == fin[th] IN
  /\ f.pc = "link"
  /\ part[f.part] # NoInode
  /\ temp[TempName(f)] = part[f.part]
  /\ fin' = [fin EXCEPT ![th] = Ended(f)]
  /\ obj' = Referenced(obj, transfers, fin')
  /\ UNCHANGED <<transfers, sigIndex, queue, recv, completed, journalDirty,
                 disk, told, restarts>>

\* Any other file of that name is opened for writing, and written.
OpenCopy(th) ==
  LET f == fin[th]
      i == temp[TempName(f)]
  IN  /\ f.pc = "link"
      /\ part[f.part] # NoInode
      /\ i \notin {NoInode, part[f.part]}
      /\ file' = [file EXCEPT ![i] = [bytes |-> NoBytes, mtime |-> Now]]
      /\ fin' = [fin EXCEPT ![th].pc = "copy"]
      /\ UNCHANGED <<transfers, sigIndex, obj, queue, recv, completed, journalDirty,
                     journal, part, temp, final, told, restarts>>

Copy(th) ==
  LET f == fin[th] IN
  /\ f.pc = "copy"
  /\ part[f.part] # NoInode
  /\ file' = [file EXCEPT ![temp[TempName(f)]] =
                [bytes |-> file[part[f.part]].bytes, mtime |-> Now]]
  /\ fin' = [fin EXCEPT ![th].pc = "place"]
  /\ UNCHANGED <<transfers, sigIndex, obj, queue, recv, completed, journalDirty,
                 journal, part, temp, final, told, restarts>>

\* part_path.replace(final_path), or temp_final_path.replace(final_path) under
\* --keep-part-files.  rename(2) of one link over another link of the same file
\* does nothing, and leaves the temporary name.
Place(th) ==
  LET f == fin[th]
      n == FileName[f.sig]
  IN  /\ f.pc = "place"
      /\ IF KeepPart
         THEN /\ final' = [final EXCEPT ![n] = temp[TempName(f)]]
              /\ temp' = IF final[n] = temp[TempName(f)] THEN temp
                         ELSE [temp EXCEPT ![TempName(f)] = NoInode]
              /\ part' = part
         ELSE /\ part[f.part] # NoInode
              /\ final' = [final EXCEPT ![n] = part[f.part]]
              /\ part' = [part EXCEPT ![f.part] = NoInode]
              /\ temp' = temp
      /\ fin' = [fin EXCEPT ![th].pc = "utime"]
      /\ file' = Reclaim(file, Held(part', temp', final', obj))
      /\ UNCHANGED <<transfers, sigIndex, obj, queue, recv, completed, journalDirty,
                     journal, told, restarts>>

Utime(th) ==
  LET f == fin[th] IN
  /\ f.pc = "utime"
  /\ file' = [file EXCEPT ![final[FileName[f.sig]]].mtime = SourceMtime[f.sig]]
  /\ fin' = [fin EXCEPT ![th].pc = "finish", ![th].state = "COMPLETE"]
  /\ UNCHANGED <<transfers, sigIndex, obj, queue, recv, completed, journalDirty,
                 journal, part, temp, final, told, restarts>>

\* Faulty variant: a mismatch returns before the closing section.
UnlinkAndReturn(th) ==
  /\ fin[th].pc = "unlink"
  /\ part' = [part EXCEPT ![fin[th].part] = NoInode]
  /\ file' = Reclaim(file, Held(part', temp, final, obj))
  /\ fin' = [fin EXCEPT ![th] = IdleFin]
  /\ UNCHANGED <<transfers, sigIndex, obj, queue, recv, completed, journalDirty,
                 journal, temp, final, told, restarts>>

Unlink(th) ==
  LET f == fin[th] IN
  /\ f.pc = "unlink"
  /\ part' = [part EXCEPT ![f.part] = NoInode]
  /\ file' = Reclaim(file, Held(part', temp, final, obj))
  /\ fin' = [fin EXCEPT ![th].pc = "finish", ![th].state = "HASH_MISMATCH"]
  /\ UNCHANGED <<transfers, sigIndex, obj, queue, recv, completed, journalDirty,
                 journal, temp, final, told, restarts>>

\* The closing section under the lock.  It removes whatever is registered under
\* the id read at the start, which another METADATA may have changed meanwhile.
Finish(th) ==
  LET f == fin[th]
      victim == transfers[f.tid]
      marked == [obj EXCEPT ![f.o].done = (f.state = "COMPLETE")]
  IN  /\ f.pc = "finish" /\ LockFree
      /\ completed' = completed \cup {[tid |-> f.tid, sig |-> f.sig, state |-> f.state]}
      /\ transfers' = [transfers EXCEPT ![f.tid] = NoObj]
      /\ sigIndex' = [s \in Sig |->
                        IF victim # NoObj /\ s = obj[victim].sig /\ sigIndex[s] = f.tid
                        THEN NoTid ELSE sigIndex[s]]
      /\ fin' = [fin EXCEPT ![th].pc = "report", ![th].o = NoObj]
      /\ obj' = Referenced(marked, transfers', fin')
      /\ file' = Reclaim(file, Held(part, temp, final, obj'))
      /\ journal' = JournalOf(transfers', obj')
      /\ journalDirty' = FALSE
      /\ UNCHANGED <<queue, recv, part, temp, final, told, restarts>>

Report(th) ==
  LET f == fin[th] IN
  /\ f.pc = "report"
  /\ told' = Tell(f.tid, f.sig, f.state)
  /\ fin' = [fin EXCEPT ![th] = IdleFin]
  /\ UNCHANGED <<transfers, sigIndex, obj, queue, recv, completed, journalDirty,
                 disk, restarts>>

-----------------------------------------------------------------------------
(* The maintenance thread.  Each flush has its own interval, so either may  *)
(* run without the other; in one pass the journal goes first.              *)

FlushJournal ==
  /\ LockFree
  /\ journalDirty
  /\ journal' = JournalOf(transfers, obj)
  /\ journalDirty' = FALSE
  /\ UNCHANGED <<transfers, sigIndex, obj, queue, recv, fin, completed,
                 part, temp, final, file, told, restarts>>

\* Faulty variant: one dirty flag serves both flushes.
FlushMmapClearingDirty(t) ==
  /\ transfers[t] # NoObj
  /\ obj[transfers[t]].unsynced # {}
  /\ obj' = [obj EXCEPT ![transfers[t]].unsynced = {}]
  /\ journalDirty' = FALSE
  /\ UNCHANGED <<transfers, sigIndex, queue, recv, fin, completed, disk, told, restarts>>

FlushMmap(t) ==
  LET o == transfers[t] IN
  /\ LockFree
  /\ o # NoObj
  /\ obj[o].unsynced # {}
  /\ obj' = [obj EXCEPT ![o].unsynced = {}]
  /\ UNCHANGED <<transfers, sigIndex, queue, recv, fin, completed, journalDirty,
                 disk, told, restarts>>

-----------------------------------------------------------------------------
(* The process stops at any point and starts again. *)

\* Chunks written to a memory map and not yet written back to the disk.
Unsynced ==
  UNION {{<<obj[o].map, c>> : c \in obj[o].unsynced} : o \in {x \in Obj : obj[x] # NoObj}}

\* What a process crash leaves of the files, or a power loss that takes "lost".
Surviving(lost) ==
  [i \in Inode |->
     IF file[i] = Free THEN Free
     ELSE [bytes |-> [c \in DOMAIN file[i].bytes |->
                        IF <<i, c>> \in lost THEN Hole ELSE file[i].bytes[c]],
           mtime |-> file[i].mtime]]

\* _restore_transfer accepts a record whose part file has the right size.
Restorable(r, fl) ==
  part[r.part] # NoInode /\ DOMAIN fl[part[r.part]].bytes = Chunks(r.sig)

\* Faulty variant: the received ranges are not restored.
RestoredAfresh(r) ==
  Transfer(r.tid, r.sig, r.part, r.addr, {},
           IF Chunks(r.sig) = {} THEN NoInode ELSE part[r.part])

Restored(r) ==
  Transfer(r.tid, r.sig, r.part, r.addr, r.got,
           IF Chunks(r.sig) = {} THEN NoInode ELSE part[r.part])

\* A stop or crash, then _load_journal in the new process.
Restart ==
  /\ restarts < MaxRestarts
  /\ restarts' = restarts + 1
  /\ \E lost \in SUBSET (IF PowerLoss THEN Unsynced ELSE {}) :
       LET fl == Surviving(lost)
           good == {r \in journal : Restorable(r, fl)}
       IN  \E own \in [good -> Obj] :
             /\ \A r, q \in good : own[r] = own[q] => r = q
             /\ obj' = [o \in Obj |->
                          IF \E r \in good : own[r] = o
                          THEN Restored(CHOOSE r \in good : own[r] = o)
                          ELSE NoObj]
             /\ transfers' = [t \in Tid |->
                                IF \E r \in good : r.tid = t
                                THEN own[CHOOSE r \in good : r.tid = t]
                                ELSE NoObj]
             /\ sigIndex' = [s \in Sig |->
                               IF \E r \in good : r.sig = s
                               THEN (CHOOSE r \in good : r.sig = s).tid
                               ELSE NoTid]
             /\ file' = Reclaim(fl, Held(part, temp, final, obj'))
  /\ journal' = JournalOf(transfers', obj')
  /\ journalDirty' = FALSE
  /\ queue' = <<>>
  /\ recv' = IdleRecv
  /\ fin' = [th \in Thread |-> IdleFin]
  /\ completed' = {}
  /\ UNCHANGED <<part, temp, final, told>>

-----------------------------------------------------------------------------
ReceiveThread ==
  \/ \E x \in Sessions : \/ MetadataOfPresentFile(x[1], x[2])
                         \/ MetadataOfOtherFile(x[1], x[2])
                         \/ \E c \in Chunks(x[2]) : Data(x[1], c, x[2])
  \/ AnswerComplete
  \/ PrepareKnown
  \/ PrepareResume
  \/ OpenPart
  \/ TruncatePart
  \/ PrepareCreate
  \/ \E t \in Tid : DataWithoutFile(t) \/ Beacon(t) \/ StaleComplete(t)
  \/ MarkFinalized
  \/ PutFinalization

Finalize(th) ==
  \/ PartMissing(th)
  \/ Hash(th)
  \/ Link(th)
  \/ LinkToItself(th)
  \/ OpenCopy(th)
  \/ Copy(th)
  \/ Place(th)
  \/ Utime(th)
  \/ Unlink(th)
  \/ Finish(th)
  \/ Report(th)

Maintenance == FlushJournal \/ \E t \in Tid : FlushMmap(t)

Next ==
  \/ ReceiveThread
  \/ TakeFinalization
  \/ \E th \in Thread : Finalize(th)
  \/ Maintenance
  \/ Restart

Spec == Init /\ [][Next]_vars

(* Fairness: a scheduled thread runs, the network keeps delivering every     *)
(* frame of a session now and then, and its pauses let recvfrom time out, so *)
(* that the stale check is made.  The maintenance thread needs none: nothing *)
(* waits for the journal.                                                    *)
FairSpec ==
  /\ Spec
  /\ WF_vars(\/ AnswerComplete \/ PrepareKnown \/ PrepareResume
             \/ OpenPart \/ TruncatePart \/ PrepareCreate)
  /\ WF_vars(MarkFinalized \/ PutFinalization)
  /\ WF_vars(TakeFinalization)
  /\ \A th \in Thread : WF_vars(Finalize(th))
  /\ \A t \in Tid : SF_vars(StaleComplete(t))
  /\ \A x \in Sessions :
       /\ SF_vars(MetadataOfOtherFile(x[1], x[2]))
       /\ \A c \in Chunks(x[2]) : SF_vars(Data(x[1], c, x[2]))

-----------------------------------------------------------------------------
(* Assumptions some properties need. *)

\* uuid4 ids, each used for one version of one file.
OneSigPerTid == \A x, y \in Sessions : x[1] = y[1] => x[2] = y[2]

-----------------------------------------------------------------------------
(* Properties. *)

\* Every variable holds a value of the kind the code keeps in it, and a finalized
\* transfer no map of its part file.
TypeOK ==
  /\ transfers \in [Tid -> Obj \cup {NoObj}]
  /\ sigIndex \in [Sig -> Tid \cup {NoTid}]
  /\ obj \in [Obj -> TransferRec \cup {NoObj}]
  /\ \A o \in Obj : obj[o] # NoObj /\ obj[o].finalized => obj[o].map = NoInode
  /\ queue \in Seq(Obj)
  /\ recv \in RecvRec
  /\ fin \in [Thread -> FinRec]
  /\ completed \subseteq [tid : Tid, sig : Sig, state : State]
  /\ journalDirty \in BOOLEAN
  /\ journal \subseteq JournalRec
  /\ part \in [Tid -> Inode \cup {NoInode}]
  /\ temp \in [Tid \X Name -> Inode \cup {NoInode}]
  /\ final \in [Name -> Inode \cup {NoInode}]
  /\ file \in [Inode -> File \cup {Free}]
  /\ told \in [Tid -> [sig : Sig \cup {NoSig}, state : State]]
  /\ restarts \in 0 .. MaxRestarts

\* One version of a file has at most one transfer, and the signature index
\* finds it under the id it now has: _find_transfer_by_manifest_locked never
\* misses a transfer that a new id should continue.
IndexExact ==
  \A t \in Tid : transfers[t] # NoObj =>
    /\ obj[transfers[t]].tid = t
    /\ sigIndex[obj[transfers[t]].sig] = t

\* What the journal says was received is in the part file it names, whatever
\* thread runs next and wherever the process stops.
JournalSound ==
  \A r \in journal :
    /\ part[r.part] # NoInode
    /\ \A c \in r.got : file[part[r.part]].bytes[c] = r.sig

\* What a restart continues from: the ids, the part file, the chunks received.
Essence(r) == [tid |-> r.tid, sig |-> r.sig, part |-> r.part, got |-> r.got]

Essences(js, except) == {Essence(r) : r \in {q \in js : q.tid \notin except}}

\* The id whose preparation an exception cut off, after the transfer entered the
\* table and before the journal was marked.
Unprepared == IF recv.pc = "dead" THEN {recv.tid} ELSE {}

\* A clean dirty flag means that a restart would continue from the transfers as
\* they are: no change of an id, a part file or the chunks received forgets
\* _mark_journal_dirty_locked.  The other fields of a record may be old: a METADATA
\* that is repeated changes source_addr, a chunk that is repeated last_chunk_seen,
\* and neither marks the journal.
JournalFresh ==
  ~journalDirty =>
    Essences(journal, Unprepared) = Essences(JournalOf(transfers, obj), Unprepared)

\* A transfer whose frames were all genuine never ends in HASH_MISMATCH: no
\* duplicate, resume, restart or race between the threads corrupts a part file.
NoFalseMismatch ==
  /\ \A r \in completed : r.state # "HASH_MISMATCH"
  /\ \A th \in Thread : fin[th].pc # "unlink"

\* A destination file is always one whole version of that name, never a mixture
\* or a partial file.  The one exception needs --keep-part-files: a temporary name
\* left as a second link of the destination, which copyfile then writes through.
FinalWhole ==
  \A n \in Name : final[n] # NoInode =>
    \/ \E s \in Sig : FileName[s] = n /\ file[final[n]].bytes = Whole(s)
    \/ KeepPart /\ \E t \in Tid : temp[<<t, n>>] = final[n]

\* An exception ends a thread only at something left over on the disk: the receive
\* thread at a part file that a stop kept from being given its size, so that it
\* cannot be mapped; a finalizing thread at a temporary name that is a link to the
\* very part file it is to be made of.
ThreadsAlive ==
  /\ recv.pc = "dead" =>
       /\ restarts > 0
       /\ part[recv.tid] # NoInode
       /\ ~(Chunks(recv.sig) \subseteq DOMAIN file[part[recv.tid]].bytes)
  /\ \A th \in Thread : fin[th].pc = "dead" =>
       /\ KeepPart
       /\ part[fin[th].part] # NoInode
       /\ temp[TempName(fin[th])] = part[fin[th].part]

\* No exception has ended a thread.
AllAlive == recv.pc # "dead" /\ \A th \in Thread : fin[th].pc # "dead"

\* A finalized transfer still in the table is one the finalization of which is
\* on its way, so that somebody will take it out of the table, as long as no
\* finalizing thread has ended at a leftover (ThreadsAlive).
Attended ==
  (\A th \in Thread : fin[th].pc # "dead") =>
  \A t \in Tid : LET o == transfers[t] IN
    o # NoObj /\ obj[o].finalized =>
      \/ recv.pc = "put" /\ recv.o = o
      \/ \E k \in 1 .. Len(queue) : queue[k] = o
      \/ \E th \in Thread : fin[th].o = o /\ fin[th].tid = t

\* A restart with nothing left to flush brings back every transfer that was
\* still being received, with its part file and exactly its chunks, except the one
\* whose preparation ended the receive thread.
RestartExact ==
  [][restarts' # restarts /\ ~journalDirty =>
       \A t \in Tid \ Unprepared : LET o == transfers[t]
                          p == transfers'[t] IN
         o # NoObj /\ ~obj[o].finalized =>
           /\ p # NoObj
           /\ obj'[p].sig = obj[o].sig
           /\ obj'[p].part = obj[o].part
           /\ obj'[p].got = obj[o].got]_vars

\* Every version some sender keeps sending is delivered under its name, unless a
\* thread ends at a leftover (ThreadsAlive says which).
Delivered ==
  \A x \in Sessions :
    <>(\/ /\ final[FileName[x[2]]] # NoInode
          /\ file[final[FileName[x[2]]]].bytes = Whole(x[2])
       \/ ~AllAlive)

-----------------------------------------------------------------------------
(* The receiver implements atomic, truthful delivery (module Delivery). *)

\* The version a reader of name n finds; a file that is no whole version of n
\* is a "torn" one, which Delivery does not know.
VisibleVersion(n) ==
  IF final[n] = NoInode THEN NoSig
  ELSE IF \E s \in Sig : FileName[s] = n /\ file[final[n]].bytes = Whole(s)
       THEN CHOOSE s \in Sig : FileName[s] = n /\ file[final[n]].bytes = Whole(s)
       ELSE "torn"

Promise == INSTANCE Delivery WITH
             visible <- [n \in Name |-> VisibleVersion(n)],
             found <- IF recv.pc = "answer" THEN recv.sig ELSE NoSig,
             answer <- told

\* Destination names change only from one whole version to another, and COMPLETE
\* is answered for a version only while it is the one in place, or as the answer to
\* the METADATA at which it was found in place: between the look, which takes no
\* lock, and the answer another version may be placed.
DeliversTruthfully == Promise!Spec
=============================================================================
