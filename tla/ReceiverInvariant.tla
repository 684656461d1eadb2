-------------------------- MODULE ReceiverInvariant --------------------------
(***************************************************************************)
(* The inductive invariants behind the safety properties of Receiver.      *)
(* TypeInvariant holds for every value of the constants; SoundInvariant    *)
(* needs one version per transfer id (OneSigPerTid) and no power loss.     *)
(***************************************************************************)
EXTENDS Receiver

\* Inodes that a path or a map refers to have not been reclaimed.
HeldAllocated ==
  /\ \A t \in Tid : part[t] # NoInode => file[part[t]] # Free
  /\ \A x \in Tid \X Name : temp[x] # NoInode => file[temp[x]] # Free
  /\ \A n \in Name : final[n] # NoInode => file[final[n]] # Free
  /\ \A o \in Obj : obj[o] # NoObj /\ obj[o].map # NoInode => file[obj[o].map] # Free

\* Objects that a container or a thread refers to have not been collected.
ReferencesAllocated ==
  /\ \A t \in Tid : transfers[t] # NoObj => obj[transfers[t]] # NoObj
  /\ \A k \in 1 .. Len(queue) : obj[queue[k]] # NoObj
  /\ recv.o # NoObj => obj[recv.o] # NoObj
  /\ \A th \in Thread : fin[th].o # NoObj => obj[fin[th].o] # NoObj

\* A thread inside a handler knows what it works on.
StationsFilled ==
  /\ recv.pc \in {"answer", "prepare", "truncate", "map", "dead"} =>
       recv.tid \in Tid /\ recv.sig \in Sig
  /\ recv.pc \in {"full", "put"} => recv.o \in Obj
  /\ \A th \in Thread : fin[th].pc # "idle" =>
       fin[th].tid \in Tid /\ fin[th].sig \in Sig /\ fin[th].part \in Tid
  /\ \A th \in Thread : fin[th].pc \notin {"idle", "report", "dead"} =>
       fin[th].o \in Obj

TypeInvariant == TypeOK /\ HeldAllocated /\ ReferencesAllocated /\ StationsFilled

-----------------------------------------------------------------------------
(* With one version per id and no power loss. *)

\* The table and the signature index agree with the objects.
Keyed ==
  /\ \A t \in Tid : transfers[t] # NoObj =>
       /\ obj[transfers[t]].tid = t
       /\ <<t, obj[transfers[t]].sig>> \in Sessions
       /\ sigIndex[obj[transfers[t]].sig] = t
  /\ \A s \in Sig : sigIndex[s] # NoTid => <<sigIndex[s], s>> \in Sessions

\* The chunks "got" of version s are among the bytes b of a file.
Backs(b, s, got) == got \subseteq DOMAIN b /\ \A c \in got : b[c] = s

\* Every object is in the table; while it can receive, it has a part file of its
\* size; a counted chunk is in that file.
Registered ==
  \A o \in Obj : obj[o] # NoObj =>
    LET x == obj[o] IN
    /\ transfers[x.tid] = o
    /\ <<x.part, x.sig>> \in Sessions
    /\ x.got \subseteq Chunks(x.sig)
    /\ x.finalized => x.got = Chunks(x.sig)
    /\ ~x.finalized => part[x.part] # NoInode
    /\ ~x.finalized /\ x.tid \notin Unprepared =>
         /\ DOMAIN file[part[x.part]].bytes = Chunks(x.sig)
         /\ x.map = IF Chunks(x.sig) = {} THEN NoInode ELSE part[x.part]
    /\ part[x.part] # NoInode => Backs(file[part[x.part]].bytes, x.sig, x.got)

\* Objects on their way to being verified and placed.
Waiting(o) ==
  \/ recv.pc = "put" /\ recv.o = o
  \/ \E k \in 1 .. Len(queue) : queue[k] = o
  \/ \E th \in Thread : fin[th].pc \in {"hash", "link", "copy", "place"} /\ fin[th].o = o

WaitingWhole ==
  \A o \in Obj : Waiting(o) =>
    /\ obj[o].finalized
    /\ part[obj[o].part] # NoInode
    /\ file[part[obj[o].part]].bytes = Whole(obj[o].sig)

\* A transfer is handed over once.
QueuedOnce ==
  /\ \A k, l \in 1 .. Len(queue) : queue[k] = queue[l] => k = l
  /\ \A k \in 1 .. Len(queue) :
       /\ recv.pc = "put" => recv.o # queue[k]
       /\ \A th \in Thread : fin[th].o # queue[k]
  /\ recv.pc = "put" => \A th \in Thread : recv.o # fin[th].o

\* The receive thread knows a session; from the moment it opens a part file until
\* the transfer is in the table nothing else has to do with that file.
ReceiveStation ==
  /\ recv.pc \in {"answer", "prepare", "truncate", "map", "dead"} =>
       <<recv.tid, recv.sig>> \in Sessions
  /\ recv.pc \notin {"full", "put"} => recv.o = NoObj
  /\ recv.pc = "full" =>
       ~obj[recv.o].finalized /\ obj[recv.o].got = Chunks(obj[recv.o].sig)
  /\ recv.pc \in {"truncate", "map"} =>
       /\ transfers[recv.tid] = NoObj
       /\ ResumableId(recv.sig) = NoTid
       /\ part[recv.tid] # NoInode
  /\ recv.pc = "truncate" =>
       /\ \A r \in journal : r.part # recv.tid
       /\ \A x \in Tid \X Name : temp[x] # part[recv.tid]
       /\ \A n \in Name : final[n] # part[recv.tid]

\* Where the receive thread has ended: at a part file too short for its version.
ReceiveEnded ==
  recv.pc = "dead" =>
    /\ transfers[recv.tid] # NoObj
    /\ obj[transfers[recv.tid]].part = recv.tid
    /\ ~obj[transfers[recv.tid]].finalized
    /\ part[recv.tid] # NoInode
    /\ ~(Chunks(recv.sig) \subseteq DOMAIN file[part[recv.tid]].bytes)
    /\ restarts > 0

\* The receive thread finalizes only once the worker has ended, and outside its
\* handlers.
OneFinalizer ==
  fin["recv"].pc # "idle" => fin["worker"].pc = "dead" /\ recv.pc = "idle"

\* A finalizing thread holds a finalized transfer with its whole part file; it
\* never meets a mismatch or a missing file.
AtStation(f) ==
  /\ f.pc # "unlink"
  /\ f.pc \in {"idle", "report", "dead"} => f.o = NoObj
  /\ f.pc # "idle" => <<f.tid, f.sig>> \in Sessions /\ <<f.part, f.sig>> \in Sessions
  /\ f.pc \notin {"idle", "report", "dead"} =>
       /\ obj[f.o].sig = f.sig /\ obj[f.o].part = f.part /\ obj[f.o].finalized
  /\ f.pc \in {"link", "copy"} => KeepPart
  /\ f.pc = "copy" => temp[TempName(f)] \notin {NoInode, part[f.part]}
  /\ f.pc = "place" /\ KeepPart =>
       /\ temp[TempName(f)] # NoInode
       /\ file[temp[TempName(f)]].bytes = Whole(f.sig)
  /\ f.pc = "utime" =>
       /\ final[FileName[f.sig]] # NoInode
       /\ file[final[FileName[f.sig]]].bytes = Whole(f.sig)
  /\ f.pc \in {"finish", "report"} => f.state = "COMPLETE"

FinalizerStation == \A th \in Thread : AtStation(fin[th])

\* A finalized transfer that is handed to nobody.
Abandoned(o) ==
  /\ obj[o] # NoObj /\ obj[o].finalized
  /\ ~Waiting(o)
  /\ \A u \in Thread : fin[u].o # o

\* Where a finalizing thread has ended: its transfer stays in the table, handed to
\* nobody, and the temporary name stays a link to its part file.
EndedAt(f) ==
  /\ KeepPart
  /\ part[f.part] # NoInode
  /\ temp[TempName(f)] = part[f.part]
  /\ \E o \in Obj : Abandoned(o) /\ obj[o].sig = f.sig

FinalizerEnded == \A th \in Thread : fin[th].pc = "dead" => EndedAt(fin[th])

\* Where the part file of id t may lack its size.
Unsized(t) ==
  \/ restarts > 0
  \/ recv.pc = "truncate" /\ recv.tid = t
  \/ \E th \in Thread : fin[th].pc = "copy" /\ temp[TempName(fin[th])] = part[t]

\* A part file holds chunks of its id's version only, or nothing, under a path of
\* its own; it lacks its size only between two steps or after a stop.
PartsSound ==
  /\ \A t \in Tid : part[t] # NoInode =>
       \E s \in Sig :
         /\ <<t, s>> \in Sessions
         /\ file[part[t]].bytes \in [Chunks(s) -> {s, Hole}] \cup {NoBytes}
         /\ DOMAIN file[part[t]].bytes = Chunks(s) \/ Unsized(t)
  /\ \A t, u \in Tid : part[t] = part[u] /\ part[t] # NoInode => t = u

\* A temporary name is a link to a part file of the version its id stands for; a
\* part file that is also a destination file is one of that name.
LinksNamed ==
  /\ \A x \in Tid \X Name : temp[x] # NoInode =>
       /\ KeepPart
       /\ \E t \in Tid, s \in Sig :
            /\ part[t] = temp[x] /\ FileName[s] = x[2]
            /\ <<t, s>> \in Sessions /\ <<x[1], s>> \in Sessions
  /\ \A x \in Sessions, n \in Name :
       part[x[1]] # NoInode /\ part[x[1]] = final[n] => FileName[x[2]] = n

FilesSound == PartsSound /\ LinksNamed /\ FinalWhole

\* The journal names transfers still being received and chunks in their files.
JournalBacked ==
  \A r \in journal :
    /\ <<r.tid, r.sig>> \in Sessions /\ <<r.part, r.sig>> \in Sessions
    /\ r.got \subseteq Chunks(r.sig)
    /\ part[r.part] # NoInode
    /\ Backs(file[part[r.part]].bytes, r.sig, r.got)
    /\ \A o \in Obj : obj[o] # NoObj /\ obj[o].finalized => obj[o].sig # r.sig

\* The journal has one record per id, per version and per part file.
JournalKeys ==
  \A r, q \in journal : r.tid = q.tid \/ r.sig = q.sig \/ r.part = q.part => r = q

NoneFailed == \A r \in completed : r.state # "HASH_MISMATCH"

SoundInvariant ==
  /\ TypeInvariant /\ Keyed /\ Registered /\ WaitingWhole /\ QueuedOnce
  /\ ReceiveStation /\ ReceiveEnded /\ OneFinalizer /\ FinalizerStation /\ FinalizerEnded
  /\ FilesSound /\ JournalBacked /\ JournalKeys /\ NoneFailed

-----------------------------------------------------------------------------
(* For the journal alone, whatever a power loss takes. *)

JournalInvariant == TypeInvariant /\ JournalFresh

-----------------------------------------------------------------------------
(* What the promise of module Delivery needs besides SoundInvariant, without *)
(* --keep-part-files.                                                       *)

\* No two names share an inode, and no part file is a destination file.
Apart ==
  /\ \A n, m \in Name : final[n] = final[m] /\ final[n] # NoInode => n = m
  /\ \A t \in Tid, n \in Name : part[t] # NoInode => part[t] # final[n]

\* A part file carries the time of a write, a destination file that or the
\* modification time of its version.
Dated ==
  /\ \A t \in Tid : part[t] # NoInode => file[part[t]].mtime = Now
  /\ \A s \in Sig : LET i == final[FileName[s]] IN
       i # NoInode /\ file[i].bytes = Whole(s) => file[i].mtime \in {Now, SourceMtime[s]}

\* Version s is the destination file of its name.
InPlace(s) ==
  /\ final[FileName[s]] # NoInode
  /\ file[final[FileName[s]]].bytes = Whole(s)

\* The worker has placed what it is about to report.
Placed ==
  fin["worker"].pc \in {"utime", "finish", "report"} => InPlace(fin["worker"].sig)

\* Version s has no other version to replace it.
Alone(s) == \A x \in Sessions : FileName[x[2]] = FileName[s] => x[2] = s

\* An object outlives its finalization only when a new id took it meanwhile, and
\* then its version stays in place.
DoneInPlace ==
  \A o \in Obj : obj[o] # NoObj /\ obj[o].done => InPlace(obj[o].sig) /\ Alone(obj[o].sig)

DeliveryInvariant == SoundInvariant /\ Apart /\ Dated /\ Placed /\ DoneInPlace

\* What a name holds can be told from its size and modification time: versions of
\* one name differ in size, or are not empty and differ in modification time.
VersionsTold ==
  \A r, s \in Sig : FileName[r] = FileName[s] /\ r # s =>
    \/ Chunks(r) # Chunks(s)
    \/ Chunks(s) # {} /\ SourceMtime[r] # SourceMtime[s]

\* A version sent again under a new id is the only version of its name.
ResentAlone ==
  \A x, y \in Sessions : x[2] = y[2] /\ x[1] # y[1] => Alone(x[2])

\* A version is sent under one id.
OneTidPerSig == \A x, y \in Sessions : x[2] = y[2] => x[1] = y[1]
=============================================================================
