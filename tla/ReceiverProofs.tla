---------------------------- MODULE ReceiverProofs ----------------------------
(***************************************************************************)
(* Theorems about Receiver, for every set of ids, versions, names, objects *)
(* and inodes, and every configuration.  Each action has a lemma: the      *)
(* invariant before it gives the invariant after it.                       *)
(***************************************************************************)
EXTENDS ReceiverInvariant, SequenceTheorems, TLAPS

-----------------------------------------------------------------------------
(* Operators. *)

LEMMA ChunksNat == ASSUME NEW s \in Sig PROVE Chunks(s) \subseteq Nat
  BY ManifestAssumption DEF Chunks

LEMMA EmptyFileTyped ==
  ASSUME NEW s \in Sig
  PROVE  EmptyFile(s) \in File /\ EmptyFile(s).bytes \in [Chunks(s) -> Sig \cup {Hole}]
  <1>1. [c \in Chunks(s) |-> Hole] \in [Chunks(s) -> Sig \cup {Hole}]
    OBVIOUS
  <1>2. [c \in Chunks(s) |-> Hole] \in Content
    BY <1>1 DEF Content
  <1>. QED
    BY <1>1, <1>2 DEF EmptyFile, File

LEMMA NoBytesTyped == NoBytes \in Content /\ [bytes |-> NoBytes, mtime |-> Now] \in File
  <1>1. NoBytes \in Content
    BY Zenon DEF Content
  <1>. QED
    BY <1>1 DEF File

LEMMA ContentCases ==
  ASSUME NEW b \in Content
  PROVE  b = NoBytes \/ \E s \in Sig : b \in [Chunks(s) -> Sig \cup {Hole}]
  BY Zenon DEF Content

LEMMA WriteTyped ==
  ASSUME NEW f \in File, NEW c, NEW v \in Sig
  PROVE  [f EXCEPT !.bytes[c] = v, !.mtime = Now] \in File
  <1>1. f.bytes \in Content
    BY DEF File
  <1>2. [f.bytes EXCEPT ![c] = v] \in Content
    <2>1. CASE f.bytes = NoBytes
      <3>1. [f.bytes EXCEPT ![c] = v] = NoBytes
        BY <2>1 DEF NoBytes
      <3>. QED
        BY <3>1, NoBytesTyped
    <2>2. CASE \E s \in Sig : f.bytes \in [Chunks(s) -> Sig \cup {Hole}]
      <3>1. PICK s \in Sig : f.bytes \in [Chunks(s) -> Sig \cup {Hole}]
        BY <2>2
      <3>2. [f.bytes EXCEPT ![c] = v] \in [Chunks(s) -> Sig \cup {Hole}]
        BY <3>1
      <3>. QED
        BY <3>2 DEF Content
    <2>. QED
      BY <1>1, <2>1, <2>2, ContentCases
  <1>. QED
    BY <1>2 DEF File

LEMMA ReclaimTyped ==
  ASSUME NEW fl \in [Inode -> File \cup {Free}], NEW held
  PROVE  /\ Reclaim(fl, held) \in [Inode -> File \cup {Free}]
         /\ \A i \in Inode : i \in held => Reclaim(fl, held)[i] = fl[i]
  BY DEF Reclaim

\* What a path or a map refers to survives the reclaiming of the rest.
LEMMA ReclaimAllocated ==
  ASSUME TypeOK', NEW fl \in [Inode -> File \cup {Free}],
         file' = Reclaim(fl, Held(part', temp', final', obj')),
         \A t \in Tid : part'[t] # NoInode => fl[part'[t]] # Free,
         \A x \in Tid \X Name : temp'[x] # NoInode => fl[temp'[x]] # Free,
         \A n \in Name : final'[n] # NoInode => fl[final'[n]] # Free,
         \A o \in Obj : obj'[o] # NoObj /\ obj'[o].map # NoInode => fl[obj'[o].map] # Free
  PROVE  HeldAllocated'
  <1>. DEFINE held == Held(part', temp', final', obj')
  <1>1. \A i \in Inode : i \in held => file'[i] = fl[i]
    BY ReclaimTyped
  <1>2. \A t \in Tid : part'[t] # NoInode => part'[t] \in Inode /\ part'[t] \in held
    BY DEF TypeOK, Held
  <1>3. \A n \in Name : final'[n] # NoInode => final'[n] \in Inode /\ final'[n] \in held
    BY DEF TypeOK, Held
  <1>4. \A x \in Tid \X Name : temp'[x] # NoInode => temp'[x] \in Inode /\ temp'[x] \in held
    BY DEF TypeOK, Held
  <1>5. ASSUME NEW o \in Obj, obj'[o] # NoObj, obj'[o].map # NoInode
        PROVE  obj'[o].map \in Inode /\ obj'[o].map \in held
    <2>1. obj'[o].map \in Inode
      BY <1>5 DEF TypeOK, TransferRec
    <2>. QED
      BY <1>5, <2>1 DEF Held
  <1>. QED
    BY <1>1, <1>2, <1>3, <1>4, <1>5 DEF HeldAllocated

\* A finalization moves to its next step.
LEMMA StepTyped ==
  ASSUME TypeOK, NEW th \in Thread,
         NEW pc \in {"idle", "hash", "link", "copy", "place", "utime", "unlink", "finish", "report", "dead"},
         NEW state \in State, NEW g, g = [fin[th] EXCEPT !.pc = pc, !.state = state],
         fin' = [fin EXCEPT ![th] = g]
  PROVE  /\ fin' \in [Thread -> FinRec]
         /\ fin'[th].pc = pc /\ fin'[th].state = state
         /\ \A h \in Thread : /\ fin'[h].o = fin[h].o /\ fin'[h].tid = fin[h].tid
                              /\ fin'[h].sig = fin[h].sig /\ fin'[h].part = fin[h].part
                              /\ h # th => fin'[h] = fin[h]
  <1>1. fin[th] \in FinRec
    BY DEF TypeOK
  <1>2. /\ g \in FinRec /\ g.pc = pc /\ g.state = state
        /\ g.o = fin[th].o /\ g.tid = fin[th].tid /\ g.sig = fin[th].sig /\ g.part = fin[th].part
    BY <1>1 DEF FinRec
  <1>3. \A h \in Thread : fin'[h] = IF h = th THEN g ELSE fin[h]
    BY DEF TypeOK
  <1>4. fin' \in [Thread -> FinRec]
    BY <1>2 DEF TypeOK
  <1>. QED
    BY <1>2, <1>3, <1>4

LEMMA FrameTyped ==
  ASSUME TypeInvariant, NEW o \in Obj, obj[o] # NoObj
  PROVE  /\ Frame(o) \in FinRec
         /\ Frame(o).o = o /\ Frame(o).pc = "hash"
         /\ Frame(o).tid \in Tid /\ Frame(o).sig \in Sig /\ Frame(o).part \in Tid
  <1>1. obj[o] \in TransferRec
    BY DEF TypeInvariant, TypeOK
  <1>. QED
    BY <1>1 DEF Frame, FinRec, TransferRec, State

LEMMA JournalOfTyped ==
  ASSUME NEW tr \in [Tid -> Obj \cup {NoObj}], NEW ob \in [Obj -> TransferRec \cup {NoObj}],
         \A t \in Tid : tr[t] # NoObj => ob[tr[t]] # NoObj
  PROVE  JournalOf(tr, ob) \subseteq JournalRec
  <1>1. ASSUME NEW t \in Tid, tr[t] # NoObj PROVE ob[tr[t]] \in TransferRec
    BY <1>1
  <1>. QED
    BY <1>1 DEF JournalOf, TransferRec, JournalRec

LEMMA TellTyped ==
  ASSUME TypeInvariant, NEW t, NEW s \in Sig, NEW state \in State
  PROVE  Tell(t, s, state) \in [Tid -> [sig : Sig \cup {NoSig}, state : State]]
  BY DEF Tell, TypeInvariant, TypeOK

LEMMA AdvertiseTyped ==
  ASSUME TypeInvariant, NEW t, NEW o \in Obj, obj[o] # NoObj, Advertise(t, o)
  PROVE  told' \in [Tid -> [sig : Sig \cup {NoSig}, state : State]]
  <1>1. obj[o] \in TransferRec
    BY DEF TypeInvariant, TypeOK
  <1>2. obj[o].sig \in Sig
    BY <1>1 DEF TransferRec
  <1>3. told \in [Tid -> [sig : Sig \cup {NoSig}, state : State]]
    BY DEF TypeInvariant, TypeOK
  <1>4. "COMPLETE" \in State /\ "INCOMPLETE" \in State
    BY DEF State
  <1>5. Tell(t, obj[o].sig, "COMPLETE") \in [Tid -> [sig : Sig \cup {NoSig}, state : State]]
    BY <1>2, <1>4, TellTyped
  <1>6. Tell(t, obj[o].sig, "INCOMPLETE") \in [Tid -> [sig : Sig \cup {NoSig}, state : State]]
    BY <1>2, <1>4, TellTyped
  <1>. QED
    BY <1>3, <1>5, <1>6 DEF Advertise

\* Every object a thread or a container refers to is an object.
LEMMA ReferencesAreObjects ==
  ASSUME TypeOK
  PROVE  /\ \A k \in 1 .. Len(queue) : queue[k] \in Obj
         /\ \A th \in Thread : fin[th].o # NoObj => fin[th].o \in Obj
         /\ \A t \in Tid : transfers[t] # NoObj => transfers[t] \in Obj
         /\ recv.o # NoObj => recv.o \in Obj
  <1>1. \A k \in 1 .. Len(queue) : queue[k] \in Obj
    BY ElementOfSeq DEF TypeOK
  <1>. QED
    BY <1>1 DEF TypeOK, FinRec, RecvRec

LEMMA IdleTyped == IdleRecv \in RecvRec /\ IdleFin \in FinRec
  BY DEF IdleRecv, RecvRec, IdleFin, FinRec, State

\* The receive thread moves on in its handler, or leaves it with an object.
LEMMA RecvTyped ==
  ASSUME TypeOK
  PROVE  /\ \A pc \in {"truncate", "map", "put", "dead"} :
              LET r == [recv EXCEPT !.pc = pc] IN
              /\ r \in RecvRec /\ r.pc = pc
              /\ r.tid = recv.tid /\ r.sig = recv.sig /\ r.o = recv.o
         /\ \A o \in Obj :
              LET r == [IdleRecv EXCEPT !.pc = "full", !.o = o] IN
              r \in RecvRec /\ r.pc = "full" /\ r.o = o
         /\ IdleRecv \in RecvRec /\ IdleRecv.pc = "idle" /\ IdleRecv.o = NoObj
  BY DEF TypeOK, IdleRecv, RecvRec

\* A finalization moves on, and keeps everything but where it stands.
LEMMA MoveTyped ==
  ASSUME TypeInvariant, NEW th \in Thread,
         NEW pc \in {"idle", "hash", "link", "copy", "place", "utime", "unlink", "finish", "report", "dead"},
         fin' = [fin EXCEPT ![th].pc = pc]
  PROVE  /\ fin' \in [Thread -> FinRec]
         /\ fin'[th].pc = pc /\ fin'[th].state = fin[th].state
         /\ \A h \in Thread : /\ fin'[h].o = fin[h].o /\ fin'[h].tid = fin[h].tid
                              /\ fin'[h].sig = fin[h].sig /\ fin'[h].part = fin[h].part
                              /\ h # th => fin'[h] = fin[h]
  <1>1. fin[th] \in FinRec
    BY DEF TypeInvariant, TypeOK
  <1>. DEFINE g == [fin[th] EXCEPT !.pc = pc]
  <1>2. /\ g \in FinRec /\ g.pc = pc /\ g.state = fin[th].state
        /\ g.o = fin[th].o /\ g.tid = fin[th].tid /\ g.sig = fin[th].sig /\ g.part = fin[th].part
    BY <1>1 DEF FinRec
  <1>3. fin' = [fin EXCEPT ![th] = g]
    OBVIOUS
  <1>. HIDE DEF g
  <1>4. fin \in [Thread -> FinRec]
    BY DEF TypeInvariant, TypeOK
  <1>. QED
    BY <1>2, <1>3, <1>4

-----------------------------------------------------------------------------
(* TypeInvariant: the initial states. *)

LEMMA TypedInit == Init => TypeInvariant
  <1>. SUFFICES ASSUME Init PROVE TypeInvariant
    OBVIOUS
  <1>0. queue \in Seq(Obj) /\ Len(queue) = 0
    BY EmptySeq DEF Init
  <1>1. TypeOK
    <2>1. restarts \in 0 .. MaxRestarts
      BY ConfigAssumption DEF Init
    <2>2. fin \in [Thread -> FinRec]
      BY IdleTyped DEF Init
    <2>3. told \in [Tid -> [sig : Sig \cup {NoSig}, state : State]]
      BY DEF Init, State
    <2>. QED
      BY <1>0, <2>1, <2>2, <2>3, IdleTyped DEF Init, TypeOK
  <1>2. HeldAllocated /\ ReferencesAllocated /\ StationsFilled
    BY <1>0, NoneAssumption DEF Init, HeldAllocated, ReferencesAllocated, StationsFilled, IdleRecv, IdleFin
  <1>. QED
    BY <1>1, <1>2 DEF TypeInvariant

-----------------------------------------------------------------------------
(* TypeInvariant: the receive thread. *)

LEMMA TypedPresent ==
  ASSUME TypeInvariant, NEW t \in Tid, NEW s \in Sig, MetadataOfPresentFile(t, s)
  PROVE  TypeInvariant'
  <1>1. TypeOK'
    BY DEF MetadataOfPresentFile, disk, TypeInvariant, TypeOK, RecvRec
  <1>2. HeldAllocated' /\ ReferencesAllocated' /\ StationsFilled'
    BY DEF MetadataOfPresentFile, disk, TypeInvariant, HeldAllocated,
           ReferencesAllocated, StationsFilled
  <1>. QED
    BY <1>1, <1>2 DEF TypeInvariant

LEMMA TypedAnswer ==
  ASSUME TypeInvariant, AnswerComplete
  PROVE  TypeInvariant'
  <1>1. recv.tid \in Tid /\ recv.sig \in Sig
    BY DEF AnswerComplete, TypeInvariant, StationsFilled
  <1>2. told' \in [Tid -> [sig : Sig \cup {NoSig}, state : State]]
    BY <1>1, TellTyped DEF AnswerComplete, State
  <1>3. TypeOK'
    BY <1>2, IdleTyped DEF AnswerComplete, disk, TypeInvariant, TypeOK
  <1>4. HeldAllocated' /\ ReferencesAllocated' /\ StationsFilled'
    BY DEF AnswerComplete, disk, TypeInvariant, HeldAllocated,
           ReferencesAllocated, StationsFilled, IdleRecv
  <1>. QED
    BY <1>3, <1>4 DEF TypeInvariant

LEMMA TypedOther ==
  ASSUME TypeInvariant, NEW t \in Tid, NEW s \in Sig, MetadataOfOtherFile(t, s)
  PROVE  TypeInvariant'
  <1>1. TypeOK'
    BY DEF MetadataOfOtherFile, disk, TypeInvariant, TypeOK, RecvRec
  <1>2. HeldAllocated' /\ ReferencesAllocated' /\ StationsFilled'
    BY DEF MetadataOfOtherFile, disk, TypeInvariant, HeldAllocated,
           ReferencesAllocated, StationsFilled
  <1>. QED
    BY <1>1, <1>2 DEF TypeInvariant

\* One object changes, and neither its map nor whether it is finalized.
LEMMA TypedObject ==
  ASSUME TypeInvariant, NEW o \in Obj, obj[o] # NoObj, NEW y \in TransferRec,
         y.map = obj[o].map, y.finalized = obj[o].finalized, obj' = [obj EXCEPT ![o] = y]
  PROVE  /\ obj' \in [Obj -> TransferRec \cup {NoObj}]
         /\ \A z \in Obj : obj'[z] # NoObj /\ obj'[z].finalized => obj'[z].map = NoInode
         /\ \A z \in Obj : obj'[z] # NoObj <=> obj[z] # NoObj
         /\ \A z \in Obj : obj[z] # NoObj => obj'[z].map = obj[z].map
  <1>1. obj \in [Obj -> TransferRec \cup {NoObj}]
    BY DEF TypeInvariant, TypeOK
  <1>2. obj'[o] = y /\ \A z \in Obj : z # o => obj'[z] = obj[z]
    BY <1>1
  <1>3. y # NoObj
    BY NoneAssumption
  <1>4. obj' \in [Obj -> TransferRec \cup {NoObj}]
    BY <1>1
  <1>. QED
    BY <1>2, <1>3, <1>4 DEF TypeInvariant, TypeOK

\* The same for HeldAllocated, when no file changes.
LEMMA MapsAllocated ==
  ASSUME TypeInvariant, UNCHANGED <<part, temp, final, file>>,
         \A z \in Obj : obj'[z] # NoObj <=> obj[z] # NoObj,
         \A z \in Obj : obj[z] # NoObj => obj'[z].map = obj[z].map
  PROVE  HeldAllocated'
  BY DEF TypeInvariant, HeldAllocated

\* Only the address of an object changes.
LEMMA TypedAddr ==
  ASSUME TypeInvariant, NEW o \in Obj, obj[o] # NoObj, NEW a \in Addr,
         obj' = [obj EXCEPT ![o] = [obj[o] EXCEPT !.addr = a]]
  PROVE  /\ obj' \in [Obj -> TransferRec \cup {NoObj}]
         /\ \A z \in Obj : obj'[z] # NoObj /\ obj'[z].finalized => obj'[z].map = NoInode
         /\ \A z \in Obj : obj'[z] # NoObj <=> obj[z] # NoObj
         /\ \A z \in Obj : obj[z] # NoObj => obj'[z].map = obj[z].map
  <1>. DEFINE y == [obj[o] EXCEPT !.addr = a]
  <1>1. obj[o] \in TransferRec
    BY DEF TypeInvariant, TypeOK
  <1>2. y \in TransferRec /\ y.map = obj[o].map /\ y.finalized = obj[o].finalized
    BY <1>1 DEF TransferRec
  <1>. QED
    BY <1>2, TypedObject

LEMMA TypedKnown ==
  ASSUME TypeInvariant, PrepareKnown
  PROVE  TypeInvariant'
  <1>. DEFINE o == transfers[recv.tid]
  <1>1. recv.tid \in Tid /\ o \in Obj /\ obj[o] # NoObj
    BY DEF TypeInvariant, TypeOK, StationsFilled, ReferencesAllocated, PrepareKnown
  <1>2. told' \in [Tid -> [sig : Sig \cup {NoSig}, state : State]]
    BY <1>1, AdvertiseTyped DEF PrepareKnown, TypeInvariant, TypeOK
  <1>3. obj' = obj \/ \E a \in Addr : obj' = [obj EXCEPT ![o] = [obj[o] EXCEPT !.addr = a]]
    BY DEF PrepareKnown
  <1>4. /\ obj' \in [Obj -> TransferRec \cup {NoObj}]
        /\ \A z \in Obj : obj'[z] # NoObj /\ obj'[z].finalized => obj'[z].map = NoInode
        /\ \A z \in Obj : obj'[z] # NoObj <=> obj[z] # NoObj
        /\ \A z \in Obj : obj[z] # NoObj => obj'[z].map = obj[z].map
    <2>1. CASE obj' = obj
      BY <2>1 DEF TypeInvariant, TypeOK
    <2>2. CASE \E a \in Addr : obj' = [obj EXCEPT ![o] = [obj[o] EXCEPT !.addr = a]]
      BY <1>1, <2>2, TypedAddr
    <2>. QED
      BY <1>3, <2>1, <2>2
  <1>5. TypeOK'
    BY <1>2, <1>4, IdleTyped DEF PrepareKnown, disk, TypeInvariant, TypeOK
  <1>6. HeldAllocated'
    BY <1>4, MapsAllocated DEF PrepareKnown, disk
  <1>7. ReferencesAllocated' /\ StationsFilled'
    BY <1>4, ReferencesAreObjects DEF PrepareKnown, disk, TypeInvariant,
           ReferencesAllocated, StationsFilled, IdleRecv
  <1>. QED
    BY <1>5, <1>6, <1>7 DEF TypeInvariant

LEMMA TypedResume ==
  ASSUME TypeInvariant, PrepareResume
  PROVE  TypeInvariant'
  <1>. DEFINE t == recv.tid
              prev == ResumableId(recv.sig)
              o == transfers[prev]
  <1>1. t \in Tid /\ recv.sig \in Sig
    BY DEF TypeInvariant, StationsFilled, PrepareResume
  <1>2. prev \in Tid /\ o \in Obj /\ obj[o] # NoObj
    BY <1>1 DEF TypeInvariant, TypeOK, ReferencesAllocated, PrepareResume, ResumableId
  <1>3. told' \in [Tid -> [sig : Sig \cup {NoSig}, state : State]]
    BY <1>2, AdvertiseTyped DEF PrepareResume
  <1>4. obj[o] \in TransferRec
    BY <1>2 DEF TypeInvariant, TypeOK
  <1>5. PICK a \in Addr : obj' = [obj EXCEPT ![o] = [obj[o] EXCEPT !.tid = t, !.addr = a]]
    BY DEF PrepareResume
  <1>6. /\ [obj[o] EXCEPT !.tid = t, !.addr = a] \in TransferRec
        /\ [obj[o] EXCEPT !.tid = t, !.addr = a].map = obj[o].map
        /\ [obj[o] EXCEPT !.tid = t, !.addr = a].finalized = obj[o].finalized
    BY <1>1, <1>4 DEF TransferRec
  <1>7. /\ obj' \in [Obj -> TransferRec \cup {NoObj}]
        /\ \A z \in Obj : obj'[z] # NoObj /\ obj'[z].finalized => obj'[z].map = NoInode
        /\ \A z \in Obj : obj'[z] # NoObj <=> obj[z] # NoObj
        /\ \A z \in Obj : obj[z] # NoObj => obj'[z].map = obj[z].map
    BY <1>2, <1>5, <1>6, TypedObject
  <1>8. TypeOK'
    BY <1>1, <1>2, <1>3, <1>7, IdleTyped DEF PrepareResume, disk, TypeInvariant, TypeOK
  <1>9. HeldAllocated'
    BY <1>7, MapsAllocated DEF PrepareResume, disk
  <1>10. ReferencesAllocated'
    <2>1. \A u \in Tid : transfers'[u] # NoObj => transfers'[u] \in Obj /\ obj[transfers'[u]] # NoObj
      BY <1>1, <1>2 DEF PrepareResume, TypeInvariant, TypeOK, ReferencesAllocated
    <2>. QED
      BY <1>7, <2>1, ReferencesAreObjects
      DEF PrepareResume, disk, TypeInvariant, ReferencesAllocated, IdleRecv
  <1>11. StationsFilled'
    BY DEF PrepareResume, TypeInvariant, StationsFilled, IdleRecv
  <1>. QED
    BY <1>8, <1>9, <1>10, <1>11 DEF TypeInvariant

LEMMA TypedOpen ==
  ASSUME TypeInvariant, OpenPart
  PROVE  TypeInvariant'
  <1>1. recv.tid \in Tid /\ recv.sig \in Sig /\ recv.pc = "prepare"
    BY DEF TypeInvariant, StationsFilled, OpenPart
  <1>2. /\ recv' \in RecvRec /\ recv'.pc \in {"truncate", "map"}
        /\ recv'.tid = recv.tid /\ recv'.sig = recv.sig /\ recv'.o = recv.o
    <2>1. PICK pc \in {"truncate", "map"} : recv' = [recv EXCEPT !.pc = pc]
      BY DEF OpenPart
    <2>. QED
      BY <2>1, RecvTyped DEF TypeInvariant
  <1>3. UNCHANGED <<transfers, sigIndex, obj, queue, fin, completed, journalDirty,
                    journal, temp, final, told, restarts>>
    BY DEF OpenPart
  <1>4. /\ part' \in [Tid -> Inode \cup {NoInode}] /\ file' \in [Inode -> File \cup {Free}]
        /\ \A j \in Inode : file[j] # Free => file'[j] # Free
        /\ \A u \in Tid : part'[u] # NoInode => file'[part'[u]] # Free
    <2>1. CASE UNCHANGED <<part, file>>
      BY <2>1 DEF TypeInvariant, TypeOK, HeldAllocated
    <2>2. CASE \E i \in {j \in Inode : file[j] = Free} :
                 /\ part' = [part EXCEPT ![recv.tid] = i]
                 /\ file' = [file EXCEPT ![i] = [bytes |-> NoBytes, mtime |-> Now]]
      <3>1. PICK i \in Inode :
                 /\ part' = [part EXCEPT ![recv.tid] = i]
                 /\ file' = [file EXCEPT ![i] = [bytes |-> NoBytes, mtime |-> Now]]
        BY <2>2
      <3>2. [bytes |-> NoBytes, mtime |-> Now] # Free
        BY NoBytesTyped, NoneAssumption
      <3>3. file' \in [Inode -> File \cup {Free}] /\ file'[i] # Free
            /\ \A j \in Inode : j # i => file'[j] = file[j]
        BY <3>1, <3>2, NoBytesTyped DEF TypeInvariant, TypeOK
      <3>. QED
        BY <1>1, <3>1, <3>3 DEF TypeInvariant, TypeOK, HeldAllocated
    <2>. QED
      BY <2>1, <2>2 DEF OpenPart
  <1>5. TypeOK'
    BY <1>2, <1>3, <1>4 DEF TypeInvariant, TypeOK
  <1>6. HeldAllocated'
    <2>1. \A y \in Obj : obj[y] # NoObj => obj[y].map \in Inode \cup {NoInode}
      BY DEF TypeInvariant, TypeOK, TransferRec
    <2>. QED
      BY <1>3, <1>4, <2>1 DEF TypeInvariant, TypeOK, HeldAllocated
  <1>7. ReferencesAllocated' /\ StationsFilled'
    BY <1>1, <1>2, <1>3 DEF TypeInvariant, ReferencesAllocated, StationsFilled
  <1>. QED
    BY <1>5, <1>6, <1>7 DEF TypeInvariant

LEMMA TypedTruncate ==
  ASSUME TypeInvariant, TruncatePart
  PROVE  TypeInvariant'
  <1>1. recv.tid \in Tid /\ recv.sig \in Sig /\ recv.pc = "truncate"
    BY DEF TypeInvariant, StationsFilled, TruncatePart
  <1>2. /\ recv' \in RecvRec /\ recv'.pc = "map"
        /\ recv'.tid = recv.tid /\ recv'.sig = recv.sig /\ recv'.o = recv.o
    BY RecvTyped DEF TruncatePart, TypeInvariant
  <1>3. UNCHANGED <<transfers, sigIndex, obj, queue, fin, completed, journalDirty,
                    journal, part, temp, final, told, restarts>>
    BY DEF TruncatePart
  <1>4. /\ file' \in [Inode -> File \cup {Free}]
        /\ \A j \in Inode : file[j] # Free => file'[j] # Free
    <2>1. EmptyFile(recv.sig) \in File /\ EmptyFile(recv.sig) # Free
      BY <1>1, EmptyFileTyped, NoneAssumption
    <2>2. file' = file \/ file' = [file EXCEPT ![part[recv.tid]] = EmptyFile(recv.sig)]
      BY DEF TruncatePart
    <2>. QED
      BY <2>1, <2>2 DEF TypeInvariant, TypeOK
  <1>5. TypeOK'
    BY <1>2, <1>3, <1>4 DEF TypeInvariant, TypeOK
  <1>6. HeldAllocated'
    <2>1. \A y \in Obj : obj[y] # NoObj => obj[y].map \in Inode \cup {NoInode}
      BY DEF TypeInvariant, TypeOK, TransferRec
    <2>. QED
      BY <1>3, <1>4, <2>1 DEF TypeInvariant, TypeOK, HeldAllocated
  <1>7. ReferencesAllocated' /\ StationsFilled'
    BY <1>1, <1>2, <1>3 DEF TypeInvariant, ReferencesAllocated, StationsFilled
  <1>. QED
    BY <1>5, <1>6, <1>7 DEF TypeInvariant

LEMMA TypedCreate ==
  ASSUME TypeInvariant, PrepareCreate
  PROVE  TypeInvariant'
  <1>. DEFINE t == recv.tid
              s == recv.sig
              i == part[t]
              fits == i = NoInode \/ Chunks(s) \subseteq DOMAIN file[i].bytes
              map == IF Chunks(s) # {} /\ fits THEN i ELSE NoInode
  <1>1. t \in Tid /\ s \in Sig /\ i \in Inode \cup {NoInode}
    BY DEF TypeInvariant, TypeOK, StationsFilled, PrepareCreate
  <1>2. PICK o \in {x \in Obj : obj[x] = NoObj}, a \in Addr :
           /\ transfers' = [transfers EXCEPT ![t] = o]
           /\ sigIndex' = [sigIndex EXCEPT ![s] = t]
           /\ obj' = [obj EXCEPT ![o] = Transfer(t, s, t, a, {}, map)]
           /\ journalDirty' = (journalDirty \/ fits)
           /\ recv' = CASE ~fits -> [recv EXCEPT !.pc = "dead"]
                        [] fits /\ Chunks(s) = {} -> [IdleRecv EXCEPT !.pc = "full", !.o = o]
                        [] fits /\ Chunks(s) # {} -> IdleRecv
    BY DEF PrepareCreate
  <1>3. UNCHANGED <<queue, fin, completed, journal, part, temp, final, file, told, restarts>>
    BY DEF PrepareCreate, disk
  <1>. DEFINE x == Transfer(t, s, t, a, {}, map)
  <1>5. x \in TransferRec /\ x # NoObj /\ (x.map = NoInode \/ x.map = i) /\ x.finalized = FALSE
    <2>1. map \in Inode \cup {NoInode}
      BY <1>1
    <2>2. x \in TransferRec /\ x.map = map /\ x.finalized = FALSE
      BY <1>1, <2>1 DEF Transfer, TransferRec
    <2>. QED
      BY <2>2, NoneAssumption
  <1>6. \/ recv' = [recv EXCEPT !.pc = "dead"]
        \/ recv' = [IdleRecv EXCEPT !.pc = "full", !.o = o]
        \/ recv' = IdleRecv
    <2>1. CASE ~fits
      BY <1>2, <2>1
    <2>2. CASE fits /\ Chunks(s) = {}
      BY <1>2, <2>2
    <2>3. CASE fits /\ Chunks(s) # {}
      BY <1>2, <2>3
    <2>. QED
      BY <2>1, <2>2, <2>3
  <1>7. /\ recv' \in RecvRec
        /\ recv'.o = recv.o \/ recv'.o = NoObj \/ recv'.o = o
        /\ recv'.pc \in {"full", "put"} => recv'.o = o
        /\ recv'.pc \notin {"answer", "prepare", "truncate", "map"}
        /\ recv'.pc = "dead" => recv'.tid = t /\ recv'.sig = s
    <2>1. CASE recv' = [recv EXCEPT !.pc = "dead"]
      BY <2>1, RecvTyped DEF TypeInvariant
    <2>2. CASE recv' = [IdleRecv EXCEPT !.pc = "full", !.o = o]
      BY <2>2, RecvTyped DEF TypeInvariant
    <2>3. CASE recv' = IdleRecv
      BY <2>3, RecvTyped DEF TypeInvariant
    <2>. QED
      BY <1>6, <2>1, <2>2, <2>3
  <1>8. journalDirty' \in BOOLEAN
    BY <1>2 DEF TypeInvariant, TypeOK
  <1>. HIDE DEF x
  <1>10. /\ \A y \in Obj : y # o => obj'[y] = obj[y]
         /\ obj'[o] = x
         /\ obj' \in [Obj -> TransferRec \cup {NoObj}]
    BY <1>2, <1>5 DEF TypeInvariant, TypeOK, x
  <1>9. TypeOK'
    <2>1. \A y \in Obj : obj'[y] # NoObj /\ obj'[y].finalized => obj'[y].map = NoInode
      BY <1>5, <1>10 DEF TypeInvariant, TypeOK
    <2>2. transfers' \in [Tid -> Obj \cup {NoObj}] /\ sigIndex' \in [Sig -> Tid \cup {NoTid}]
      BY <1>1, <1>2 DEF TypeInvariant, TypeOK
    <2>. QED
      BY <1>3, <1>7, <1>8, <1>10, <2>1, <2>2 DEF TypeInvariant, TypeOK
  <1>13. HeldAllocated'
    BY <1>1, <1>3, <1>5, <1>10 DEF TypeInvariant, HeldAllocated
  <1>14. ReferencesAllocated'
    <2>1. \A y \in Obj : obj[y] # NoObj => obj'[y] # NoObj
      BY <1>5, <1>10
    <2>2. obj'[o] # NoObj
      BY <1>5, <1>10
    <2>3. \A u \in Tid : transfers'[u] # NoObj => transfers'[u] = o \/ transfers'[u] = transfers[u]
      BY <1>2 DEF TypeInvariant, TypeOK
    <2>4. \A u \in Tid : transfers'[u] # NoObj => transfers'[u] \in Obj /\ obj'[transfers'[u]] # NoObj
      BY <2>1, <2>2, <2>3, ReferencesAreObjects DEF TypeInvariant, ReferencesAllocated
    <2>. QED
      BY <2>1, <2>2, <2>4, <1>3, <1>7, ReferencesAreObjects
      DEF TypeInvariant, ReferencesAllocated
  <1>15. StationsFilled'
    BY <1>1, <1>2, <1>3, <1>7 DEF TypeInvariant, StationsFilled
  <1>. QED
    BY <1>9, <1>13, <1>14, <1>15 DEF TypeInvariant

LEMMA TypedData ==
  ASSUME TypeInvariant, NEW t \in Tid, NEW v \in Sig, NEW c \in Chunks(v), Data(t, c, v)
  PROVE  TypeInvariant'
  <1>. DEFINE o == transfers[t]
              x == obj[o]
              i == Target(x)
              lost == IF x.map # NoInode /\ file[i].bytes[c] = Hole THEN {c} ELSE {}
              y == [x EXCEPT !.got = x.got \cup {c}, !.unsynced = x.unsynced \cup lost]
  <1>1. o \in Obj /\ x \in TransferRec /\ x # NoObj /\ c \in Nat
    BY ChunksNat, NoneAssumption DEF Data, TypeInvariant, TypeOK, ReferencesAllocated
  <1>2. y \in TransferRec /\ y.map = x.map /\ y.finalized = x.finalized
    <2>1. x.got \cup {c} \in SUBSET Nat /\ x.unsynced \cup lost \in SUBSET Nat
      BY <1>1 DEF TransferRec
    <2>. QED
      BY <1>1, <2>1 DEF TransferRec
  <1>3. obj' = [obj EXCEPT ![o] = y]
    BY DEF Data
  <1>9. /\ obj' \in [Obj -> TransferRec \cup {NoObj}]
        /\ \A z \in Obj : obj'[z] # NoObj /\ obj'[z].finalized => obj'[z].map = NoInode
        /\ \A z \in Obj : obj'[z] # NoObj <=> obj[z] # NoObj
        /\ \A z \in Obj : obj[z] # NoObj => obj'[z].map = obj[z].map
    BY <1>1, <1>2, <1>3, TypedObject
  <1>4. /\ file' \in [Inode -> File \cup {Free}]
        /\ \A j \in Inode : file[j] # Free => file'[j] # Free
    <2>1. i \in Inode /\ file[i] # Free
      BY <1>1 DEF Data, Target, TypeInvariant, TypeOK, HeldAllocated, TransferRec
    <2>2. file[i] \in File
      BY <2>1 DEF TypeInvariant, TypeOK
    <2>3. file' = [file EXCEPT ![i] = [file[i] EXCEPT !.bytes[c] = v, !.mtime = Now]]
      BY DEF Data
    <2>4. [file[i] EXCEPT !.bytes[c] = v, !.mtime = Now] \in File
      BY <2>2, WriteTyped
    <2>. QED
      BY <2>1, <2>3, <2>4, NoneAssumption DEF TypeInvariant, TypeOK
  <1>5. recv' = recv \/ recv' = [IdleRecv EXCEPT !.pc = "full", !.o = o]
    BY DEF Data
  <1>6. recv' \in RecvRec /\ (recv' = recv \/ (recv'.o = o /\ recv'.pc = "full"))
    <2>1. CASE recv' = recv
      BY <2>1 DEF TypeInvariant, TypeOK
    <2>2. CASE recv' = [IdleRecv EXCEPT !.pc = "full", !.o = o]
      BY <1>1, <2>2, RecvTyped DEF TypeInvariant
    <2>. QED
      BY <1>5, <2>1, <2>2
  <1>7. journalDirty' \in BOOLEAN
    BY DEF Data, TypeInvariant, TypeOK
  <1>8. TypeOK'
    <2>2. UNCHANGED <<transfers, sigIndex, queue, fin, completed, journal, part, temp, final,
                      told, restarts>>
      BY DEF Data
    <2>. QED
      BY <1>4, <1>6, <1>7, <1>9, <2>2 DEF TypeInvariant, TypeOK
  <1>10. HeldAllocated'
    <2>1. \A z \in Obj : obj[z] # NoObj => obj[z].map \in Inode \cup {NoInode}
      BY DEF TypeInvariant, TypeOK, TransferRec
    <2>. QED
      BY <1>4, <1>9, <2>1 DEF Data, TypeInvariant, TypeOK, HeldAllocated
  <1>11. ReferencesAllocated'
    BY <1>1, <1>6, <1>9, ReferencesAreObjects DEF Data, TypeInvariant, ReferencesAllocated
  <1>12. StationsFilled'
    BY <1>1, <1>6 DEF Data, TypeInvariant, StationsFilled
  <1>. QED
    BY <1>8, <1>10, <1>11, <1>12 DEF TypeInvariant

LEMMA TypedDataWithoutFile ==
  ASSUME TypeInvariant, NEW t \in Tid, DataWithoutFile(t)
  PROVE  TypeInvariant'
  <1>1. transfers[t] \in Obj /\ obj[transfers[t]] \in TransferRec
    BY NoneAssumption DEF DataWithoutFile, TypeInvariant, TypeOK, ReferencesAllocated
  <1>2. obj[transfers[t]].sig \in Sig
    BY <1>1 DEF TransferRec
  <1>3. TypeOK'
    BY <1>2 DEF DataWithoutFile, disk, TypeInvariant, TypeOK, RecvRec
  <1>4. HeldAllocated' /\ ReferencesAllocated' /\ StationsFilled'
    BY <1>2 DEF DataWithoutFile, disk, TypeInvariant, HeldAllocated,
           ReferencesAllocated, StationsFilled
  <1>. QED
    BY <1>3, <1>4 DEF TypeInvariant

LEMMA TypedBeacon ==
  ASSUME TypeInvariant, NEW t \in Tid, Beacon(t)
  PROVE  TypeInvariant'
  <1>. DEFINE o == transfers[t]
  <1>1. o \in Obj /\ obj[o] # NoObj
    BY DEF Beacon, TypeInvariant, TypeOK, ReferencesAllocated
  <1>2. \E a \in Addr : obj' = [obj EXCEPT ![o] = [obj[o] EXCEPT !.addr = a]]
    BY DEF Beacon
  <1>3. /\ obj' \in [Obj -> TransferRec \cup {NoObj}]
        /\ \A z \in Obj : obj'[z] # NoObj /\ obj'[z].finalized => obj'[z].map = NoInode
        /\ \A z \in Obj : obj'[z] # NoObj <=> obj[z] # NoObj
        /\ \A z \in Obj : obj[z] # NoObj => obj'[z].map = obj[z].map
    BY <1>1, <1>2, TypedAddr
  <1>4. TypeOK'
    BY <1>3 DEF Beacon, disk, TypeInvariant, TypeOK
  <1>5. HeldAllocated'
    BY <1>3, MapsAllocated DEF Beacon, disk
  <1>6. ReferencesAllocated' /\ StationsFilled'
    BY <1>3, ReferencesAreObjects DEF Beacon, disk, TypeInvariant, ReferencesAllocated,
                                      StationsFilled
  <1>. QED
    BY <1>4, <1>5, <1>6 DEF TypeInvariant

LEMMA TypedStale ==
  ASSUME TypeInvariant, NEW t \in Tid, StaleComplete(t)
  PROVE  TypeInvariant'
  <1>1. transfers[t] \in Obj /\ obj[transfers[t]] # NoObj
    BY DEF StaleComplete, TypeInvariant, TypeOK, ReferencesAllocated
  <1>2. TypeOK'
    BY <1>1, RecvTyped DEF StaleComplete, disk, TypeInvariant, TypeOK
  <1>3. HeldAllocated' /\ ReferencesAllocated' /\ StationsFilled'
    BY <1>1 DEF StaleComplete, IdleRecv, disk, TypeInvariant, HeldAllocated,
           ReferencesAllocated, StationsFilled
  <1>. QED
    BY <1>2, <1>3 DEF TypeInvariant

-----------------------------------------------------------------------------
(* TypeInvariant: queueing and finalization. *)

LEMMA TypedMark ==
  ASSUME TypeInvariant, MarkFinalized
  PROVE  TypeInvariant'
  <1>. DEFINE o == recv.o
              y == [obj[o] EXCEPT !.finalized = TRUE, !.map = NoInode, !.unsynced = {}]
  <1>1. o \in Obj /\ obj[o] \in TransferRec /\ obj[o] # NoObj
    BY NoneAssumption DEF MarkFinalized, TypeInvariant, TypeOK, StationsFilled, ReferencesAllocated
  <1>2. y \in TransferRec /\ y.map = NoInode
    BY <1>1 DEF TransferRec
  <1>3. obj' = obj \/ obj' = [obj EXCEPT ![o] = y]
    BY DEF MarkFinalized
  <1>4. /\ obj' \in [Obj -> TransferRec \cup {NoObj}]
        /\ \A z \in Obj : obj'[z] # NoObj /\ obj'[z].finalized => obj'[z].map = NoInode
        /\ \A z \in Obj : obj'[z] # NoObj <=> obj[z] # NoObj
        /\ \A z \in Obj : obj'[z] # NoObj /\ obj'[z].map # NoInode => obj'[z] = obj[z]
    <2>1. y # NoObj
      BY <1>2, NoneAssumption
    <2>2. CASE obj' = obj
      BY <2>2 DEF TypeInvariant, TypeOK
    <2>3. CASE obj' = [obj EXCEPT ![o] = y]
      BY <1>1, <1>2, <2>1, <2>3 DEF TypeInvariant, TypeOK
    <2>. QED
      BY <1>3, <2>2, <2>3
  <1>5. /\ recv' = IdleRecv \/ recv' = [recv EXCEPT !.pc = "put"]
        /\ recv' \in RecvRec
        /\ recv'.o = NoObj \/ recv'.o = recv.o
        /\ recv'.pc = "idle" \/ (recv'.pc = "put" /\ recv'.o = recv.o)
    <2>1. recv' = IdleRecv \/ recv' = [recv EXCEPT !.pc = "put"]
      BY DEF MarkFinalized
    <2>. QED
      BY <2>1, RecvTyped DEF TypeInvariant
  <1>6. journal' \subseteq JournalRec
    <2>1. JournalOf(transfers, obj') \subseteq JournalRec
      BY <1>4, JournalOfTyped, ReferencesAreObjects DEF TypeInvariant, TypeOK, ReferencesAllocated
    <2>. QED
      BY <2>1 DEF MarkFinalized, TypeInvariant, TypeOK
  <1>7. file' = Reclaim(file, Held(part, temp, final, obj'))
        /\ file' \in [Inode -> File \cup {Free}] /\ file \in [Inode -> File \cup {Free}]
    <2>1. file' = Reclaim(file, Held(part, temp, final, obj'))
      BY DEF MarkFinalized
    <2>2. file \in [Inode -> File \cup {Free}]
      BY DEF TypeInvariant, TypeOK
    <2>. QED
      BY <2>1, <2>2, ReclaimTyped
  <1>8. UNCHANGED <<transfers, sigIndex, queue, fin, completed, part, temp, final, told, restarts>>
    BY DEF MarkFinalized
  <1>9. journalDirty' \in BOOLEAN
    BY DEF MarkFinalized, TypeInvariant, TypeOK
  <1>10. TypeOK'
    BY <1>4, <1>5, <1>6, <1>7, <1>8, <1>9 DEF TypeInvariant, TypeOK
  <1>11. HeldAllocated'
    <2>1. file' = Reclaim(file, Held(part', temp', final', obj'))
      BY <1>7, <1>8
    <2>2. /\ \A t \in Tid : part'[t] # NoInode => file[part'[t]] # Free
          /\ \A x \in Tid \X Name : temp'[x] # NoInode => file[temp'[x]] # Free
          /\ \A n \in Name : final'[n] # NoInode => file[final'[n]] # Free
      BY <1>8 DEF TypeInvariant, HeldAllocated
    <2>3. \A z \in Obj : obj'[z] # NoObj /\ obj'[z].map # NoInode => file[obj'[z].map] # Free
      BY <1>4 DEF TypeInvariant, HeldAllocated
    <2>. QED
      BY <1>7, <1>10, <2>1, <2>2, <2>3, ReclaimAllocated
  <1>12. ReferencesAllocated'
    BY <1>4, <1>5, <1>8, ReferencesAreObjects DEF TypeInvariant, ReferencesAllocated
  <1>13. StationsFilled'
    BY <1>1, <1>5, <1>8 DEF TypeInvariant, StationsFilled
  <1>. QED
    BY <1>10, <1>11, <1>12, <1>13 DEF TypeInvariant

LEMMA TypedPut ==
  ASSUME TypeInvariant, PutFinalization
  PROVE  TypeInvariant'
  <1>1. recv.o \in Obj /\ obj[recv.o] # NoObj
    BY NoneAssumption DEF PutFinalization, TypeInvariant, StationsFilled, ReferencesAllocated
  <1>2. queue' \in Seq(Obj) /\ \A k \in 1 .. Len(queue') : obj[queue'[k]] # NoObj
    <2>1. queue \in Seq(Obj) /\ \A k \in 1 .. Len(queue) : obj[queue[k]] # NoObj
      BY DEF TypeInvariant, TypeOK, ReferencesAllocated
    <2>2. queue' = queue \/ queue' = Append(queue, recv.o)
      BY DEF PutFinalization
    <2>3. CASE queue' = Append(queue, recv.o)
      BY <1>1, <2>1, <2>3, AppendProperties
    <2>. QED
      BY <2>1, <2>2, <2>3
  <1>3. fin' = fin \/ fin' = [fin EXCEPT !["recv"] = Frame(recv.o)]
    BY DEF PutFinalization
  <1>4. /\ fin' \in [Thread -> FinRec]
        /\ \A th \in Thread : fin'[th] = fin[th] \/ fin'[th] = Frame(recv.o)
    <2>1. fin \in [Thread -> FinRec] /\ Frame(recv.o) \in FinRec
      BY <1>1, FrameTyped DEF TypeInvariant, TypeOK
    <2>2. CASE fin' = fin
      BY <2>1, <2>2
    <2>3. CASE fin' = [fin EXCEPT !["recv"] = Frame(recv.o)]
      BY <2>1, <2>3
    <2>. QED
      BY <1>3, <2>2, <2>3
  <1>5. recv' = IdleRecv
        /\ UNCHANGED <<transfers, sigIndex, obj, completed, journalDirty, disk, told, restarts>>
    BY DEF PutFinalization
  <1>6. TypeOK'
    BY <1>2, <1>4, <1>5, IdleTyped DEF disk, TypeInvariant, TypeOK
  <1>7. HeldAllocated'
    BY <1>5 DEF disk, TypeInvariant, HeldAllocated
  <1>8. ReferencesAllocated'
    BY <1>1, <1>2, <1>4, <1>5, FrameTyped DEF TypeInvariant, ReferencesAllocated, IdleRecv
  <1>9. StationsFilled'
    BY <1>1, <1>4, <1>5, FrameTyped DEF TypeInvariant, StationsFilled, IdleRecv
  <1>. QED
    BY <1>6, <1>7, <1>8, <1>9 DEF TypeInvariant

LEMMA TypedTake ==
  ASSUME TypeInvariant, TakeFinalization
  PROVE  TypeInvariant'
  <1>. DEFINE o == Head(queue)
  <1>1. queue \in Seq(Obj) /\ queue # <<>>
    BY DEF TakeFinalization, TypeInvariant, TypeOK
  <1>2. o \in Obj /\ o = queue[1] /\ 1 \in 1 .. Len(queue)
    BY <1>1
  <1>3. obj[o] # NoObj
    BY <1>2 DEF TypeInvariant, ReferencesAllocated
  <1>4. queue' \in Seq(Obj) /\ \A k \in 1 .. Len(queue') : obj[queue'[k]] # NoObj
    BY <1>1 DEF TakeFinalization, TypeInvariant, ReferencesAllocated
  <1>5. fin' = [fin EXCEPT !["worker"] = Frame(o)]
        /\ UNCHANGED <<transfers, sigIndex, obj, recv, completed, journalDirty, disk, told, restarts>>
    BY DEF TakeFinalization
  <1>6. /\ fin' \in [Thread -> FinRec]
        /\ \A th \in Thread : fin'[th] = fin[th] \/ fin'[th] = Frame(o)
    BY <1>2, <1>3, <1>5, FrameTyped DEF TypeInvariant, TypeOK
  <1>7. TypeOK'
    BY <1>4, <1>5, <1>6 DEF disk, TypeInvariant, TypeOK
  <1>8. HeldAllocated'
    BY <1>5 DEF disk, TypeInvariant, HeldAllocated
  <1>9. ReferencesAllocated'
    BY <1>2, <1>3, <1>4, <1>5, <1>6, FrameTyped DEF TypeInvariant, ReferencesAllocated
  <1>10. StationsFilled'
    BY <1>2, <1>3, <1>5, <1>6, FrameTyped DEF TypeInvariant, StationsFilled
  <1>. QED
    BY <1>7, <1>8, <1>9, <1>10 DEF TypeInvariant

\* What a container or a thread refers to is kept.
LEMMA ReferencedTyped ==
  ASSUME NEW ob \in [Obj -> TransferRec \cup {NoObj}], NEW tr, NEW fi
  PROVE  LET r == Referenced(ob, tr, fi) IN
         /\ r \in [Obj -> TransferRec \cup {NoObj}]
         /\ \A o \in Obj : r[o] # NoObj => r[o] = ob[o]
         /\ \A t \in Tid : tr[t] \in Obj => r[tr[t]] = ob[tr[t]]
         /\ \A k \in 1 .. Len(queue) : queue[k] \in Obj => r[queue[k]] = ob[queue[k]]
         /\ recv.o \in Obj => r[recv.o] = ob[recv.o]
         /\ \A h \in Thread : fi[h].o \in Obj => r[fi[h].o] = ob[fi[h].o]
  BY DEF Referenced

\* A thread ends: its object may be collected, and nothing else changes.
LEMMA TypedEnded ==
  ASSUME TypeInvariant, NEW th \in Thread, fin[th].pc # "idle",
         fin' = [fin EXCEPT ![th] = Ended(fin[th])],
         obj' = Referenced(obj, transfers, fin'),
         UNCHANGED <<transfers, sigIndex, queue, recv, completed, journalDirty,
                     journal, part, temp, final, file, told, restarts>>
  PROVE  TypeInvariant'
  <1>1. /\ fin' \in [Thread -> FinRec]
        /\ \A h \in Thread : h # th => fin'[h] = fin[h]
        /\ fin'[th].pc = "dead" /\ fin'[th].o = NoObj /\ fin'[th].tid = fin[th].tid
        /\ fin'[th].sig = fin[th].sig /\ fin'[th].part = fin[th].part
    <2>1. fin[th] \in FinRec
      BY DEF TypeInvariant, TypeOK
    <2>2. /\ Ended(fin[th]) \in FinRec /\ Ended(fin[th]).pc = "dead" /\ Ended(fin[th]).o = NoObj
          /\ Ended(fin[th]).tid = fin[th].tid
          /\ Ended(fin[th]).sig = fin[th].sig /\ Ended(fin[th]).part = fin[th].part
      BY <2>1 DEF Ended, FinRec
    <2>. QED
      BY <2>2 DEF TypeInvariant, TypeOK
  <1>2. \A h \in Thread : fin'[h].o = NoObj \/ fin'[h].o = fin[h].o
    BY <1>1
  <1>3. obj \in [Obj -> TransferRec \cup {NoObj}]
    BY DEF TypeInvariant, TypeOK
  <1>4. /\ obj' \in [Obj -> TransferRec \cup {NoObj}]
        /\ \A o \in Obj : obj'[o] # NoObj => obj'[o] = obj[o]
        /\ \A t \in Tid : transfers[t] \in Obj => obj'[transfers[t]] = obj[transfers[t]]
        /\ \A k \in 1 .. Len(queue) : queue[k] \in Obj => obj'[queue[k]] = obj[queue[k]]
        /\ recv.o \in Obj => obj'[recv.o] = obj[recv.o]
        /\ \A h \in Thread : fin'[h].o \in Obj => obj'[fin'[h].o] = obj[fin'[h].o]
    <2>1. obj' = Referenced(obj, transfers, fin')
      OBVIOUS
    <2>. QED
      BY ONLY <1>3, <2>1, ReferencedTyped
  <1>5. TypeOK'
    <2>1. \A o \in Obj : obj'[o] # NoObj /\ obj'[o].finalized => obj'[o].map = NoInode
      BY <1>4 DEF TypeInvariant, TypeOK
    <2>. QED
      BY <1>1, <1>4, <2>1 DEF TypeInvariant, TypeOK
  <1>6. HeldAllocated'
    BY <1>4 DEF TypeInvariant, HeldAllocated
  <1>7. ReferencesAllocated'
    <2>1. UNCHANGED <<transfers, queue, recv>>
      OBVIOUS
    <2>2. TypeOK /\ ReferencesAllocated
      BY DEF TypeInvariant
    <2>. QED
      BY ONLY <1>2, <1>4, <2>1, <2>2, ReferencesAreObjects DEF ReferencesAllocated
  <1>8. StationsFilled'
    BY <1>1 DEF TypeInvariant, StationsFilled
  <1>. QED
    BY <1>5, <1>6, <1>7, <1>8 DEF TypeInvariant

LEMMA TypedMissing ==
  ASSUME TypeInvariant, NEW th \in Thread, PartMissing(th)
  PROVE  TypeInvariant'
  BY TypedEnded DEF PartMissing, disk

LEMMA TypedLinkToItself ==
  ASSUME TypeInvariant, NEW th \in Thread, LinkToItself(th)
  PROVE  TypeInvariant'
  BY TypedEnded DEF LinkToItself, disk

LEMMA TypedHash ==
  ASSUME TypeInvariant, NEW th \in Thread, Hash(th)
  PROVE  TypeInvariant'
  <1>1. PICK next \in {"link", "place", "unlink"} : fin' = [fin EXCEPT ![th].pc = next]
    BY DEF Hash
  <1>2. UNCHANGED <<transfers, sigIndex, obj, queue, recv, completed, journalDirty,
                    journal, part, temp, final, file, told, restarts>>
    BY DEF Hash, disk
  <1>3. /\ fin' \in [Thread -> FinRec]
        /\ \A h \in Thread : /\ fin'[h].o = fin[h].o /\ fin'[h].tid = fin[h].tid
                             /\ fin'[h].sig = fin[h].sig /\ fin'[h].part = fin[h].part
                             /\ h # th => fin'[h] = fin[h]
    BY <1>1, MoveTyped
  <1>4. TypeOK'
    BY <1>2, <1>3 DEF TypeInvariant, TypeOK
  <1>5. HeldAllocated'
    BY <1>2 DEF TypeInvariant, HeldAllocated
  <1>6. ReferencesAllocated'
    BY <1>1, <1>2, <1>3 DEF TypeInvariant, ReferencesAllocated
  <1>7. fin[th].pc = "hash"
    BY DEF Hash
  <1>8. StationsFilled'
    BY <1>1, <1>2, <1>3, <1>7 DEF TypeInvariant, StationsFilled
  <1>. QED
    BY <1>4, <1>5, <1>6, <1>8 DEF TypeInvariant

LEMMA TypedLink ==
  ASSUME TypeInvariant, NEW th \in Thread, Link(th)
  PROVE  TypeInvariant'
  <1>. DEFINE f == fin[th]
  <1>1. /\ f.pc = "link" /\ f.tid \in Tid /\ f.sig \in Sig /\ f.part \in Tid
        /\ part[f.part] # NoInode /\ TempName(f) \in Tid \X Name
    BY ManifestAssumption DEF Link, TempName, TypeInvariant, StationsFilled
  <1>2. /\ fin' = [fin EXCEPT ![th].pc = "place"]
        /\ temp' = [temp EXCEPT ![TempName(f)] = part[f.part]]
        /\ UNCHANGED <<transfers, sigIndex, obj, queue, recv, completed, journalDirty,
                       journal, part, final, file, told, restarts>>
    BY DEF Link
  <1>3. /\ fin' \in [Thread -> FinRec]
        /\ \A h \in Thread : /\ fin'[h].o = fin[h].o /\ fin'[h].tid = fin[h].tid
                             /\ fin'[h].sig = fin[h].sig /\ fin'[h].part = fin[h].part
                             /\ h # th => fin'[h] = fin[h]
    BY <1>2, MoveTyped
  <1>4. /\ temp' \in [Tid \X Name -> Inode \cup {NoInode}]
        /\ \A x \in Tid \X Name : temp'[x] = temp[x] \/ temp'[x] = part[f.part]
    BY <1>1, <1>2 DEF TypeInvariant, TypeOK
  <1>5. TypeOK'
    BY <1>2, <1>3, <1>4 DEF TypeInvariant, TypeOK
  <1>6. HeldAllocated'
    BY <1>1, <1>2, <1>4 DEF TypeInvariant, HeldAllocated
  <1>7. ReferencesAllocated'
    BY <1>2, <1>3 DEF TypeInvariant, ReferencesAllocated
  <1>8. StationsFilled'
    BY <1>1, <1>2, <1>3 DEF TypeInvariant, StationsFilled
  <1>. QED
    BY <1>5, <1>6, <1>7, <1>8 DEF TypeInvariant

\* A file takes other contents, and the finalization moves on.
LEMMA TypedWrite ==
  ASSUME TypeInvariant, NEW th \in Thread, fin[th].pc \in {"link", "copy"},
         NEW pc \in {"copy", "place"}, fin' = [fin EXCEPT ![th].pc = pc],
         NEW i, NEW g \in File, file' = [file EXCEPT ![i] = g],
         UNCHANGED <<transfers, sigIndex, obj, queue, recv, completed, journalDirty,
                     journal, part, temp, final, told, restarts>>
  PROVE  TypeInvariant'
  <1>1. /\ fin' \in [Thread -> FinRec]
        /\ \A h \in Thread : /\ fin'[h].o = fin[h].o /\ fin'[h].tid = fin[h].tid
                             /\ fin'[h].sig = fin[h].sig /\ fin'[h].part = fin[h].part
                             /\ h # th => fin'[h] = fin[h]
    BY MoveTyped
  <1>2. /\ file' \in [Inode -> File \cup {Free}]
        /\ \A j \in Inode : file[j] # Free => file'[j] # Free
    BY NoneAssumption DEF TypeInvariant, TypeOK
  <1>3. TypeOK'
    BY <1>1, <1>2 DEF TypeInvariant, TypeOK
  <1>4. HeldAllocated'
    <2>1. \A z \in Obj : obj[z] # NoObj => obj[z].map \in Inode \cup {NoInode}
      BY DEF TypeInvariant, TypeOK, TransferRec
    <2>. QED
      BY <1>2, <2>1 DEF TypeInvariant, TypeOK, HeldAllocated
  <1>5. ReferencesAllocated'
    BY <1>1 DEF TypeInvariant, ReferencesAllocated
  <1>6. StationsFilled'
    BY <1>1 DEF TypeInvariant, StationsFilled
  <1>. QED
    BY <1>3, <1>4, <1>5, <1>6 DEF TypeInvariant

LEMMA TypedOpenCopy ==
  ASSUME TypeInvariant, NEW th \in Thread, OpenCopy(th)
  PROVE  TypeInvariant'
  BY TypedWrite, NoBytesTyped DEF OpenCopy

LEMMA TypedCopy ==
  ASSUME TypeInvariant, NEW th \in Thread, Copy(th)
  PROVE  TypeInvariant'
  <1>. DEFINE p == part[fin[th].part]
  <1>1. fin[th].pc = "copy" /\ fin[th].part \in Tid /\ p \in Inode /\ file[p] # Free
    BY DEF Copy, TypeInvariant, TypeOK, StationsFilled, HeldAllocated
  <1>2. [bytes |-> file[p].bytes, mtime |-> Now] \in File
    BY <1>1 DEF TypeInvariant, TypeOK, File
  <1>. QED
    BY <1>1, <1>2, TypedWrite DEF Copy

LEMMA TypedPlace ==
  ASSUME TypeInvariant, NEW th \in Thread, Place(th)
  PROVE  TypeInvariant'
  <1>. DEFINE f == fin[th]
              n == FileName[f.sig]
  <1>1. /\ f.pc = "place" /\ f.tid \in Tid /\ f.sig \in Sig /\ f.part \in Tid
        /\ n \in Name /\ TempName(f) \in Tid \X Name
    BY ManifestAssumption DEF Place, TempName, TypeInvariant, TypeOK, StationsFilled
  <1>2. /\ fin' = [fin EXCEPT ![th].pc = "utime"]
        /\ file' = Reclaim(file, Held(part', temp', final', obj'))
        /\ UNCHANGED <<transfers, sigIndex, obj, queue, recv, completed, journalDirty,
                       journal, told, restarts>>
    BY DEF Place
  <1>3. /\ fin' \in [Thread -> FinRec]
        /\ \A h \in Thread : /\ fin'[h].o = fin[h].o /\ fin'[h].tid = fin[h].tid
                             /\ fin'[h].sig = fin[h].sig /\ fin'[h].part = fin[h].part
                             /\ h # th => fin'[h] = fin[h]
    BY <1>2, MoveTyped
  <1>4. /\ part' \in [Tid -> Inode \cup {NoInode}] /\ final' \in [Name -> Inode \cup {NoInode}]
        /\ temp' \in [Tid \X Name -> Inode \cup {NoInode}]
        /\ \A t \in Tid : part'[t] # NoInode => part'[t] = part[t]
        /\ \A x \in Tid \X Name : temp'[x] # NoInode => temp'[x] = temp[x]
        /\ \A m \in Name : \/ final'[m] = final[m] \/ final'[m] = part[f.part]
                           \/ final'[m] = temp[TempName(f)]
    <2>1. CASE KeepPart
      <3>1. /\ final' = [final EXCEPT ![n] = temp[TempName(f)]] /\ part' = part
            /\ temp' = temp \/ temp' = [temp EXCEPT ![TempName(f)] = NoInode]
        BY <2>1 DEF Place
      <3>. QED
        BY <1>1, <3>1 DEF TypeInvariant, TypeOK
    <2>2. CASE ~KeepPart
      <3>1. /\ final' = [final EXCEPT ![n] = part[f.part]] /\ temp' = temp
            /\ part' = [part EXCEPT ![f.part] = NoInode]
        BY <2>2 DEF Place
      <3>. QED
        BY <1>1, <3>1 DEF TypeInvariant, TypeOK
    <2>. QED
      BY <2>1, <2>2
  <1>5. file \in [Inode -> File \cup {Free}] /\ file' \in [Inode -> File \cup {Free}]
    BY <1>2, ReclaimTyped DEF TypeInvariant, TypeOK
  <1>6. TypeOK'
    BY <1>2, <1>3, <1>4, <1>5 DEF TypeInvariant, TypeOK
  <1>7. HeldAllocated'
    <2>1. \A t \in Tid : part'[t] # NoInode => file[part'[t]] # Free
      BY <1>4 DEF TypeInvariant, HeldAllocated
    <2>2. \A x \in Tid \X Name : temp'[x] # NoInode => file[temp'[x]] # Free
      BY <1>4 DEF TypeInvariant, HeldAllocated
    <2>3. \A m \in Name : final'[m] # NoInode => file[final'[m]] # Free
      BY <1>1, <1>4 DEF TypeInvariant, HeldAllocated
    <2>4. \A o \in Obj : obj'[o] # NoObj /\ obj'[o].map # NoInode => file[obj'[o].map] # Free
      BY <1>2 DEF TypeInvariant, HeldAllocated
    <2>. QED
      BY <1>2, <1>5, <1>6, <2>1, <2>2, <2>3, <2>4, ReclaimAllocated
  <1>8. ReferencesAllocated'
    BY <1>2, <1>3 DEF TypeInvariant, ReferencesAllocated
  <1>9. StationsFilled'
    BY <1>1, <1>2, <1>3 DEF TypeInvariant, StationsFilled
  <1>. QED
    BY <1>6, <1>7, <1>8, <1>9 DEF TypeInvariant

LEMMA TypedUtime ==
  ASSUME TypeInvariant, NEW th \in Thread, Utime(th)
  PROVE  TypeInvariant'
  <1>. DEFINE f == fin[th]
              i == final[FileName[f.sig]]
  <1>1. f.pc = "utime" /\ f.sig \in Sig /\ SourceMtime[f.sig] \in Mtime
    BY ManifestAssumption DEF Utime, TypeInvariant, StationsFilled
  <1>2. /\ file' = [file EXCEPT ![i].mtime = SourceMtime[f.sig]]
        /\ fin' = [fin EXCEPT ![th].pc = "finish", ![th].state = "COMPLETE"]
        /\ UNCHANGED <<transfers, sigIndex, obj, queue, recv, completed, journalDirty,
                       journal, part, temp, final, told, restarts>>
    BY DEF Utime
  <1>3. /\ file' \in [Inode -> File \cup {Free}]
        /\ \A j \in Inode : file[j] # Free => file'[j] # Free
    <2>1. i = NoInode \/ file[i] \in File
      BY <1>1, ManifestAssumption DEF TypeInvariant, TypeOK, HeldAllocated
    <2>2. CASE i = NoInode
      BY <1>2, <2>2, NoneAssumption DEF TypeInvariant, TypeOK
    <2>3. CASE file[i] \in File
      <3>1. [file[i] EXCEPT !.mtime = SourceMtime[f.sig]] \in File
        BY <1>1, <2>3 DEF File
      <3>. QED
        BY <1>2, <3>1, NoneAssumption DEF TypeInvariant, TypeOK
    <2>. QED
      BY <2>1, <2>2, <2>3
  <1>4. /\ fin' \in [Thread -> FinRec]
        /\ \A h \in Thread : /\ fin'[h].o = fin[h].o /\ fin'[h].tid = fin[h].tid
                             /\ fin'[h].sig = fin[h].sig /\ fin'[h].part = fin[h].part
                             /\ h # th => fin'[h] = fin[h]
    <2>1. fin' = [fin EXCEPT ![th] = [f EXCEPT !.pc = "finish", !.state = "COMPLETE"]]
      BY <1>2
    <2>. QED
      BY <2>1, StepTyped DEF TypeInvariant, State
  <1>5. TypeOK'
    BY <1>2, <1>3, <1>4 DEF TypeInvariant, TypeOK
  <1>6. HeldAllocated'
    <2>1. \A z \in Obj : obj[z] # NoObj => obj[z].map \in Inode \cup {NoInode}
      BY DEF TypeInvariant, TypeOK, TransferRec
    <2>. QED
      BY <1>2, <1>3, <2>1 DEF TypeInvariant, TypeOK, HeldAllocated
  <1>7. ReferencesAllocated'
    <2>1. ReferencesAllocated /\ \A h \in Thread : fin'[h].o = fin[h].o
      BY <1>4 DEF TypeInvariant
    <2>. QED
      BY <1>2, <2>1 DEF ReferencesAllocated
  <1>8. StationsFilled'
    BY <1>1, <1>2, <1>4 DEF TypeInvariant, StationsFilled
  <1>. QED
    BY <1>5, <1>6, <1>7, <1>8 DEF TypeInvariant

LEMMA TypedUnlink ==
  ASSUME TypeInvariant, NEW th \in Thread, Unlink(th)
  PROVE  TypeInvariant'
  <1>. DEFINE f == fin[th]
  <1>1. f.pc = "unlink" /\ f.part \in Tid
    BY DEF Unlink, TypeInvariant, StationsFilled
  <1>2. /\ fin' = [fin EXCEPT ![th].pc = "finish", ![th].state = "HASH_MISMATCH"]
        /\ part' = [part EXCEPT ![f.part] = NoInode]
        /\ file' = Reclaim(file, Held(part', temp', final', obj'))
        /\ UNCHANGED <<transfers, sigIndex, obj, queue, recv, completed, journalDirty,
                       journal, temp, final, told, restarts>>
    BY DEF Unlink
  <1>3. /\ fin' \in [Thread -> FinRec]
        /\ \A h \in Thread : /\ fin'[h].o = fin[h].o /\ fin'[h].tid = fin[h].tid
                             /\ fin'[h].sig = fin[h].sig /\ fin'[h].part = fin[h].part
                             /\ h # th => fin'[h] = fin[h]
    <2>1. fin' = [fin EXCEPT ![th] = [f EXCEPT !.pc = "finish", !.state = "HASH_MISMATCH"]]
      BY <1>2
    <2>. QED
      BY <2>1, StepTyped DEF TypeInvariant, State
  <1>4. /\ part' \in [Tid -> Inode \cup {NoInode}]
        /\ \A t \in Tid : part'[t] # NoInode => part'[t] = part[t]
    BY <1>1, <1>2 DEF TypeInvariant, TypeOK
  <1>5. file \in [Inode -> File \cup {Free}] /\ file' \in [Inode -> File \cup {Free}]
    BY <1>2, ReclaimTyped DEF TypeInvariant, TypeOK
  <1>6. TypeOK'
    BY <1>2, <1>3, <1>4, <1>5 DEF TypeInvariant, TypeOK
  <1>7. HeldAllocated'
    <2>1. \A t \in Tid : part'[t] # NoInode => file[part'[t]] # Free
      BY <1>4 DEF TypeInvariant, HeldAllocated
    <2>2. /\ \A n \in Name : final'[n] # NoInode => file[final'[n]] # Free
          /\ \A x \in Tid \X Name : temp'[x] # NoInode => file[temp'[x]] # Free
      BY <1>2 DEF TypeInvariant, HeldAllocated
    <2>3. \A o \in Obj : obj'[o] # NoObj /\ obj'[o].map # NoInode => file[obj'[o].map] # Free
      BY <1>2 DEF TypeInvariant, HeldAllocated
    <2>. QED
      BY <1>2, <1>5, <1>6, <2>1, <2>2, <2>3, ReclaimAllocated
  <1>8. ReferencesAllocated'
    BY <1>2, <1>3 DEF TypeInvariant, ReferencesAllocated
  <1>9. StationsFilled'
    BY <1>1, <1>2, <1>3 DEF TypeInvariant, StationsFilled
  <1>. QED
    BY <1>6, <1>7, <1>8, <1>9 DEF TypeInvariant

LEMMA TypedFinish ==
  ASSUME TypeInvariant, NEW th \in Thread, Finish(th)
  PROVE  TypeInvariant'
  <1>. DEFINE f == fin[th]
              marked == [obj EXCEPT ![f.o].done = (f.state = "COMPLETE")]
  <1>1. /\ f.pc = "finish" /\ f \in FinRec /\ f.o \in Obj /\ f.tid \in Tid /\ f.sig \in Sig
        /\ f.state \in State
    BY DEF Finish, TypeInvariant, TypeOK, StationsFilled, FinRec
  <1>2. obj[f.o] \in TransferRec
    BY <1>1, NoneAssumption DEF TypeInvariant, TypeOK, ReferencesAllocated
  <1>3. /\ marked \in [Obj -> TransferRec \cup {NoObj}]
        /\ \A o \in Obj : marked[o] # NoObj <=> obj[o] # NoObj
        /\ \A o \in Obj : obj[o] # NoObj => /\ marked[o].map = obj[o].map
                                            /\ marked[o].finalized = obj[o].finalized
    <2>1. [obj[f.o] EXCEPT !.done = (f.state = "COMPLETE")] \in TransferRec
      BY <1>2 DEF TransferRec
    <2>2. /\ [obj[f.o] EXCEPT !.done = (f.state = "COMPLETE")].map = obj[f.o].map
          /\ [obj[f.o] EXCEPT !.done = (f.state = "COMPLETE")].finalized = obj[f.o].finalized
      BY <1>2 DEF TransferRec
    <2>. QED
      BY <1>1, <1>2, <2>1, <2>2, NoneAssumption DEF TypeInvariant, TypeOK
  <1>4. /\ fin' = [fin EXCEPT ![th].pc = "report", ![th].o = NoObj]
        /\ transfers' = [transfers EXCEPT ![f.tid] = NoObj]
        /\ completed' = completed \cup {[tid |-> f.tid, sig |-> f.sig, state |-> f.state]}
        /\ obj' = Referenced(marked, transfers', fin')
        /\ file' = Reclaim(file, Held(part', temp', final', obj'))
        /\ journal' = JournalOf(transfers', obj')
        /\ journalDirty' = FALSE
        /\ UNCHANGED <<queue, recv, part, temp, final, told, restarts>>
    BY DEF Finish
  <1>5. /\ fin' \in [Thread -> FinRec]
        /\ \A h \in Thread : h # th => fin'[h] = fin[h]
        /\ fin'[th].pc = "report" /\ fin'[th].o = NoObj
        /\ fin'[th].tid = f.tid /\ fin'[th].sig = f.sig /\ fin'[th].part = f.part
    <2>1. [f EXCEPT !.pc = "report", !.o = NoObj] \in FinRec
      BY <1>1 DEF FinRec
    <2>2. fin' = [fin EXCEPT ![th] = [f EXCEPT !.pc = "report", !.o = NoObj]]
      BY <1>4
    <2>. QED
      BY <1>1, <2>1, <2>2 DEF TypeInvariant, TypeOK, FinRec
  <1>6. /\ transfers' \in [Tid -> Obj \cup {NoObj}]
        /\ \A t \in Tid : transfers'[t] # NoObj => transfers'[t] = transfers[t]
    BY <1>1, <1>4 DEF TypeInvariant, TypeOK
  <1>7. sigIndex' \in [Sig -> Tid \cup {NoTid}]
    BY DEF Finish, TypeInvariant, TypeOK
  <1>8. /\ obj' \in [Obj -> TransferRec \cup {NoObj}]
        /\ \A o \in Obj : obj'[o] # NoObj => obj'[o] = marked[o]
        /\ \A t \in Tid : transfers'[t] \in Obj => obj'[transfers'[t]] = marked[transfers'[t]]
        /\ \A k \in 1 .. Len(queue) : queue[k] \in Obj => obj'[queue[k]] = marked[queue[k]]
        /\ recv.o \in Obj => obj'[recv.o] = marked[recv.o]
        /\ \A h \in Thread : fin'[h].o \in Obj => obj'[fin'[h].o] = marked[fin'[h].o]
    <2>. HIDE DEF marked
    <2>1. obj' = Referenced(marked, transfers', fin')
      BY <1>4
    <2>. QED
      BY <1>3, <2>1 DEF Referenced
  <1>9. ReferencesAllocated'
    <2>. HIDE DEF marked
    <2>1. UNCHANGED <<queue, recv>>
      BY <1>4
    <2>2. \A h \in Thread : fin'[h].o = NoObj \/ fin'[h].o = fin[h].o
      BY <1>5
    <2>. QED
      BY <1>3, <1>6, <1>8, <2>1, <2>2, ReferencesAreObjects DEF TypeInvariant, ReferencesAllocated
  <1>10. journal' \subseteq JournalRec
    <2>1. journal' = JournalOf(transfers', obj')
      BY <1>4
    <2>2. \A t \in Tid : transfers'[t] # NoObj => obj'[transfers'[t]] # NoObj
      BY <1>9 DEF ReferencesAllocated
    <2>. QED
      BY <1>6, <1>8, <2>1, <2>2, JournalOfTyped
  <1>11. file \in [Inode -> File \cup {Free}] /\ file' \in [Inode -> File \cup {Free}]
    BY <1>4, ReclaimTyped DEF TypeInvariant, TypeOK
  <1>12. completed' \subseteq [tid : Tid, sig : Sig, state : State]
    BY <1>1, <1>4 DEF TypeInvariant, TypeOK
  <1>13. TypeOK'
    <2>. HIDE DEF marked
    <2>1. journalDirty' \in BOOLEAN /\ UNCHANGED <<queue, recv, part, temp, final, told, restarts>>
      BY <1>4
    <2>2. \A o \in Obj : obj'[o] # NoObj /\ obj'[o].finalized => obj'[o].map = NoInode
      BY <1>3, <1>8 DEF TypeInvariant, TypeOK
    <2>. QED
      BY <1>5, <1>6, <1>7, <1>8, <1>10, <1>11, <1>12, <2>1, <2>2 DEF TypeInvariant, TypeOK
  <1>14. HeldAllocated'
    <2>. HIDE DEF marked
    <2>0. /\ UNCHANGED <<part, temp, final>>
          /\ file' = Reclaim(file, Held(part', temp', final', obj'))
      BY <1>4
    <2>1. \A t \in Tid : part'[t] # NoInode => file[part'[t]] # Free
      BY <2>0 DEF TypeInvariant, HeldAllocated
    <2>2. /\ \A n \in Name : final'[n] # NoInode => file[final'[n]] # Free
          /\ \A x \in Tid \X Name : temp'[x] # NoInode => file[temp'[x]] # Free
      BY <2>0 DEF TypeInvariant, HeldAllocated
    <2>3. \A o \in Obj : obj'[o] # NoObj /\ obj'[o].map # NoInode => file[obj'[o].map] # Free
      BY <1>3, <1>8 DEF TypeInvariant, HeldAllocated
    <2>. QED
      BY <2>0, <1>11, <1>13, <2>1, <2>2, <2>3, ReclaimAllocated
  <1>15. StationsFilled'
    BY <1>1, <1>4, <1>5 DEF TypeInvariant, StationsFilled
  <1>. QED
    BY <1>9, <1>13, <1>14, <1>15 DEF TypeInvariant

LEMMA TypedReport ==
  ASSUME TypeInvariant, NEW th \in Thread, Report(th)
  PROVE  TypeInvariant'
  <1>. DEFINE f == fin[th]
  <1>1. f.sig \in Sig /\ f.state \in State
    BY DEF Report, TypeInvariant, TypeOK, StationsFilled, FinRec
  <1>2. /\ told' = Tell(f.tid, f.sig, f.state)
        /\ fin' = [fin EXCEPT ![th] = IdleFin]
        /\ UNCHANGED <<transfers, sigIndex, obj, queue, recv, completed, journalDirty,
                       journal, part, temp, final, file, restarts>>
    BY DEF Report, disk
  <1>3. told' \in [Tid -> [sig : Sig \cup {NoSig}, state : State]]
    BY <1>1, <1>2, TellTyped
  <1>4. /\ fin' \in [Thread -> FinRec]
        /\ \A h \in Thread : fin'[h] = fin[h] \/ fin'[h] = IdleFin
    BY <1>2, IdleTyped DEF TypeInvariant, TypeOK
  <1>5. TypeOK'
    BY <1>2, <1>3, <1>4 DEF TypeInvariant, TypeOK
  <1>6. HeldAllocated' /\ ReferencesAllocated' /\ StationsFilled'
    BY <1>2, <1>4 DEF TypeInvariant, HeldAllocated, ReferencesAllocated, StationsFilled, IdleFin
  <1>. QED
    BY <1>5, <1>6 DEF TypeInvariant

-----------------------------------------------------------------------------
(* TypeInvariant: the maintenance thread and restarts. *)

LEMMA TypedFlushJournal ==
  ASSUME TypeInvariant, FlushJournal
  PROVE  TypeInvariant'
  <1>1. journal' \subseteq JournalRec
    BY JournalOfTyped DEF FlushJournal, TypeInvariant, TypeOK, ReferencesAllocated
  <1>2. TypeOK'
    BY <1>1 DEF FlushJournal, TypeInvariant, TypeOK
  <1>3. HeldAllocated' /\ ReferencesAllocated' /\ StationsFilled'
    BY DEF FlushJournal, TypeInvariant, HeldAllocated, ReferencesAllocated, StationsFilled
  <1>. QED
    BY <1>2, <1>3 DEF TypeInvariant

LEMMA TypedFlushMmap ==
  ASSUME TypeInvariant, NEW t \in Tid, FlushMmap(t)
  PROVE  TypeInvariant'
  <1>. DEFINE o == transfers[t]
              y == [obj[o] EXCEPT !.unsynced = {}]
  <1>1. o \in Obj /\ obj[o] \in TransferRec /\ obj[o] # NoObj
    BY NoneAssumption DEF FlushMmap, TypeInvariant, TypeOK, ReferencesAllocated
  <1>2. y \in TransferRec /\ y.map = obj[o].map /\ y.finalized = obj[o].finalized
    BY <1>1 DEF TransferRec
  <1>3. /\ obj' = [obj EXCEPT ![o] = y]
        /\ UNCHANGED <<transfers, sigIndex, queue, recv, fin, completed, journalDirty,
                       journal, part, temp, final, file, told, restarts>>
    BY DEF FlushMmap, disk
  <1>4. /\ obj' \in [Obj -> TransferRec \cup {NoObj}]
        /\ \A z \in Obj : obj'[z] # NoObj /\ obj'[z].finalized => obj'[z].map = NoInode
        /\ \A z \in Obj : obj'[z] # NoObj <=> obj[z] # NoObj
        /\ \A z \in Obj : obj[z] # NoObj => obj'[z].map = obj[z].map
    BY <1>1, <1>2, <1>3, TypedObject
  <1>5. TypeOK'
    BY <1>3, <1>4 DEF TypeInvariant, TypeOK
  <1>6. HeldAllocated'
    BY <1>3, <1>4, MapsAllocated
  <1>7. ReferencesAllocated' /\ StationsFilled'
    BY <1>3, <1>4, ReferencesAreObjects DEF TypeInvariant, ReferencesAllocated, StationsFilled
  <1>. QED
    BY <1>5, <1>6, <1>7 DEF TypeInvariant

\* What is left of the files is files, and nothing that was one is gone.
LEMMA SurvivingTyped ==
  ASSUME TypeOK, NEW lost
  PROVE  /\ Surviving(lost) \in [Inode -> File \cup {Free}]
         /\ \A i \in Inode : file[i] # Free => Surviving(lost)[i] # Free
  <1>. DEFINE g(i) == [bytes |-> [c \in DOMAIN file[i].bytes |->
                                   IF <<i, c>> \in lost THEN Hole ELSE file[i].bytes[c]],
                      mtime |-> file[i].mtime]
  <1>1. ASSUME NEW i \in Inode, file[i] # Free PROVE g(i) \in File
    <2>1. file[i] \in File
      BY <1>1 DEF TypeOK
    <2>2. file[i].bytes \in Content /\ file[i].mtime \in Mtime \cup {Now}
      BY <2>1 DEF File
    <2>3. g(i).bytes \in Content
      <3>1. CASE file[i].bytes = NoBytes
        <4>1. g(i).bytes = NoBytes
          BY <3>1 DEF NoBytes
        <4>. QED
          BY <4>1, NoBytesTyped
      <3>2. CASE \E s \in Sig : file[i].bytes \in [Chunks(s) -> Sig \cup {Hole}]
        <4>1. PICK s \in Sig : file[i].bytes \in [Chunks(s) -> Sig \cup {Hole}]
          BY <3>2
        <4>2. g(i).bytes \in [Chunks(s) -> Sig \cup {Hole}]
          BY <4>1
        <4>. HIDE DEF g
        <4>. QED
          BY <4>2 DEF Content
      <3>. QED
        BY <2>2, <3>1, <3>2, ContentCases
    <2>4. g(i) = [bytes |-> g(i).bytes, mtime |-> file[i].mtime]
      OBVIOUS
    <2>. HIDE DEF g
    <2>. QED
      BY <2>2, <2>3, <2>4 DEF File
  <1>2. Surviving(lost) = [i \in Inode |-> IF file[i] = Free THEN Free ELSE g(i)]
    BY DEF Surviving
  <1>. HIDE DEF g
  <1>. QED
    BY <1>1, <1>2, NoneAssumption

\* A restored transfer, and the inode it maps.
LEMMA RestoredTyped ==
  ASSUME TypeOK, NEW r \in journal, NEW fl, Restorable(r, fl)
  PROVE  /\ Restored(r) \in TransferRec /\ Restored(r) # NoObj
         /\ Restored(r).tid = r.tid /\ Restored(r).sig = r.sig
         /\ Restored(r).part = r.part /\ Restored(r).got = r.got
         /\ Restored(r).finalized = FALSE
         /\ Restored(r).map = IF Chunks(r.sig) = {} THEN NoInode ELSE part[r.part]
         /\ part[r.part] \in Inode
  <1>1. r \in JournalRec
    BY DEF TypeOK
  <1>2. part[r.part] \in Inode
    BY <1>1 DEF TypeOK, Restorable, JournalRec
  <1>. DEFINE map == IF Chunks(r.sig) = {} THEN NoInode ELSE part[r.part]
  <1>3. map \in Inode \cup {NoInode} /\ Restored(r) = Transfer(r.tid, r.sig, r.part, r.addr, r.got, map)
    BY <1>2 DEF Restored
  <1>. HIDE DEF map
  <1>4. /\ Restored(r) \in TransferRec
        /\ Restored(r).tid = r.tid /\ Restored(r).sig = r.sig
        /\ Restored(r).part = r.part /\ Restored(r).got = r.got
        /\ Restored(r).finalized = FALSE /\ Restored(r).map = map
    BY <1>1, <1>3 DEF Transfer, TransferRec, JournalRec
  <1>. QED
    BY <1>2, <1>4, NoneAssumption DEF map

LEMMA TypedRestart ==
  ASSUME TypeInvariant, Restart
  PROVE  TypeInvariant'
  <1>1. TypeOK
    BY DEF TypeInvariant
  <1>2. PICK lost \in SUBSET (IF PowerLoss THEN Unsynced ELSE {}) :
          LET fl == Surviving(lost)
              good == {r \in journal : Restorable(r, fl)}
          IN  \E own \in [good -> Obj] :
                /\ \A r, q \in good : own[r] = own[q] => r = q
                /\ obj' = [o \in Obj |->
                             IF \E r \in good : own[r] = o
                             THEN Restored(CHOOSE r \in good : own[r] = o)
                             ELSE NoObj]
                /\ transfers' = [t \in Tid |->
                                   IF \E r \in good : r.tid = t
                                   THEN own[CHOOSE r \in good : r.tid = t]
                                   ELSE NoObj]
                /\ sigIndex' = [s \in Sig |->
                                  IF \E r \in good : r.sig = s
                                  THEN (CHOOSE r \in good : r.sig = s).tid
                                  ELSE NoTid]
                /\ file' = Reclaim(fl, Held(part, temp, final, obj'))
    BY DEF Restart
  <1>. DEFINE fl == Surviving(lost)
              good == {r \in journal : Restorable(r, fl)}
  <1>3. PICK own \in [good -> Obj] :
          /\ \A r, q \in good : own[r] = own[q] => r = q
          /\ obj' = [o \in Obj |->
                       IF \E r \in good : own[r] = o
                       THEN Restored(CHOOSE r \in good : own[r] = o)
                       ELSE NoObj]
          /\ transfers' = [t \in Tid |->
                             IF \E r \in good : r.tid = t
                             THEN own[CHOOSE r \in good : r.tid = t]
                             ELSE NoObj]
          /\ sigIndex' = [s \in Sig |->
                            IF \E r \in good : r.sig = s
                            THEN (CHOOSE r \in good : r.sig = s).tid
                            ELSE NoTid]
          /\ file' = Reclaim(fl, Held(part, temp, final, obj'))
    BY <1>2
  <1>4. /\ journal' = JournalOf(transfers', obj')
        /\ journalDirty' = FALSE /\ queue' = <<>> /\ recv' = IdleRecv
        /\ fin' = [th \in Thread |-> IdleFin] /\ completed' = {}
        /\ restarts < MaxRestarts /\ restarts' = restarts + 1
        /\ UNCHANGED <<part, temp, final, told>>
    BY DEF Restart
  <1>5. /\ fl \in [Inode -> File \cup {Free}]
        /\ \A i \in Inode : file[i] # Free => fl[i] # Free
    BY <1>1, SurvivingTyped
  <1>6. \A r \in good : /\ r \in journal /\ Restorable(r, fl)
                        /\ r.tid \in Tid /\ r.part \in Tid
    BY <1>1 DEF TypeOK, JournalRec
  <1>. HIDE DEF fl, good
  <1>7. ASSUME NEW o \in Obj
        PROVE  \/ obj'[o] = NoObj /\ \A r \in good : own[r] # o
               \/ \E r \in good : own[r] = o /\ obj'[o] = Restored(r)
    <2>1. CASE \E r \in good : own[r] = o
      <3>. DEFINE r == CHOOSE r \in good : own[r] = o
      <3>1. r \in good /\ own[r] = o
        BY <2>1
      <3>. QED
        BY <1>3, <2>1, <3>1
    <2>2. CASE ~ \E r \in good : own[r] = o
      BY <1>3, <2>2
    <2>. QED
      BY <2>1, <2>2
  <1>8. ASSUME NEW r \in good
        PROVE  /\ Restored(r) \in TransferRec /\ Restored(r) # NoObj
               /\ Restored(r).finalized = FALSE
               /\ Restored(r).map = NoInode \/ Restored(r).map = part[r.part]
               /\ part[r.part] \in Inode
    BY <1>1, <1>6, RestoredTyped
  <1>9. obj' \in [Obj -> TransferRec \cup {NoObj}]
    <2>1. \A o \in Obj : obj'[o] \in TransferRec \cup {NoObj}
      BY <1>7, <1>8
    <2>2. obj' = [o \in Obj |-> obj'[o]]
      BY <1>3
    <2>. QED
      BY <2>1, <2>2
  <1>10. /\ transfers' \in [Tid -> Obj \cup {NoObj}]
         /\ \A t \in Tid : transfers'[t] # NoObj => obj'[transfers'[t]] # NoObj
    <2>1. ASSUME NEW t \in Tid
          PROVE  \/ transfers'[t] = NoObj
                 \/ \E r \in good : transfers'[t] = own[r]
      <3>1. CASE \E r \in good : r.tid = t
        <4>. DEFINE r == CHOOSE r \in good : r.tid = t
        <4>1. r \in good
          BY <3>1
        <4>2. transfers'[t] = own[r]
          BY <1>3, <3>1
        <4>. QED
          BY <4>1, <4>2
      <3>2. CASE ~ \E r \in good : r.tid = t
        BY <1>3, <3>2
      <3>. QED
        BY <3>1, <3>2
    <2>2. \A r \in good : own[r] \in Obj /\ obj'[own[r]] # NoObj
      BY <1>3, <1>7, <1>8
    <2>3. transfers' = [t \in Tid |-> transfers'[t]]
      BY <1>3
    <2>4. \A t \in Tid : transfers'[t] \in Obj \cup {NoObj}
      BY <2>1, <2>2
    <2>. QED
      BY <2>1, <2>2, <2>3, <2>4
  <1>11. sigIndex' \in [Sig -> Tid \cup {NoTid}]
    <2>1. \A s \in Sig : (\E r \in good : r.sig = s) => (CHOOSE r \in good : r.sig = s) \in good
      OBVIOUS
    <2>. QED
      BY <1>3, <1>6, <2>1
  <1>12. journal' \subseteq JournalRec
    BY <1>4, <1>9, <1>10, JournalOfTyped
  <1>13. file' \in [Inode -> File \cup {Free}]
    BY <1>3, <1>5, ReclaimTyped
  <1>14. TypeOK'
    <2>1. queue' \in Seq(Obj)
      BY <1>4, EmptySeq
    <2>2. fin' \in [Thread -> FinRec]
      BY <1>4, IdleTyped
    <2>3. restarts' \in 0 .. MaxRestarts
      BY <1>1, <1>4, ConfigAssumption DEF TypeOK
    <2>4. \A o \in Obj : obj'[o] # NoObj /\ obj'[o].finalized => obj'[o].map = NoInode
      BY <1>7, <1>8
    <2>. QED
      BY <1>1, <1>4, <1>9, <1>10, <1>11, <1>12, <1>13, <2>1, <2>2, <2>3, <2>4, IdleTyped DEF TypeOK
  <1>15. HeldAllocated'
    <2>1. file' = Reclaim(fl, Held(part', temp', final', obj')) /\ UNCHANGED <<part, temp, final>>
      BY <1>3, <1>4
    <2>2. \A t \in Tid : part'[t] # NoInode => fl[part'[t]] # Free
      BY <1>1, <1>5, <2>1 DEF TypeInvariant, HeldAllocated, TypeOK
    <2>3. /\ \A n \in Name : final'[n] # NoInode => fl[final'[n]] # Free
          /\ \A x \in Tid \X Name : temp'[x] # NoInode => fl[temp'[x]] # Free
      BY <1>1, <1>5, <2>1 DEF TypeInvariant, HeldAllocated, TypeOK
    <2>4. \A o \in Obj : obj'[o] # NoObj /\ obj'[o].map # NoInode => fl[obj'[o].map] # Free
      <3>. SUFFICES ASSUME NEW o \in Obj, obj'[o] # NoObj, obj'[o].map # NoInode
                    PROVE  fl[obj'[o].map] # Free
        OBVIOUS
      <3>1. PICK r \in good : obj'[o] = Restored(r)
        BY <1>7
      <3>2. obj'[o].map = part[r.part] /\ part[r.part] \in Inode
        BY <1>8, <3>1
      <3>3. file[part[r.part]] # Free
        BY <1>6, <3>2, NoneAssumption DEF TypeInvariant, HeldAllocated
      <3>. QED
        BY <1>5, <3>2, <3>3
    <2>. QED
      BY <1>5, <1>14, <2>1, <2>2, <2>3, <2>4, ReclaimAllocated
  <1>16. ReferencesAllocated'
    BY <1>4, <1>10 DEF ReferencesAllocated, IdleRecv, IdleFin
  <1>17. StationsFilled'
    BY <1>4 DEF StationsFilled, IdleRecv, IdleFin
  <1>. QED
    BY <1>14, <1>15, <1>16, <1>17 DEF TypeInvariant

-----------------------------------------------------------------------------
LEMMA TypedStep ==
  ASSUME TypeInvariant, [Next]_vars
  PROVE  TypeInvariant'
  <1>1. CASE ReceiveThread
    <2>1. \A x \in Sessions : x[1] \in Tid /\ x[2] \in Sig
      BY ManifestAssumption
    <2>. QED
      BY <1>1, <2>1, TypedPresent, TypedAnswer, TypedOther, TypedKnown, TypedResume, TypedOpen,
         TypedTruncate, TypedCreate, TypedData, TypedDataWithoutFile, TypedBeacon, TypedStale, TypedMark, TypedPut
      DEF ReceiveThread
  <1>2. CASE TakeFinalization
    BY <1>2, TypedTake
  <1>3. CASE \E th \in Thread : Finalize(th)
    BY <1>3, TypedMissing, TypedHash, TypedLink, TypedLinkToItself, TypedOpenCopy, TypedCopy,
       TypedPlace, TypedUtime, TypedUnlink, TypedFinish, TypedReport
    DEF Finalize
  <1>4. CASE Maintenance
    BY <1>4, TypedFlushJournal, TypedFlushMmap DEF Maintenance
  <1>5. CASE Restart
    BY <1>5, TypedRestart
  <1>6. CASE UNCHANGED vars
    BY <1>6 DEF vars, TypeInvariant, TypeOK, HeldAllocated, ReferencesAllocated, StationsFilled
  <1>. QED
    BY <1>1, <1>2, <1>3, <1>4, <1>5, <1>6 DEF Next

\* In every reachable state of every instance the variables hold what the code
\* keeps in them, and no reference dangles: every path and map leads to a file
\* that was not reclaimed and every queued or registered object exists.
THEOREM TypeCorrect == Spec => []TypeInvariant
  <1>1. Init => TypeInvariant
    BY TypedInit
  <1>2. TypeInvariant /\ [Next]_vars => TypeInvariant'
    BY TypedStep
  <1>. QED
    BY <1>1, <1>2, PTL DEF Spec

\* The same for the part of it that the runs check.
THEOREM TypesHold == Spec => []TypeOK
  <1>1. TypeInvariant => TypeOK
    BY DEF TypeInvariant
  <1>. QED
    BY <1>1, TypeCorrect, PTL
=============================================================================
