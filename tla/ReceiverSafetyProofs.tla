------------------------- MODULE ReceiverSafetyProofs -------------------------
(***************************************************************************)
(* The safety of Receiver, for every value of the constants in which an id *)
(* stands for one version (OneSigPerTid) and a stop of the process loses   *)
(* no page of the file cache: SoundInvariant is inductive.                 *)
(***************************************************************************)
EXTENDS ReceiverProofs

-----------------------------------------------------------------------------
(* What a step may leave alone. *)

\* The transfers keep what the invariant says of them.
SameObjects ==
  \A o \in Obj :
    /\ obj'[o] # NoObj <=> obj[o] # NoObj
    /\ obj'[o].tid = obj[o].tid /\ obj'[o].sig = obj[o].sig /\ obj'[o].part = obj[o].part
    /\ obj'[o].got = obj[o].got /\ obj'[o].map = obj[o].map
    /\ obj'[o].finalized <=> obj[o].finalized

\* Paths keep their files, and the files that paths name keep their bytes.
SameFiles ==
  /\ part' = part /\ temp' = temp /\ final' = final
  /\ \A t \in Tid : part[t] # NoInode => file'[part[t]].bytes = file[part[t]].bytes
  /\ \A x \in Tid \X Name : temp[x] # NoInode => file'[temp[x]].bytes = file[temp[x]].bytes
  /\ \A n \in Name : final[n] # NoInode => file'[final[n]].bytes = file[final[n]].bytes

\* File i keeps its size and the chunks written to it.
Stays(i) ==
  /\ DOMAIN file'[i].bytes = DOMAIN file[i].bytes
  /\ \A c \in DOMAIN file[i].bytes :
       file[i].bytes[c] # Hole => file'[i].bytes[c] = file[i].bytes[c]

\* The part file of id t stays where it is and keeps what was written to it.
Kept(t) == part'[t] = part[t] /\ (part[t] # NoInode => Stays(part[t]))

-----------------------------------------------------------------------------
(* What the invariant says of a state. *)

LEMMA ObjectTyped ==
  ASSUME TypeInvariant, NEW o \in Obj, obj[o] # NoObj
  PROVE  /\ obj[o] \in TransferRec /\ o # NoObj
         /\ obj[o].tid \in Tid /\ obj[o].sig \in Sig /\ obj[o].part \in Tid
         /\ obj[o].map \in Inode \cup {NoInode}
  <1>1. obj[o] \in TransferRec /\ o # NoObj
    BY NoneAssumption DEF TypeInvariant, TypeOK
  <1>. QED
    BY <1>1 DEF TransferRec

\* A registered object and its entries.
LEMMA ObjectFacts ==
  ASSUME TypeInvariant, Keyed, Registered, NEW o \in Obj, obj[o] # NoObj
  PROVE  /\ obj[o].tid \in Tid /\ obj[o].sig \in Sig /\ obj[o].part \in Tid
         /\ transfers[obj[o].tid] = o /\ o # NoObj
         /\ <<obj[o].tid, obj[o].sig>> \in Sessions
         /\ sigIndex[obj[o].sig] = obj[o].tid
         /\ <<obj[o].part, obj[o].sig>> \in Sessions
         /\ obj[o].got \subseteq Chunks(obj[o].sig)
         /\ ResumableId(obj[o].sig) # NoTid
  <1>2. obj[o].tid \in Tid /\ obj[o].sig \in Sig /\ obj[o].part \in Tid /\ o # NoObj
    BY ObjectTyped
  <1>3. /\ transfers[obj[o].tid] = o /\ <<obj[o].part, obj[o].sig>> \in Sessions
        /\ obj[o].got \subseteq Chunks(obj[o].sig)
    BY DEF Registered
  <1>4. <<obj[o].tid, obj[o].sig>> \in Sessions /\ sigIndex[obj[o].sig] = obj[o].tid
    BY <1>2, <1>3 DEF Keyed
  <1>5. ResumableId(obj[o].sig) # NoTid
    BY <1>2, <1>3, <1>4, NoneAssumption DEF ResumableId
  <1>. QED
    BY <1>2, <1>3, <1>4, <1>5

\* What is in the table is registered.
LEMMA TableFacts ==
  ASSUME TypeInvariant, Keyed, NEW t \in Tid, transfers[t] # NoObj
  PROVE  /\ transfers[t] \in Obj /\ obj[transfers[t]] # NoObj
         /\ obj[transfers[t]].tid = t /\ sigIndex[obj[transfers[t]].sig] = t
         /\ <<t, obj[transfers[t]].sig>> \in Sessions
  BY DEF TypeInvariant, TypeOK, ReferencesAllocated, Keyed

\* There is one transfer of a version, of a part file and of an id.
LEMMA ObjectsApart ==
  ASSUME TypeInvariant, Keyed, Registered, OneSigPerTid,
         NEW p \in Obj, NEW q \in Obj, obj[p] # NoObj, obj[q] # NoObj,
         \/ obj[p].sig = obj[q].sig
         \/ obj[p].part = obj[q].part
         \/ obj[p].tid = obj[q].tid
  PROVE  p = q
  <1>1. /\ transfers[obj[p].tid] = p /\ transfers[obj[q].tid] = q
        /\ <<obj[p].part, obj[p].sig>> \in Sessions /\ <<obj[q].part, obj[q].sig>> \in Sessions
        /\ sigIndex[obj[p].sig] = obj[p].tid /\ sigIndex[obj[q].sig] = obj[q].tid
    BY ObjectFacts
  <1>2. obj[p].part = obj[q].part => obj[p].sig = obj[q].sig
    BY <1>1 DEF OneSigPerTid
  <1>. QED
    BY <1>1, <1>2

\* The version that is about to be registered has no transfer.
LEMMA NotRegistered ==
  ASSUME TypeInvariant, Keyed, Registered, OneSigPerTid, NEW s, ResumableId(s) = NoTid,
         NEW p, <<p, s>> \in Sessions,
         NEW o \in Obj, obj[o] # NoObj
  PROVE  obj[o].sig # s /\ obj[o].part # p /\ obj[o].tid # p
  <1>1. obj[o].sig # s
    BY ObjectFacts
  <1>. QED
    BY <1>1, ObjectFacts DEF OneSigPerTid

\* The part file of an id holds chunks of the one version of that id.
LEMMA PartBytes ==
  ASSUME TypeInvariant, PartsSound, OneSigPerTid, NEW t \in Tid, NEW s \in Sig,
         <<t, s>> \in Sessions, part[t] # NoInode
  PROVE  /\ part[t] \in Inode /\ file[part[t]] \in File
         /\ file[part[t]].bytes \in [Chunks(s) -> {s, Hole}] \cup {NoBytes}
         /\ DOMAIN file[part[t]].bytes = Chunks(s) \/ Unsized(t)
  <1>1. part[t] \in Inode /\ file[part[t]] \in File
    BY DEF TypeInvariant, TypeOK, HeldAllocated
  <1>2. PICK v \in Sig : /\ <<t, v>> \in Sessions
                         /\ file[part[t]].bytes \in [Chunks(v) -> {v, Hole}] \cup {NoBytes}
                         /\ DOMAIN file[part[t]].bytes = Chunks(v) \/ Unsized(t)
    BY DEF PartsSound
  <1>3. v = s
    BY <1>2 DEF OneSigPerTid
  <1>. QED
    BY <1>1, <1>2, <1>3

\* A temporary name is a link to a part file of its version.
LEMMA TempFacts ==
  ASSUME TypeInvariant, LinksNamed, OneSigPerTid, NEW t \in Tid, NEW s \in Sig,
         <<t, s>> \in Sessions, temp[<<t, FileName[s]>>] # NoInode
  PROVE  /\ KeepPart
         /\ temp[<<t, FileName[s]>>] \in Inode
         /\ \E u \in Tid : part[u] = temp[<<t, FileName[s]>>] /\ <<u, s>> \in Sessions
  <1>1. <<t, FileName[s]>> \in Tid \X Name
    BY ManifestAssumption
  <1>2. KeepPart /\ \E u \in Tid, v \in Sig :
          /\ part[u] = temp[<<t, FileName[s]>>]
          /\ <<u, v>> \in Sessions /\ <<t, v>> \in Sessions
    BY <1>1 DEF LinksNamed
  <1>3. temp[<<t, FileName[s]>>] \in Inode
    BY <1>1 DEF TypeInvariant, TypeOK
  <1>. QED
    BY <1>2, <1>3 DEF OneSigPerTid

\* Inodes that paths name are files.
LEMMA PathFacts ==
  ASSUME TypeInvariant
  PROVE  /\ \A t \in Tid : part[t] # NoInode => part[t] \in Inode /\ file[part[t]] \in File
         /\ \A x \in Tid \X Name : temp[x] # NoInode => temp[x] \in Inode /\ file[temp[x]] \in File
         /\ \A n \in Name : final[n] # NoInode => final[n] \in Inode /\ file[final[n]] \in File
  BY DEF TypeInvariant, TypeOK, HeldAllocated

\* A whole file stays whole.
LEMMA WholeStays ==
  ASSUME TypeInvariant, NEW i, Stays(i), NEW s \in Sig, file[i].bytes = Whole(s), file'[i] \in File
  PROVE  file'[i].bytes = Whole(s)
  <1>1. DOMAIN file'[i].bytes = Chunks(s) /\ \A c \in Chunks(s) : file'[i].bytes[c] = s
    BY NoneAssumption DEF Stays, Whole
  <1>2. file'[i].bytes \in Content
    BY DEF File
  <1>3. CASE file'[i].bytes = NoBytes
    <2>1. file'[i].bytes = [c \in {} |-> Hole] /\ Chunks(s) = {}
      BY <1>1, <1>3 DEF NoBytes
    <2>. QED
      BY <2>1 DEF Whole
  <1>4. CASE \E v \in Sig : file'[i].bytes \in [Chunks(v) -> Sig \cup {Hole}]
    <2>1. PICK v \in Sig : file'[i].bytes \in [Chunks(v) -> Sig \cup {Hole}]
      BY <1>4
    <2>2. file'[i].bytes = [c \in Chunks(s) |-> file'[i].bytes[c]]
      BY <1>1, <2>1
    <2>. QED
      BY <1>1, <2>2 DEF Whole
  <1>. QED
    BY <1>2, <1>3, <1>4, ContentCases

\* What is backed by a part file stays backed.
LEMMA BackedStays ==
  ASSUME NEW i, NEW s \in Sig, NEW got, Backs(file[i].bytes, s, got), Stays(i)
  PROVE  Backs(file'[i].bytes, s, got)
  BY NoneAssumption DEF Backs, Stays

\* Unchanged bytes stay.
LEMMA SameStays ==
  ASSUME NEW i, file'[i].bytes = file[i].bytes
  PROVE  Stays(i)
  BY DEF Stays

LEMMA SameKept ==
  ASSUME SameFiles
  PROVE  \A t \in Tid : Kept(t)
  BY SameStays DEF SameFiles, Kept

-----------------------------------------------------------------------------
(* Frames: what keeps each part of the invariant. *)

LEMMA KeyedFrame ==
  ASSUME TypeInvariant, Keyed, SameObjects, UNCHANGED <<transfers, sigIndex>>
  PROVE  Keyed'
  <1>1. \A t \in Tid : transfers[t] # NoObj => transfers[t] \in Obj
    BY DEF TypeInvariant, TypeOK
  <1>. QED
    BY <1>1 DEF Keyed, SameObjects

LEMMA RegisteredFrame ==
  ASSUME TypeInvariant, Registered, SameObjects, transfers' = transfers,
         Unprepared \subseteq Unprepared',
         \A o \in Obj : obj[o] # NoObj =>
           \/ Kept(obj[o].part)
           \/ obj[o].finalized /\ part'[obj[o].part] = NoInode
  PROVE  Registered'
  <1>. SUFFICES ASSUME NEW o \in Obj, obj'[o] # NoObj
                PROVE  LET x == obj'[o] IN
                       /\ transfers'[x.tid] = o
                       /\ <<x.part, x.sig>> \in Sessions
                       /\ x.got \subseteq Chunks(x.sig)
                       /\ x.finalized => x.got = Chunks(x.sig)
                       /\ ~x.finalized => part'[x.part] # NoInode
                       /\ ~x.finalized /\ x.tid \notin Unprepared' =>
                            /\ DOMAIN file'[part'[x.part]].bytes = Chunks(x.sig)
                            /\ x.map = IF Chunks(x.sig) = {} THEN NoInode ELSE part'[x.part]
                       /\ part'[x.part] # NoInode => Backs(file'[part'[x.part]].bytes, x.sig, x.got)
    BY DEF Registered
  <1>. DEFINE x == obj[o]
  <1>1. /\ obj[o] # NoObj
        /\ obj'[o].tid = x.tid /\ obj'[o].sig = x.sig /\ obj'[o].part = x.part
        /\ obj'[o].got = x.got /\ obj'[o].map = x.map
        /\ (obj'[o].finalized <=> x.finalized)
    BY DEF SameObjects
  <1>2. /\ transfers[x.tid] = o
        /\ <<x.part, x.sig>> \in Sessions
        /\ x.got \subseteq Chunks(x.sig)
        /\ x.finalized => x.got = Chunks(x.sig)
        /\ ~x.finalized => part[x.part] # NoInode
        /\ ~x.finalized /\ x.tid \notin Unprepared =>
             /\ DOMAIN file[part[x.part]].bytes = Chunks(x.sig)
             /\ x.map = IF Chunks(x.sig) = {} THEN NoInode ELSE part[x.part]
        /\ part[x.part] # NoInode => Backs(file[part[x.part]].bytes, x.sig, x.got)
    BY <1>1 DEF Registered
  <1>3. x.sig \in Sig
    BY <1>1, ObjectTyped
  <1>4. Kept(x.part) \/ (x.finalized /\ part'[x.part] = NoInode)
    BY <1>1
  <1>. HIDE DEF x
  <1>5. CASE Kept(x.part)
    <2>1. part'[x.part] = part[x.part] /\ (part[x.part] # NoInode => Stays(part[x.part]))
      BY <1>5 DEF Kept
    <2>2. part[x.part] # NoInode =>
            DOMAIN file'[part'[x.part]].bytes = DOMAIN file[part[x.part]].bytes
      BY <2>1 DEF Stays
    <2>3. part'[x.part] # NoInode => Backs(file'[part'[x.part]].bytes, x.sig, x.got)
      BY <1>2, <1>3, <1>5, <2>1, BackedStays
    <2>. QED
      BY <1>1, <1>2, <2>1, <2>2, <2>3
  <1>6. CASE x.finalized /\ part'[x.part] = NoInode
    BY <1>1, <1>2, <1>6
  <1>. QED
    BY <1>4, <1>5, <1>6

\* Nothing new waits to be verified and placed.
LEMMA WaitingLess ==
  ASSUME queue' = queue, recv'.pc = "put" => recv' = recv,
         \A th \in Thread : fin'[th].pc \in {"hash", "link", "copy", "place"} =>
           fin[th].pc \in {"hash", "link", "copy", "place"} /\ fin'[th].o = fin[th].o
  PROVE  \A o \in Obj : Waiting(o)' => Waiting(o)
  BY DEF Waiting

\* A transfer on its way to being verified exists.
LEMMA WaitingExists ==
  ASSUME TypeInvariant, WaitingWhole, NEW q \in Obj, Waiting(q)
  PROVE  /\ obj[q] # NoObj /\ obj[q].finalized /\ part[obj[q].part] # NoInode
         /\ file[part[obj[q].part]].bytes = Whole(obj[q].sig)
  <1>1. ReferencesAllocated /\ q # NoObj
    BY NoneAssumption DEF TypeInvariant
  <1>2. obj[q] # NoObj
    BY <1>1 DEF ReferencesAllocated, Waiting
  <1>. QED
    BY <1>2 DEF WaitingWhole

LEMMA WaitingFrame ==
  ASSUME TypeInvariant, TypeInvariant', WaitingWhole,
         \A o \in Obj : Waiting(o)' =>
           /\ Waiting(o)
           /\ obj'[o].sig = obj[o].sig /\ obj'[o].part = obj[o].part
           /\ obj'[o].finalized <=> obj[o].finalized
           /\ Kept(obj[o].part)
  PROVE  WaitingWhole'
  <1>. SUFFICES ASSUME NEW o \in Obj, Waiting(o)'
                PROVE  /\ obj'[o].finalized
                       /\ part'[obj'[o].part] # NoInode
                       /\ file'[part'[obj'[o].part]].bytes = Whole(obj'[o].sig)
    BY DEF WaitingWhole
  <1>. DEFINE p == obj[o].part
              s == obj[o].sig
  <1>1. /\ obj[o] # NoObj /\ obj[o].finalized /\ part[p] # NoInode
        /\ file[part[p]].bytes = Whole(s)
    BY WaitingExists
  <1>2. p \in Tid /\ s \in Sig
    BY <1>1, ObjectTyped
  <1>3. part'[p] = part[p] /\ Stays(part[p])
    BY <1>1 DEF Kept
  <1>4. file'[part[p]] \in File
    <2>1. part'[p] # NoInode
      BY <1>1, <1>3
    <2>. QED
      BY <1>2, <1>3, <2>1 DEF TypeInvariant, TypeOK, HeldAllocated
  <1>5. file'[part[p]].bytes = Whole(s)
    BY <1>1, <1>2, <1>3, <1>4, WholeStays
  <1>. QED
    BY <1>1, <1>3, <1>5

LEMMA QueueFrame ==
  ASSUME TypeInvariant, QueuedOnce, queue' = queue, recv'.pc = "put" => recv' = recv,
         \A th \in Thread : fin'[th].o \in {fin[th].o, NoObj}
  PROVE  QueuedOnce'
  <1>1. \A k \in 1 .. Len(queue) : queue[k] # NoObj
    BY NoneAssumption, ReferencesAreObjects DEF TypeInvariant
  <1>2. recv.pc = "put" => recv.o # NoObj
    BY NoneAssumption DEF TypeInvariant, StationsFilled
  <1>. QED
    BY <1>1, <1>2 DEF QueuedOnce

\* The receive thread stands where it stood.
LEMMA RecvFrame ==
  ASSUME TypeInvariant, ReceiveStation, ReceiveEnded, SameObjects, recv' = recv,
         UNCHANGED <<transfers, sigIndex, restarts>>,
         recv.pc \in {"truncate", "map"} => part'[recv.tid] = part[recv.tid],
         recv.pc = "truncate" =>
           /\ journal' = journal
           /\ \A x \in Tid \X Name : temp'[x] # part[recv.tid]
           /\ \A n \in Name : final'[n] # part[recv.tid],
         recv.pc = "dead" => Kept(recv.tid)
  PROVE  ReceiveStation' /\ ReceiveEnded'
  <1>1. ReceiveStation'
    <2>1. recv.pc = "full" => recv.o \in Obj
      BY DEF TypeInvariant, StationsFilled
    <2>2. ResumableId(recv.sig)' = ResumableId(recv.sig)
      BY DEF ResumableId
    <2>3. recv.pc = "full" =>
            ~obj'[recv.o].finalized /\ obj'[recv.o].got = Chunks(obj'[recv.o].sig)
      BY <2>1 DEF SameObjects, ReceiveStation
    <2>. QED
      BY <2>2, <2>3 DEF ReceiveStation
  <1>2. ReceiveEnded'
    <2>. SUFFICES ASSUME recv.pc = "dead" PROVE ReceiveEnded'
      BY DEF ReceiveEnded
    <2>. DEFINE o == transfers[recv.tid]
    <2>1. /\ o # NoObj /\ obj[o].part = recv.tid /\ ~obj[o].finalized /\ part[recv.tid] # NoInode
          /\ ~(Chunks(recv.sig) \subseteq DOMAIN file[part[recv.tid]].bytes)
          /\ restarts > 0
      BY DEF ReceiveEnded
    <2>2. recv.tid \in Tid /\ o \in Obj
      BY <2>1 DEF TypeInvariant, TypeOK, StationsFilled
    <2>3. part'[recv.tid] = part[recv.tid]
          /\ DOMAIN file'[part[recv.tid]].bytes = DOMAIN file[part[recv.tid]].bytes
      BY <2>1 DEF Kept, Stays
    <2>4. obj'[o].part = obj[o].part /\ (obj'[o].finalized <=> obj[o].finalized)
      BY <2>2 DEF SameObjects
    <2>. HIDE DEF o
    <2>5. transfers'[recv'.tid] = o
      BY DEF o
    <2>. QED
      BY <2>1, <2>3, <2>4, <2>5 DEF ReceiveEnded
  <1>. QED
    BY <1>1, <1>2

\* The receive thread is outside the lock, and has no object.
LEMMA RecvOutside ==
  ASSUME recv'.pc \in {"idle", "answer", "prepare"}, recv'.o = NoObj,
         recv'.pc # "idle" => <<recv'.tid, recv'.sig>> \in Sessions
  PROVE  ReceiveStation' /\ ReceiveEnded' /\ Unprepared' = {}
  BY DEF ReceiveStation, ReceiveEnded, Unprepared

\* The finalizing threads stand where they stood.
LEMMA FinFrame ==
  ASSUME TypeInvariant, TypeInvariant', WaitingWhole, FinalizerStation, FinalizerEnded,
         fin' = fin, temp' = temp, final' = final,
         \A o \in Obj : obj[o] # NoObj /\ obj[o].finalized =>
           obj'[o].sig = obj[o].sig /\ obj'[o].part = obj[o].part /\ obj'[o].finalized,
         \A o \in Obj : Abandoned(o) => Abandoned(o)' /\ obj'[o].sig = obj[o].sig,
         \A t \in Tid : part[t] # NoInode => part'[t] = part[t],
         \A x \in Tid \X Name : temp[x] # NoInode => Stays(temp[x]),
         \A n \in Name : final[n] # NoInode => Stays(final[n])
  PROVE  FinalizerStation' /\ FinalizerEnded'
  <1>0. \A th \in Thread : fin[th].o # NoObj => fin[th].o \in Obj /\ obj[fin[th].o] # NoObj
    BY ReferencesAreObjects DEF TypeInvariant, ReferencesAllocated
  <1>1. ASSUME NEW th \in Thread PROVE AtStation(fin[th])'
    <2>. DEFINE f == fin[th]
    <2>1. AtStation(f) /\ fin'[th] = f
      BY DEF FinalizerStation
    <2>2. f.pc # "idle" => f.tid \in Tid /\ f.sig \in Sig /\ f.part \in Tid
      BY DEF TypeInvariant, StationsFilled
    <2>3. f.pc \notin {"idle", "report", "dead"} =>
            obj'[f.o].sig = f.sig /\ obj'[f.o].part = f.part /\ obj'[f.o].finalized
      <3>. SUFFICES ASSUME f.pc \notin {"idle", "report", "dead"}
                    PROVE  obj'[f.o].sig = f.sig /\ obj'[f.o].part = f.part /\ obj'[f.o].finalized
        OBVIOUS
      <3>1. f.o \in Obj
        BY DEF TypeInvariant, StationsFilled
      <3>2. f.o # NoObj
        BY <3>1, NoneAssumption
      <3>3. obj[f.o] # NoObj
        BY <1>0, <3>2
      <3>4. obj[f.o].sig = f.sig /\ obj[f.o].part = f.part /\ obj[f.o].finalized
        BY <2>1 DEF AtStation
      <3>. QED
        BY <3>1, <3>3, <3>4
    <2>4. f.pc \in {"copy", "place", "utime"} =>
            /\ TempName(f) \in Tid \X Name /\ FileName[f.sig] \in Name /\ f.sig \in Sig
            /\ TempName(f)[1] = f.tid
      BY <2>2, ManifestAssumption DEF TempName
    <2>5. f.pc = "copy" => temp'[TempName(f)] \notin {NoInode, part'[f.part]}
      <3>. SUFFICES ASSUME f.pc = "copy" PROVE temp'[TempName(f)] \notin {NoInode, part'[f.part]}
        OBVIOUS
      <3>1. f.o \in Obj /\ f.o # NoObj
        BY NoneAssumption DEF TypeInvariant, StationsFilled
      <3>2. Waiting(f.o)
        BY <3>1 DEF Waiting
      <3>3. part[obj[f.o].part] # NoInode
        BY <3>1, <3>2 DEF WaitingWhole
      <3>4. obj[f.o].part = f.part /\ temp[TempName(f)] \notin {NoInode, part[f.part]}
        BY <2>1 DEF AtStation
      <3>. QED
        BY <2>2, <3>3, <3>4
    <2>6. f.pc = "place" /\ KeepPart =>
            temp'[TempName(f)] # NoInode /\ file'[temp'[TempName(f)]].bytes = Whole(f.sig)
      <3>. SUFFICES ASSUME f.pc = "place", KeepPart
                    PROVE  temp'[TempName(f)] # NoInode
                           /\ file'[temp'[TempName(f)]].bytes = Whole(f.sig)
        OBVIOUS
      <3>1. temp[TempName(f)] # NoInode /\ file[temp[TempName(f)]].bytes = Whole(f.sig)
        BY <2>1 DEF AtStation
      <3>2. file'[temp[TempName(f)]] \in File
        BY <2>4, <3>1 DEF TypeInvariant, TypeOK, HeldAllocated
      <3>. QED
        BY <2>4, <3>1, <3>2, WholeStays
    <2>7. f.pc = "utime" =>
            /\ final'[FileName[f.sig]] # NoInode
            /\ file'[final'[FileName[f.sig]]].bytes = Whole(f.sig)
      <3>. SUFFICES ASSUME f.pc = "utime"
                    PROVE  /\ final'[FileName[f.sig]] # NoInode
                           /\ file'[final'[FileName[f.sig]]].bytes = Whole(f.sig)
        OBVIOUS
      <3>1. final[FileName[f.sig]] # NoInode /\ file[final[FileName[f.sig]]].bytes = Whole(f.sig)
        BY <2>1 DEF AtStation
      <3>2. file'[final[FileName[f.sig]]] \in File
        BY <2>4, <3>1 DEF TypeInvariant, TypeOK, HeldAllocated
      <3>. QED
        BY <2>4, <3>1, <3>2, WholeStays
    <2>8. TempName(f)' = TempName(f)
      BY DEF TempName
    <2>. QED
      BY <2>1, <2>3, <2>5, <2>6, <2>7, <2>8 DEF AtStation
  <1>2. ASSUME NEW th \in Thread, fin'[th].pc = "dead" PROVE EndedAt(fin[th])'
    <2>. DEFINE f == fin[th]
    <2>1. EndedAt(f) /\ fin'[th] = f
      BY <1>2 DEF FinalizerEnded
    <2>2. TempName(f)' = TempName(f)
      BY DEF TempName
    <2>3. f.part \in Tid
      BY <1>2 DEF TypeInvariant, StationsFilled
    <2>4. KeepPart /\ part'[f.part] # NoInode /\ temp'[TempName(f)] = part'[f.part]
      BY <2>1, <2>3 DEF EndedAt
    <2>5. PICK o \in Obj : Abandoned(o) /\ obj[o].sig = f.sig
      BY <2>1 DEF EndedAt
    <2>6. Abandoned(o)' /\ obj'[o].sig = f.sig
      BY <2>5
    <2>. QED
      BY <2>1, <2>2, <2>4, <2>6 DEF EndedAt
  <1>. QED
    BY <1>1, <1>2 DEF FinalizerStation, FinalizerEnded

\* While a thread finalizes, the other is idle or has ended.
LEMMA OtherThread ==
  ASSUME OneFinalizer, NEW th \in Thread, fin[th].pc \notin {"idle", "dead"}
  PROVE  /\ \A u \in Thread : u # th => fin[u].pc \in {"idle", "dead"}
         /\ (\A u \in Thread : u # th => fin'[u] = fin[u]) /\ recv' = recv => OneFinalizer'
  BY DEF OneFinalizer, Thread

\* The other thread, while thread th makes a step.
LEMMA MoveFrame ==
  ASSUME FinalizerStation, FinalizerEnded, NEW th \in Thread, NEW u \in Thread, u # th,
         fin[u].pc \in {"idle", "dead"}, fin'[u] = fin[u],
         fin[u].pc = "dead" =>
           /\ \A o \in Obj : Abandoned(o) /\ obj[o].sig = fin[u].sig =>
                Abandoned(o)' /\ obj'[o].sig = obj[o].sig
           /\ part'[fin[u].part] = part[fin[u].part]
           /\ temp'[TempName(fin[u])] = temp[TempName(fin[u])]
  PROVE  AtStation(fin[u])' /\ (fin'[u].pc = "dead" => EndedAt(fin[u])')
  <1>1. AtStation(fin[u]) /\ (fin[u].pc = "dead" => EndedAt(fin[u]))
    BY DEF FinalizerStation, FinalizerEnded
  <1>2. TempName(fin[u])' = TempName(fin[u])
    BY DEF TempName
  <1>3. AtStation(fin[u])'
    BY <1>1 DEF AtStation
  <1>4. ASSUME fin[u].pc = "dead" PROVE EndedAt(fin[u])'
    <2>1. PICK o \in Obj : Abandoned(o) /\ obj[o].sig = fin[u].sig
      BY <1>1, <1>4 DEF EndedAt
    <2>2. Abandoned(o)' /\ obj'[o].sig = fin'[u].sig
      BY <1>4, <2>1
    <2>. QED
      BY <1>1, <1>2, <1>4, <2>2 DEF EndedAt
  <1>. QED
    BY <1>3, <1>4

LEMMA FinalizersStep ==
  ASSUME NEW th \in Thread,
         AtStation(fin[th])', fin'[th].pc = "dead" => EndedAt(fin[th])',
         \A u \in Thread : u # th =>
           AtStation(fin[u])' /\ (fin'[u].pc = "dead" => EndedAt(fin[u])')
  PROVE  FinalizerStation' /\ FinalizerEnded'
  BY DEF FinalizerStation, FinalizerEnded

\* Part files that are still there keep their bytes.
LEMMA PartsFrame ==
  ASSUME PartsSound, \A t \in Tid : Unsized(t) => Unsized(t)',
         \A t \in Tid : part'[t] # NoInode =>
           part'[t] = part[t] /\ file'[part[t]].bytes = file[part[t]].bytes
  PROVE  PartsSound'
  <1>1. \A t, u \in Tid : part'[t] = part'[u] /\ part'[t] # NoInode => t = u
    BY DEF PartsSound
  <1>2. ASSUME NEW t \in Tid, part'[t] # NoInode
        PROVE  \E s \in Sig :
                 /\ <<t, s>> \in Sessions
                 /\ file'[part'[t]].bytes \in [Chunks(s) -> {s, Hole}] \cup {NoBytes}
                 /\ DOMAIN file'[part'[t]].bytes = Chunks(s) \/ Unsized(t)'
    <2>1. part'[t] = part[t] /\ file'[part[t]].bytes = file[part[t]].bytes
      BY <1>2
    <2>. QED
      BY <1>2, <2>1 DEF PartsSound
  <1>. QED
    BY <1>1, <1>2 DEF PartsSound

LEMMA FilesFrame ==
  ASSUME FilesSound, SameFiles, \A t \in Tid : Unsized(t) => Unsized(t)'
  PROVE  FilesSound'
  <1>1. PartsSound'
    BY PartsFrame DEF FilesSound, SameFiles
  <1>2. LinksNamed'
    BY DEF FilesSound, LinksNamed, SameFiles
  <1>3. FinalWhole'
    BY DEF FilesSound, FinalWhole, SameFiles
  <1>. QED
    BY <1>1, <1>2, <1>3 DEF FilesSound

-----------------------------------------------------------------------------
(* The journal. *)

\* A journal written now is backed by the files and has one record per key.
LEMMA JournalWritten ==
  ASSUME OneSigPerTid, TypeInvariant', Keyed', Registered',
         journal' = JournalOf(transfers', obj')
  PROVE  JournalBacked' /\ JournalKeys'
  <1>1. ASSUME NEW r \in journal'
        PROVE  \E p \in Obj :
                 /\ obj'[p] # NoObj /\ transfers'[r.tid] = p /\ ~obj'[p].finalized
                 /\ obj'[p].tid = r.tid /\ obj'[p].sig = r.sig /\ obj'[p].part = r.part
                 /\ obj'[p].addr = r.addr /\ obj'[p].got = r.got
    <2>1. PICK t \in Tid : /\ transfers'[t] # NoObj /\ ~obj'[transfers'[t]].finalized
                           /\ r = [tid |-> t, sig |-> obj'[transfers'[t]].sig,
                                   part |-> obj'[transfers'[t]].part,
                                   addr |-> obj'[transfers'[t]].addr,
                                   got |-> obj'[transfers'[t]].got]
      BY <1>1 DEF JournalOf
    <2>2. transfers'[t] \in Obj
      BY <2>1 DEF TypeInvariant, TypeOK
    <2>3. obj'[transfers'[t]] # NoObj
      BY <2>1 DEF TypeInvariant, ReferencesAllocated
    <2>4. obj'[transfers'[t]].tid = t
      BY <2>1 DEF Keyed
    <2>. QED
      BY <2>1, <2>2, <2>3, <2>4
  <1>2. ASSUME NEW p \in Obj, obj'[p] # NoObj
        PROVE  /\ transfers'[obj'[p].tid] = p
               /\ <<obj'[p].tid, obj'[p].sig>> \in Sessions
               /\ <<obj'[p].part, obj'[p].sig>> \in Sessions
               /\ sigIndex'[obj'[p].sig] = obj'[p].tid
               /\ obj'[p].got \subseteq Chunks(obj'[p].sig)
               /\ ~obj'[p].finalized => part'[obj'[p].part] # NoInode
               /\ part'[obj'[p].part] # NoInode =>
                    Backs(file'[part'[obj'[p].part]].bytes, obj'[p].sig, obj'[p].got)
    <2>1. obj'[p] \in TransferRec /\ p # NoObj
      BY <1>2, NoneAssumption DEF TypeInvariant, TypeOK
    <2>2. obj'[p].tid \in Tid
      BY <2>1 DEF TransferRec
    <2>3. /\ transfers'[obj'[p].tid] = p
          /\ <<obj'[p].part, obj'[p].sig>> \in Sessions
          /\ obj'[p].got \subseteq Chunks(obj'[p].sig)
          /\ ~obj'[p].finalized => part'[obj'[p].part] # NoInode
          /\ part'[obj'[p].part] # NoInode =>
               Backs(file'[part'[obj'[p].part]].bytes, obj'[p].sig, obj'[p].got)
      BY <1>2 DEF Registered
    <2>4. <<obj'[p].tid, obj'[p].sig>> \in Sessions /\ sigIndex'[obj'[p].sig] = obj'[p].tid
      BY <2>1, <2>2, <2>3 DEF Keyed
    <2>. QED
      BY <2>3, <2>4
  <1>3. ASSUME NEW p \in Obj, NEW q \in Obj, obj'[p] # NoObj, obj'[q] # NoObj,
               obj'[p].sig = obj'[q].sig \/ obj'[p].part = obj'[q].part
        PROVE  p = q
    <2>1. obj'[p].sig = obj'[q].sig
      BY <1>2, <1>3 DEF OneSigPerTid
    <2>2. sigIndex'[obj'[p].sig] = obj'[p].tid /\ sigIndex'[obj'[q].sig] = obj'[q].tid
      BY <1>2, <1>3
    <2>3. transfers'[obj'[p].tid] = p /\ transfers'[obj'[q].tid] = q
      BY <1>2, <1>3
    <2>. QED
      BY <2>1, <2>2, <2>3
  <1>4. JournalBacked'
    <2>. SUFFICES ASSUME NEW r \in journal'
                  PROVE  /\ <<r.tid, r.sig>> \in Sessions /\ <<r.part, r.sig>> \in Sessions
                         /\ r.got \subseteq Chunks(r.sig)
                         /\ part'[r.part] # NoInode
                         /\ Backs(file'[part'[r.part]].bytes, r.sig, r.got)
                         /\ \A o \in Obj : obj'[o] # NoObj /\ obj'[o].finalized =>
                              obj'[o].sig # r.sig
      BY DEF JournalBacked
    <2>1. PICK p \in Obj : /\ obj'[p] # NoObj /\ ~obj'[p].finalized
                           /\ obj'[p].tid = r.tid /\ obj'[p].sig = r.sig
                           /\ obj'[p].part = r.part /\ obj'[p].got = r.got
      BY <1>1
    <2>2. \A o \in Obj : obj'[o] # NoObj /\ obj'[o].finalized => obj'[o].sig # r.sig
      BY <1>3, <2>1
    <2>. QED
      BY <1>2, <2>1, <2>2
  <1>5. JournalKeys'
    <2>. SUFFICES ASSUME NEW r \in journal', NEW q \in journal',
                         r.tid = q.tid \/ r.sig = q.sig \/ r.part = q.part
                  PROVE  r = q
      BY DEF JournalKeys
    <2>1. PICK p \in Obj : /\ obj'[p] # NoObj /\ transfers'[r.tid] = p
                           /\ obj'[p].tid = r.tid /\ obj'[p].sig = r.sig /\ obj'[p].part = r.part
                           /\ obj'[p].addr = r.addr /\ obj'[p].got = r.got
      BY <1>1
    <2>2. PICK o \in Obj : /\ obj'[o] # NoObj /\ transfers'[q.tid] = o
                           /\ obj'[o].tid = q.tid /\ obj'[o].sig = q.sig /\ obj'[o].part = q.part
                           /\ obj'[o].addr = q.addr /\ obj'[o].got = q.got
      BY <1>1
    <2>3. o = p
      BY <1>3, <2>1, <2>2
    <2>4. r \in JournalRec /\ q \in JournalRec
      BY DEF TypeInvariant, TypeOK
    <2>. QED
      BY <2>1, <2>2, <2>3, <2>4 DEF JournalRec
  <1>. QED
    BY <1>4, <1>5

\* What the journal says of a part file.
LEMMA JournalFacts ==
  ASSUME TypeInvariant, JournalBacked, NEW r \in journal
  PROVE  /\ r \in JournalRec /\ r.tid \in Tid /\ r.sig \in Sig /\ r.part \in Tid
         /\ <<r.tid, r.sig>> \in Sessions /\ <<r.part, r.sig>> \in Sessions
         /\ r.got \subseteq Chunks(r.sig)
         /\ part[r.part] # NoInode
         /\ Backs(file[part[r.part]].bytes, r.sig, r.got)
         /\ \A o \in Obj : obj[o] # NoObj /\ obj[o].finalized => obj[o].sig # r.sig
  <1>1. r \in JournalRec
    BY DEF TypeInvariant, TypeOK
  <1>2. r.tid \in Tid /\ r.sig \in Sig /\ r.part \in Tid
    BY <1>1 DEF JournalRec
  <1>. QED
    BY <1>1, <1>2 DEF JournalBacked

\* The journal on disk stays backed.
LEMMA JournalKept ==
  ASSUME TypeInvariant, JournalBacked, JournalKeys, journal' = journal,
         \A r \in journal : Kept(r.part),
         \A q \in Obj, r \in journal :
           obj'[q] # NoObj /\ obj'[q].finalized => obj'[q].sig # r.sig
  PROVE  JournalBacked' /\ JournalKeys'
  <1>1. JournalKeys'
    BY DEF JournalKeys
  <1>2. ASSUME NEW r \in journal
        PROVE  /\ part'[r.part] # NoInode
               /\ Backs(file'[part'[r.part]].bytes, r.sig, r.got)
    <2>1. /\ part[r.part] # NoInode /\ r.sig \in Sig
          /\ Backs(file[part[r.part]].bytes, r.sig, r.got)
      BY JournalFacts
    <2>2. part'[r.part] = part[r.part] /\ Stays(part[r.part])
      BY <2>1 DEF Kept
    <2>. QED
      BY <2>1, <2>2, BackedStays
  <1>3. JournalBacked'
    BY <1>2, JournalFacts DEF JournalBacked
  <1>. QED
    BY <1>1, <1>3

\* A step that changes nothing the tables, the files and the journal say.
LEMMA Untouched ==
  ASSUME SoundInvariant, SameObjects, SameFiles,
         UNCHANGED <<transfers, sigIndex, journal, completed>>,
         Unprepared \subseteq Unprepared', \A t \in Tid : Unsized(t) => Unsized(t)'
  PROVE  Keyed' /\ Registered' /\ FilesSound' /\ JournalBacked' /\ JournalKeys' /\ NoneFailed'
  <1>1. Keyed'
    BY KeyedFrame DEF SoundInvariant
  <1>2. \A t \in Tid : Kept(t)
    BY SameKept
  <1>3. Registered'
    <2>1. \A o \in Obj : obj[o] # NoObj => obj[o].part \in Tid
      BY ObjectTyped DEF SoundInvariant
    <2>. QED
      BY <1>2, <2>1, RegisteredFrame DEF SoundInvariant
  <1>4. FilesSound'
    BY FilesFrame DEF SoundInvariant
  <1>5. JournalBacked' /\ JournalKeys'
    <2>1. \A r \in journal : Kept(r.part)
      BY <1>2, JournalFacts DEF SoundInvariant
    <2>2. \A q \in Obj, r \in journal :
            obj'[q] # NoObj /\ obj'[q].finalized => obj'[q].sig # r.sig
      <3>1. ASSUME NEW q \in Obj, NEW r \in journal, obj'[q] # NoObj, obj'[q].finalized
            PROVE  obj'[q].sig # r.sig
        <4>1. obj[q] # NoObj /\ obj[q].finalized /\ obj'[q].sig = obj[q].sig
          BY <3>1 DEF SameObjects
        <4>2. obj[q].sig # r.sig
          BY <4>1, JournalFacts DEF SoundInvariant
        <4>. QED
          BY <4>1, <4>2
      <3>. QED
        BY <3>1
    <2>. QED
      BY <2>1, <2>2, JournalKept DEF SoundInvariant
  <1>6. NoneFailed'
    BY DEF SoundInvariant, NoneFailed
  <1>. QED
    BY <1>1, <1>3, <1>4, <1>5, <1>6

-----------------------------------------------------------------------------
(* Steps of the receive thread that change no file and nothing of a        *)
(* transfer that the invariant is about.                                    *)

\* Only the address of an object changes.
LEMMA AddrOnly ==
  ASSUME TypeInvariant, NEW o \in Obj, obj[o] # NoObj, NEW a \in Addr,
         obj' = [obj EXCEPT ![o] = [obj[o] EXCEPT !.addr = a]]
  PROVE  SameObjects
  <1>. DEFINE y == [obj[o] EXCEPT !.addr = a]
  <1>1. obj[o] \in TransferRec
    BY ObjectTyped
  <1>2. /\ y \in TransferRec /\ y.tid = obj[o].tid /\ y.sig = obj[o].sig /\ y.part = obj[o].part
        /\ y.got = obj[o].got /\ y.map = obj[o].map /\ y.finalized = obj[o].finalized
    BY <1>1 DEF TransferRec
  <1>3. y # NoObj
    BY <1>2, NoneAssumption
  <1>4. \A z \in Obj : obj'[z] = IF z = o THEN y ELSE obj[z]
    BY DEF TypeInvariant, TypeOK
  <1>. HIDE DEF y
  <1>. QED
    BY <1>2, <1>3, <1>4 DEF SameObjects

LEMMA UnchangedObjects == ASSUME obj' = obj PROVE SameObjects
  BY DEF SameObjects

LEMMA UnchangedFiles == ASSUME UNCHANGED <<part, temp, final, file>> PROVE SameFiles
  BY DEF SameFiles

\* An abandoned transfer stays one while nothing more waits.
LEMMA AbandonedKept ==
  ASSUME SameObjects, \A th \in Thread : fin'[th].o \in {fin[th].o, NoObj},
         \A o \in Obj : Waiting(o)' => Waiting(o)
  PROVE  \A o \in Obj : Abandoned(o) => Abandoned(o)' /\ obj'[o].sig = obj[o].sig
  <1>1. \A o \in Obj : o # NoObj
    BY NoneAssumption
  <1>. QED
    BY <1>1 DEF Abandoned, SameObjects

LEMMA RecvMoves ==
  ASSUME SoundInvariant, TypeInvariant', SameObjects, SameFiles,
         UNCHANGED <<transfers, sigIndex, queue, fin, completed, journal, restarts>>,
         recv.pc \in {"idle", "answer", "prepare"},
         recv'.pc \in {"idle", "answer", "prepare", "map", "full"},
         fin["recv"].pc = "idle" \/ recv'.pc = "idle",
         ReceiveStation', ReceiveEnded'
  PROVE  SoundInvariant'
  <1>1. \A o \in Obj : Waiting(o)' => Waiting(o)
    BY WaitingLess
  <1>2. \A t \in Tid : Kept(t)
    BY SameKept
  <1>3. Keyed' /\ Registered' /\ FilesSound' /\ JournalBacked' /\ JournalKeys' /\ NoneFailed'
    <2>1. Unprepared \subseteq Unprepared'
      BY DEF Unprepared
    <2>2. \A t \in Tid : Unsized(t) => Unsized(t)'
      BY DEF Unsized, SameFiles, TempName
    <2>. QED
      BY <2>1, <2>2, Untouched
  <1>4. WaitingWhole'
    <2>1. \A o \in Obj : Waiting(o)' =>
            /\ Waiting(o)
            /\ obj'[o].sig = obj[o].sig /\ obj'[o].part = obj[o].part
            /\ obj'[o].finalized <=> obj[o].finalized
            /\ Kept(obj[o].part)
      <3>1. ASSUME NEW o \in Obj, Waiting(o)' PROVE obj[o].part \in Tid
        BY <1>1, <3>1, WaitingExists, ObjectTyped DEF SoundInvariant
      <3>. QED
        BY <1>1, <1>2, <3>1 DEF SameObjects
    <2>. QED
      BY <2>1, WaitingFrame DEF SoundInvariant
  <1>5. QueuedOnce'
    BY QueueFrame DEF SoundInvariant
  <1>6. OneFinalizer'
    BY DEF SoundInvariant, OneFinalizer
  <1>7. FinalizerStation' /\ FinalizerEnded'
    <2>1. \A o \in Obj : Abandoned(o) => Abandoned(o)' /\ obj'[o].sig = obj[o].sig
      BY <1>1, AbandonedKept
    <2>. QED
      BY <2>1, FinFrame, SameStays DEF SoundInvariant, SameObjects, SameFiles
  <1>. QED
    BY <1>3, <1>4, <1>5, <1>6, <1>7 DEF SoundInvariant

LEMMA SoundPresent ==
  ASSUME SoundInvariant, NEW t \in Tid, NEW s \in Sig, <<t, s>> \in Sessions,
         MetadataOfPresentFile(t, s)
  PROVE  SoundInvariant'
  <1>1. /\ TypeInvariant' /\ SameObjects /\ SameFiles
        /\ UNCHANGED <<transfers, sigIndex, queue, fin, completed, journal, restarts>>
        /\ recv.pc = "idle" /\ fin["recv"].pc = "idle"
        /\ recv' = [pc |-> "answer", tid |-> t, sig |-> s, o |-> NoObj]
    BY TypedPresent, UnchangedObjects, UnchangedFiles
    DEF SoundInvariant, MetadataOfPresentFile, RecvReady, disk
  <1>. QED
    BY <1>1, RecvOutside, RecvMoves

LEMMA SoundAnswer ==
  ASSUME SoundInvariant, AnswerComplete
  PROVE  SoundInvariant'
  <1>1. /\ TypeInvariant' /\ SameObjects /\ SameFiles
        /\ UNCHANGED <<transfers, sigIndex, queue, fin, completed, journal, restarts>>
        /\ recv.pc = "answer"
        /\ recv'.pc = "idle" /\ recv'.o = NoObj
    BY TypedAnswer, UnchangedObjects, UnchangedFiles
    DEF SoundInvariant, AnswerComplete, disk, IdleRecv
  <1>. QED
    BY <1>1, RecvOutside, RecvMoves

LEMMA SoundOther ==
  ASSUME SoundInvariant, NEW t \in Tid, NEW s \in Sig, <<t, s>> \in Sessions,
         MetadataOfOtherFile(t, s)
  PROVE  SoundInvariant'
  <1>1. /\ TypeInvariant' /\ SameObjects /\ SameFiles
        /\ UNCHANGED <<transfers, sigIndex, queue, fin, completed, journal, restarts>>
        /\ recv.pc = "idle" /\ fin["recv"].pc = "idle"
        /\ recv' = [pc |-> "prepare", tid |-> t, sig |-> s, o |-> NoObj]
    BY TypedOther, UnchangedObjects, UnchangedFiles
    DEF SoundInvariant, MetadataOfOtherFile, RecvReady, disk
  <1>. QED
    BY <1>1, RecvOutside, RecvMoves

LEMMA SoundKnown ==
  ASSUME SoundInvariant, PrepareKnown
  PROVE  SoundInvariant'
  <1>. DEFINE o == transfers[recv.tid]
  <1>1. /\ TypeInvariant' /\ SameFiles
        /\ UNCHANGED <<transfers, sigIndex, queue, fin, completed, journal, restarts>>
        /\ recv.pc = "prepare"
        /\ recv'.pc = "idle" /\ recv'.o = NoObj
    BY TypedKnown, UnchangedFiles DEF SoundInvariant, PrepareKnown, disk, IdleRecv
  <1>2. SameObjects
    <2>1. o \in Obj /\ obj[o] # NoObj
      BY DEF SoundInvariant, TypeInvariant, TypeOK, StationsFilled, ReferencesAllocated, PrepareKnown
    <2>2. obj' = obj \/ \E a \in Addr : obj' = [obj EXCEPT ![o] = [obj[o] EXCEPT !.addr = a]]
      BY DEF PrepareKnown
    <2>. QED
      BY <2>1, <2>2, AddrOnly, UnchangedObjects DEF SoundInvariant
  <1>. QED
    BY <1>1, <1>2, RecvOutside, RecvMoves

LEMMA SoundBeacon ==
  ASSUME SoundInvariant, NEW t \in Tid, Beacon(t)
  PROVE  SoundInvariant'
  <1>. DEFINE o == transfers[t]
  <1>1. /\ TypeInvariant' /\ SameFiles
        /\ UNCHANGED <<transfers, sigIndex, queue, recv, fin, completed, journal, restarts>>
        /\ recv.pc = "idle"
    BY TypedBeacon, UnchangedFiles DEF SoundInvariant, Beacon, RecvReady, disk
  <1>2. SameObjects
    <2>1. o \in Obj /\ obj[o] # NoObj
      BY DEF SoundInvariant, TypeInvariant, TypeOK, ReferencesAllocated, Beacon
    <2>2. \E a \in Addr : obj' = [obj EXCEPT ![o] = [obj[o] EXCEPT !.addr = a]]
      BY DEF Beacon
    <2>. QED
      BY <2>1, <2>2, AddrOnly DEF SoundInvariant
  <1>3. recv.o = NoObj
    BY <1>1 DEF SoundInvariant, ReceiveStation
  <1>. QED
    BY <1>1, <1>2, <1>3, RecvOutside, RecvMoves

LEMMA SoundStale ==
  ASSUME SoundInvariant, NEW t \in Tid, StaleComplete(t)
  PROVE  SoundInvariant'
  <1>. DEFINE o == transfers[t]
  <1>1. /\ TypeInvariant' /\ SameObjects /\ SameFiles
        /\ UNCHANGED <<transfers, sigIndex, obj, queue, fin, completed, journal, restarts>>
        /\ recv.pc = "idle" /\ fin["recv"].pc = "idle"
    BY TypedStale, UnchangedObjects, UnchangedFiles
    DEF SoundInvariant, StaleComplete, RecvReady, disk
  <1>2. recv'.pc = "full" /\ recv'.o = o
    BY DEF StaleComplete, IdleRecv
  <1>3. ~obj'[recv'.o].finalized /\ obj'[recv'.o].got = Chunks(obj'[recv'.o].sig)
    BY <1>1, <1>2 DEF StaleComplete
  <1>4. ReceiveStation' /\ ReceiveEnded'
    BY <1>2, <1>3 DEF ReceiveStation, ReceiveEnded
  <1>. QED
    BY <1>1, <1>2, <1>4, RecvMoves

\* A transfer that can receive has a part file.
LEMMA SoundDataWithoutFile ==
  ASSUME SoundInvariant, NEW t \in Tid, DataWithoutFile(t)
  PROVE  FALSE
  <1>. DEFINE o == transfers[t]
  <1>1. o \in Obj /\ obj[o] # NoObj /\ obj[o].tid = t /\ ~obj[o].finalized
        /\ Chunks(obj[o].sig) # {} /\ Target(obj[o]) = NoInode /\ recv.pc = "idle"
    BY TableFacts DEF SoundInvariant, DataWithoutFile, RecvReady
  <1>2. t \notin Unprepared
    BY <1>1 DEF Unprepared
  <1>3. part[obj[o].part] # NoInode
    BY <1>1 DEF SoundInvariant, Registered
  <1>4. obj[o].map = part[obj[o].part]
    BY <1>1, <1>2 DEF SoundInvariant, Registered
  <1>. QED
    BY <1>1, <1>3, <1>4 DEF Target

-----------------------------------------------------------------------------
(* The maintenance thread. *)

LEMMA SoundFlushJournal ==
  ASSUME SoundInvariant, OneSigPerTid, FlushJournal
  PROVE  SoundInvariant'
  <1>1. TypeInvariant'
    BY TypedFlushJournal DEF SoundInvariant
  <1>2. /\ journal' = JournalOf(transfers', obj')
        /\ UNCHANGED <<transfers, sigIndex, obj, queue, recv, fin, completed,
                       part, temp, final, file, restarts>>
        /\ recv.pc # "truncate"
    BY DEF FlushJournal, LockFree
  <1>3. SameObjects /\ SameFiles
    BY <1>2, UnchangedObjects, UnchangedFiles
  <1>4. Keyed'
    BY <1>2, <1>3, KeyedFrame DEF SoundInvariant
  <1>5. Registered'
    BY <1>2 DEF SoundInvariant, Registered, Unprepared
  <1>6. JournalBacked' /\ JournalKeys'
    BY <1>1, <1>2, <1>4, <1>5, JournalWritten
  <1>7. WaitingWhole' /\ QueuedOnce' /\ OneFinalizer'
    BY <1>2 DEF SoundInvariant, WaitingWhole, Waiting, QueuedOnce, OneFinalizer
  <1>8. ReceiveStation' /\ ReceiveEnded'
    BY <1>2 DEF SoundInvariant, ReceiveStation, ReceiveEnded, ResumableId
  <1>9. FinalizerStation' /\ FinalizerEnded'
    BY <1>2 DEF SoundInvariant, FinalizerStation, FinalizerEnded, AtStation, EndedAt, Abandoned,
                Waiting, TempName
  <1>10. FilesSound' /\ NoneFailed'
    BY <1>2, <1>3, FilesFrame DEF SoundInvariant, NoneFailed, Unsized, TempName
  <1>. QED
    BY <1>1, <1>4, <1>5, <1>6, <1>7, <1>8, <1>9, <1>10 DEF SoundInvariant

LEMMA SoundFlushMmap ==
  ASSUME SoundInvariant, NEW t \in Tid, FlushMmap(t)
  PROVE  SoundInvariant'
  <1>. DEFINE o == transfers[t]
              y == [obj[o] EXCEPT !.unsynced = {}]
  <1>1. TypeInvariant'
    BY TypedFlushMmap DEF SoundInvariant
  <1>2. /\ obj' = [obj EXCEPT ![o] = y]
        /\ UNCHANGED <<transfers, sigIndex, queue, recv, fin, completed, journal, restarts,
                       part, temp, final, file>>
        /\ recv.pc \notin {"truncate", "map"}
    BY DEF FlushMmap, disk, LockFree
  <1>3. SameObjects
    <2>1. o \in Obj /\ obj[o] # NoObj /\ obj[o] \in TransferRec
      BY ObjectTyped
      DEF FlushMmap, SoundInvariant, TypeInvariant, TypeOK, ReferencesAllocated
    <2>2. /\ y \in TransferRec /\ y.tid = obj[o].tid /\ y.sig = obj[o].sig /\ y.part = obj[o].part
          /\ y.got = obj[o].got /\ y.map = obj[o].map /\ y.finalized = obj[o].finalized
      BY <2>1 DEF TransferRec
    <2>3. y # NoObj
      BY <2>2, NoneAssumption
    <2>4. \A z \in Obj : obj'[z] = IF z = o THEN y ELSE obj[z]
      BY <1>2 DEF SoundInvariant, TypeInvariant, TypeOK
    <2>. HIDE DEF y
    <2>. QED
      BY <2>1, <2>2, <2>3, <2>4 DEF SameObjects
  <1>4. SameFiles
    BY <1>2, UnchangedFiles
  <1>5. \A t_1 \in Tid : Kept(t_1)
    BY <1>4, SameKept
  <1>6. \A z \in Obj : Waiting(z)' => Waiting(z)
    BY <1>2, WaitingLess
  <1>7. Keyed' /\ Registered' /\ FilesSound' /\ JournalBacked' /\ JournalKeys' /\ NoneFailed'
    <2>1. Unprepared \subseteq Unprepared'
      BY <1>2 DEF Unprepared
    <2>2. \A u \in Tid : Unsized(u) => Unsized(u)'
      BY <1>2 DEF Unsized, TempName
    <2>. QED
      BY <1>2, <1>3, <1>4, <2>1, <2>2, Untouched
  <1>8. WaitingWhole'
    <2>1. ASSUME NEW z \in Obj, Waiting(z)' PROVE obj[z].part \in Tid
      BY <1>6, <2>1, WaitingExists, ObjectTyped DEF SoundInvariant
    <2>2. \A z \in Obj : Waiting(z)' =>
            /\ Waiting(z)
            /\ obj'[z].sig = obj[z].sig /\ obj'[z].part = obj[z].part
            /\ obj'[z].finalized <=> obj[z].finalized
            /\ Kept(obj[z].part)
      BY <1>3, <1>5, <1>6, <2>1 DEF SameObjects
    <2>. QED
      BY <1>1, <2>2, WaitingFrame DEF SoundInvariant
  <1>9. QueuedOnce' /\ OneFinalizer'
    BY <1>2, QueueFrame DEF SoundInvariant, OneFinalizer
  <1>10. ReceiveStation' /\ ReceiveEnded'
    <2>1. recv.pc = "dead" => recv.tid \in Tid
      BY DEF SoundInvariant, TypeInvariant, StationsFilled
    <2>. QED
      BY <1>2, <1>3, <1>5, <2>1, RecvFrame DEF SoundInvariant
  <1>11. FinalizerStation' /\ FinalizerEnded'
    <2>1. \A z \in Obj : Abandoned(z) => Abandoned(z)' /\ obj'[z].sig = obj[z].sig
      BY <1>2, <1>3, <1>6, AbandonedKept
    <2>2. /\ \A x \in Tid \X Name : temp[x] # NoInode => Stays(temp[x])
          /\ \A n \in Name : final[n] # NoInode => Stays(final[n])
      BY <1>4, SameStays DEF SameFiles
    <2>. QED
      BY <1>1, <1>2, <1>3, <2>1, <2>2, FinFrame DEF SoundInvariant, SameObjects
  <1>. QED
    BY <1>1, <1>7, <1>8, <1>9, <1>10, <1>11 DEF SoundInvariant

-----------------------------------------------------------------------------
(* The queue. *)

\* What a thread takes up is registered, whole, and in no other hands.
LEMMA FrameAt ==
  ASSUME SoundInvariant, NEW o \in Obj, Waiting(o), NEW th \in Thread, fin'[th] = Frame(o),
         obj' = obj
  PROVE  AtStation(fin[th])' /\ fin'[th].pc = "hash" /\ fin'[th].o = o
  <1>1. obj[o] # NoObj /\ obj[o].finalized
    BY WaitingExists DEF SoundInvariant
  <1>2. <<obj[o].tid, obj[o].sig>> \in Sessions /\ <<obj[o].part, obj[o].sig>> \in Sessions
    BY <1>1, ObjectFacts DEF SoundInvariant
  <1>. DEFINE g == Frame(o)
  <1>3. /\ g.pc = "hash" /\ g.o = o /\ g.tid = obj[o].tid /\ g.sig = obj[o].sig
        /\ g.part = obj[o].part
    BY DEF Frame
  <1>. HIDE DEF g
  <1>4. fin'[th] = g
    BY DEF g
  <1>. QED
    BY <1>1, <1>2, <1>3, <1>4 DEF AtStation

LEMMA SoundPut ==
  ASSUME SoundInvariant, PutFinalization
  PROVE  SoundInvariant'
  <1>. DEFINE o == recv.o
  <1>1. TypeInvariant'
    BY TypedPut DEF SoundInvariant
  <1>2. /\ UNCHANGED <<transfers, sigIndex, obj, completed, journal, restarts,
                       part, temp, final, file>>
        /\ recv.pc = "put" /\ recv'.pc = "idle" /\ recv'.o = NoObj
    BY DEF PutFinalization, disk, IdleRecv
  <1>3. SameObjects /\ SameFiles
    BY <1>2, UnchangedObjects, UnchangedFiles
  <1>4. o \in Obj /\ o # NoObj /\ queue \in Seq(Obj) /\ "recv" \in Thread /\ "worker" \in Thread
    BY <1>2, NoneAssumption DEF SoundInvariant, TypeInvariant, TypeOK, StationsFilled, Thread
  <1>5. Waiting(o)
    BY <1>2, <1>4 DEF Waiting
  <1>6. fin["recv"].pc = "idle"
    BY <1>2 DEF SoundInvariant, OneFinalizer
  <1>7. ReceiveStation' /\ ReceiveEnded' /\ Unprepared' = {}
    BY <1>2, RecvOutside
  <1>8. Keyed' /\ Registered' /\ JournalBacked' /\ JournalKeys' /\ NoneFailed'
    BY <1>2 DEF SoundInvariant, Keyed, Registered, JournalBacked, JournalKeys, NoneFailed,
                Unprepared
  <1>9. \A k \in 1 .. Len(queue) : o # queue[k] /\ \A th \in Thread : fin[th].o # queue[k]
    BY <1>2 DEF SoundInvariant, QueuedOnce
  <1>10. \A th \in Thread : o # fin[th].o
    BY <1>2 DEF SoundInvariant, QueuedOnce
  <1>11. \A k, l \in 1 .. Len(queue) : queue[k] = queue[l] => k = l
    BY DEF SoundInvariant, QueuedOnce
  <1>12. CASE fin["worker"].pc # "dead"
    <2>1. queue' = Append(queue, o) /\ fin' = fin
      BY <1>12 DEF PutFinalization
    <2>2. /\ Len(queue') = Len(queue) + 1 /\ Len(queue) \in Nat
          /\ \A k \in 1 .. Len(queue) : queue'[k] = queue[k]
          /\ queue'[Len(queue) + 1] = o
      BY <1>4, <2>1, AppendProperties, LenProperties
    <2>3. \A k \in 1 .. Len(queue') : k \in 1 .. Len(queue) \/ k = Len(queue) + 1
      BY <2>2
    <2>4. \A k \in 1 .. Len(queue') : queue'[k] = o \/ \E l \in 1 .. Len(queue) : queue'[k] = queue[l]
      BY <2>2, <2>3
    <2>5. \A z \in Obj : Waiting(z)' => Waiting(z)
      BY <1>2, <1>5, <2>1, <2>4 DEF Waiting
    <2>6. QueuedOnce'
      <3>1. \A k, l \in 1 .. Len(queue') : queue'[k] = queue'[l] => k = l
        BY <1>9, <1>11, <2>2, <2>3
      <3>2. \A k \in 1 .. Len(queue') : \A th \in Thread : fin'[th].o # queue'[k]
        BY <1>9, <1>10, <2>1, <2>4
      <3>. QED
        BY <1>2, <3>1, <3>2 DEF QueuedOnce
    <2>7. WaitingWhole'
      BY <1>2, <2>5 DEF SoundInvariant, WaitingWhole
    <2>8. FinalizerStation' /\ FinalizerEnded' /\ OneFinalizer'
      BY <1>2, <2>1, <2>5 DEF SoundInvariant, FinalizerStation, FinalizerEnded, OneFinalizer,
                              AtStation, EndedAt, Abandoned, TempName
    <2>9. FilesSound'
      BY <1>2, <1>3, <2>1, FilesFrame DEF SoundInvariant, Unsized, TempName
    <2>. QED
      BY <1>1, <1>7, <1>8, <2>6, <2>7, <2>8, <2>9 DEF SoundInvariant
  <1>13. CASE fin["worker"].pc = "dead"
    <2>1. queue' = queue /\ fin' = [fin EXCEPT !["recv"] = Frame(o)]
      BY <1>13 DEF PutFinalization
    <2>2. fin'["recv"] = Frame(o) /\ fin'["worker"] = fin["worker"]
      BY <1>4, <2>1 DEF SoundInvariant, TypeInvariant, TypeOK
    <2>3. AtStation(fin["recv"])' /\ fin'["recv"].pc = "hash" /\ fin'["recv"].o = o
      BY <1>2, <1>4, <1>5, <2>2, FrameAt
    <2>4. \A th \in Thread : th = "recv" \/ fin'[th] = fin[th]
      BY <2>2 DEF Thread
    <2>5. \A z \in Obj : Waiting(z)' => Waiting(z)
      <3>1. ASSUME NEW z \in Obj, NEW th \in Thread, fin'[th].o = z,
                   fin'[th].pc \in {"hash", "link", "copy", "place"}
            PROVE  Waiting(z)
        <4>1. CASE th = "recv"
          BY <1>5, <2>3, <3>1, <4>1
        <4>2. CASE fin'[th] = fin[th]
          BY <3>1, <4>2 DEF Waiting
        <4>. QED
          BY <2>4, <4>1, <4>2
      <3>. QED
        BY <1>2, <2>1, <3>1 DEF Waiting
    <2>6. QueuedOnce'
      <3>1. \A k \in 1 .. Len(queue) : \A th \in Thread : fin'[th].o # queue[k]
        BY <1>9, <2>3, <2>4
      <3>. QED
        BY <1>2, <1>11, <2>1, <3>1 DEF QueuedOnce
    <2>7. WaitingWhole'
      BY <1>2, <2>5 DEF SoundInvariant, WaitingWhole
    <2>8. OneFinalizer'
      BY <1>2, <1>13, <2>2 DEF OneFinalizer
    <2>9. FinalizerStation' /\ FinalizerEnded'
      <3>1. \A z \in Obj : Abandoned(z) => Abandoned(z)' /\ obj'[z].sig = obj[z].sig
        <4>1. ASSUME NEW z \in Obj, Abandoned(z) PROVE \A th \in Thread : fin'[th].o # z
          BY <1>5, <2>3, <2>4, <4>1 DEF Abandoned
        <4>. QED
          BY <1>2, <2>5, <4>1 DEF Abandoned
      <3>2. AtStation(fin["worker"])' /\ (fin'["worker"].pc = "dead" => EndedAt(fin["worker"])')
        <4>1. "recv" # "worker"
          OBVIOUS
        <4>. QED
          BY <1>2, <1>4, <1>13, <2>2, <3>1, <4>1, MoveFrame DEF SoundInvariant
      <3>. QED
        BY <2>3, <3>2 DEF FinalizerStation, FinalizerEnded, Thread
    <2>10. FilesSound'
      <3>1. \A t \in Tid : Unsized(t) => Unsized(t)'
        <4>1. \A th \in Thread : fin[th].pc = "copy" => fin'[th] = fin[th]
          BY <1>6, <2>4
        <4>. QED
          BY <1>2, <4>1 DEF Unsized, TempName
      <3>. QED
        BY <1>3, <3>1, FilesFrame DEF SoundInvariant
    <2>. QED
      BY <1>1, <1>7, <1>8, <2>6, <2>7, <2>8, <2>9, <2>10 DEF SoundInvariant
  <1>. QED
    BY <1>12, <1>13

LEMMA SoundTake ==
  ASSUME SoundInvariant, TakeFinalization
  PROVE  SoundInvariant'
  <1>. DEFINE o == Head(queue)
  <1>1. TypeInvariant'
    BY TypedTake DEF SoundInvariant
  <1>2. /\ UNCHANGED <<transfers, sigIndex, obj, recv, completed, journal, restarts,
                       part, temp, final, file>>
        /\ fin' = [fin EXCEPT !["worker"] = Frame(o)]
        /\ queue' = Tail(queue) /\ queue # <<>>
        /\ fin["worker"].pc = "idle"
    BY DEF TakeFinalization, disk
  <1>3. queue \in Seq(Obj) /\ "recv" \in Thread /\ "worker" \in Thread
    BY DEF SoundInvariant, TypeInvariant, TypeOK, Thread
  <1>4. /\ o \in Obj /\ o = queue[1] /\ Len(queue) \in Nat /\ 1 \in 1 .. Len(queue)
        /\ Len(queue') = Len(queue) - 1
        /\ \A k \in 1 .. Len(queue') : queue'[k] = queue[k + 1] /\ k + 1 \in 1 .. Len(queue)
    BY <1>2, <1>3, HeadTailProperties, LenProperties
  <1>5. SameObjects /\ SameFiles
    BY <1>2, UnchangedObjects, UnchangedFiles
  <1>6. Waiting(o)
    BY <1>4 DEF Waiting
  <1>7. fin'["recv"] = fin["recv"] /\ fin'["worker"] = Frame(o) /\ fin["recv"].pc = "idle"
    BY <1>2, <1>3 DEF SoundInvariant, TypeInvariant, TypeOK, OneFinalizer
  <1>8. AtStation(fin["worker"])' /\ fin'["worker"].pc = "hash" /\ fin'["worker"].o = o
    BY <1>2, <1>3, <1>4, <1>6, <1>7, FrameAt
  <1>9. \A th \in Thread : th = "worker" \/ fin'[th] = fin[th]
    BY <1>7 DEF Thread
  <1>10. \A z \in Obj : Waiting(z)' => Waiting(z)
    <2>1. ASSUME NEW z \in Obj, NEW th \in Thread, fin'[th].o = z,
                 fin'[th].pc \in {"hash", "link", "copy", "place"}
          PROVE  Waiting(z)
      <3>1. CASE th = "worker"
        BY <1>6, <1>8, <2>1, <3>1
      <3>2. CASE fin'[th] = fin[th]
        BY <2>1, <3>2 DEF Waiting
      <3>. QED
        BY <1>9, <3>1, <3>2
    <2>. QED
      BY <1>2, <1>4, <2>1 DEF Waiting
  <1>11. Keyed' /\ Registered' /\ JournalBacked' /\ JournalKeys' /\ NoneFailed'
    BY <1>2 DEF SoundInvariant, Keyed, Registered, JournalBacked, JournalKeys, NoneFailed,
                Unprepared
  <1>12. WaitingWhole'
    BY <1>2, <1>10 DEF SoundInvariant, WaitingWhole
  <1>13. QueuedOnce'
    <2>1. \A k, l \in 1 .. Len(queue) : queue[k] = queue[l] => k = l
      BY DEF SoundInvariant, QueuedOnce
    <2>2. \A k \in 1 .. Len(queue) :
            /\ recv.pc = "put" => recv.o # queue[k]
            /\ \A th \in Thread : fin[th].o # queue[k]
      BY DEF SoundInvariant, QueuedOnce
    <2>3. recv.pc = "put" => \A th \in Thread : recv.o # fin[th].o
      BY DEF SoundInvariant, QueuedOnce
    <2>4. \A k, l \in 1 .. Len(queue') : queue'[k] = queue'[l] => k = l
      BY <1>4, <2>1
    <2>5. \A k \in 1 .. Len(queue') : o # queue'[k]
      BY <1>4, <2>1
    <2>6. \A k \in 1 .. Len(queue') :
            /\ recv'.pc = "put" => recv'.o # queue'[k]
            /\ \A th \in Thread : fin'[th].o # queue'[k]
      BY <1>2, <1>4, <1>8, <1>9, <2>2, <2>5
    <2>7. recv'.pc = "put" => \A th \in Thread : recv'.o # fin'[th].o
      BY <1>2, <1>4, <1>8, <1>9, <2>2, <2>3
    <2>. QED
      BY <2>4, <2>6, <2>7 DEF QueuedOnce
  <1>14. ReceiveStation' /\ ReceiveEnded'
    BY <1>2 DEF SoundInvariant, ReceiveStation, ReceiveEnded, ResumableId
  <1>15. OneFinalizer' /\ FinalizerStation' /\ FinalizerEnded'
    <2>1. AtStation(fin["recv"])
      BY <1>3 DEF SoundInvariant, FinalizerStation
    <2>2. AtStation(fin["recv"])'
      BY <1>7, <2>1 DEF AtStation
    <2>. QED
      BY <1>2, <1>7, <1>8, <2>2 DEF OneFinalizer, FinalizerStation, FinalizerEnded, Thread
  <1>16. FilesSound'
    <2>1. \A t \in Tid : Unsized(t) => Unsized(t)'
      <3>1. \A th \in Thread : fin[th].pc = "copy" => fin'[th] = fin[th]
        BY <1>2, <1>9
      <3>. QED
        BY <1>2, <3>1 DEF Unsized, TempName
    <2>. QED
      BY <1>5, <2>1, FilesFrame DEF SoundInvariant
  <1>. QED
    BY <1>1, <1>11, <1>12, <1>13, <1>14, <1>15, <1>16 DEF SoundInvariant

-----------------------------------------------------------------------------
(* The finalization. *)

\* What a finalizing thread works on, while the transfer is in its hands.
LEMMA HeldObject ==
  ASSUME SoundInvariant, NEW th \in Thread,
         fin[th].pc \in {"hash", "link", "copy", "place", "utime", "unlink", "finish"}
  PROVE  LET f == fin[th] IN
         /\ f.o \in Obj /\ obj[f.o] # NoObj /\ f.tid \in Tid /\ f.sig \in Sig /\ f.part \in Tid
         /\ obj[f.o].part = f.part /\ obj[f.o].sig = f.sig /\ obj[f.o].finalized
         /\ <<f.tid, f.sig>> \in Sessions /\ <<f.part, f.sig>> \in Sessions
         /\ ResumableId(f.sig) # NoTid
         /\ TempName(f) \in Tid \X Name /\ FileName[f.sig] \in Name
  <1>. DEFINE f == fin[th]
  <1>1. f.o \in Obj /\ obj[f.o] # NoObj /\ f.tid \in Tid /\ f.sig \in Sig /\ f.part \in Tid
    BY NoneAssumption DEF SoundInvariant, TypeInvariant, StationsFilled, ReferencesAllocated
  <1>2. /\ obj[f.o].sig = f.sig /\ obj[f.o].part = f.part /\ obj[f.o].finalized
        /\ <<f.tid, f.sig>> \in Sessions /\ <<f.part, f.sig>> \in Sessions
    BY DEF SoundInvariant, FinalizerStation, AtStation
  <1>3. ResumableId(f.sig) # NoTid
    BY <1>1, <1>2, ObjectFacts DEF SoundInvariant
  <1>4. TempName(f) \in Tid \X Name /\ FileName[f.sig] \in Name
    BY <1>1, ManifestAssumption DEF TempName
  <1>. QED
    BY <1>1, <1>2, <1>3, <1>4

\* Until it is placed, its part file is there, whole.
LEMMA HeldFile ==
  ASSUME SoundInvariant, NEW th \in Thread, fin[th].pc \in {"hash", "link", "copy", "place"}
  PROVE  LET f == fin[th] IN
         /\ Waiting(f.o)
         /\ part[f.part] \in Inode /\ part[f.part] # NoInode
         /\ file[part[f.part]] \in File
         /\ file[part[f.part]].bytes = Whole(f.sig)
  <1>. DEFINE f == fin[th]
  <1>1. f.o \in Obj /\ f.part \in Tid /\ obj[f.o].part = f.part /\ obj[f.o].sig = f.sig
    BY HeldObject
  <1>2. Waiting(f.o)
    BY <1>1 DEF Waiting
  <1>3. part[f.part] # NoInode /\ file[part[f.part]].bytes = Whole(f.sig)
    BY <1>1, <1>2 DEF SoundInvariant, WaitingWhole
  <1>. QED
    BY <1>1, <1>2, <1>3, PathFacts DEF SoundInvariant

LEMMA SoundMissing ==
  ASSUME SoundInvariant, NEW th \in Thread, PartMissing(th)
  PROVE  FALSE
  BY HeldFile DEF PartMissing

LEMMA SoundUnlink ==
  ASSUME SoundInvariant, NEW th \in Thread, Unlink(th)
  PROVE  FALSE
  BY DEF SoundInvariant, FinalizerStation, AtStation, Unlink

\* A step of a finalizing thread that keeps the files the rest of the state is
\* about.
LEMMA FinMoves ==
  ASSUME SoundInvariant, TypeInvariant', SameObjects, FilesSound', NEW th \in Thread,
         UNCHANGED <<transfers, sigIndex, queue, recv, completed, journal, restarts>>,
         fin[th].pc \notin {"idle", "dead"},
         \A u \in Thread : u # th => fin'[u] = fin[u],
         fin'[th].o \in {fin[th].o, NoObj},
         fin'[th].pc \in {"hash", "link", "copy", "place"} =>
           fin[th].pc \in {"hash", "link", "copy", "place"} /\ fin'[th].o = fin[th].o,
         AtStation(fin[th])', fin'[th].pc = "dead" => EndedAt(fin[th])',
         \A o \in Obj : Waiting(o)' => Kept(obj[o].part),
         \A o \in Obj : obj[o] # NoObj =>
           Kept(obj[o].part) \/ (obj[o].finalized /\ part'[obj[o].part] = NoInode),
         \A r \in journal : Kept(r.part),
         recv.pc \in {"truncate", "map"} => part'[recv.tid] = part[recv.tid],
         recv.pc = "truncate" =>
           /\ \A x \in Tid \X Name : temp'[x] # part[recv.tid]
           /\ \A n \in Name : final'[n] # part[recv.tid],
         \A u \in Thread : u # th /\ fin[u].pc = "dead" =>
           /\ part'[fin[u].part] = part[fin[u].part]
           /\ temp'[TempName(fin[u])] = temp[TempName(fin[u])]
  PROVE  SoundInvariant'
  <1>1. \A u \in Thread : /\ fin'[u].o \in {fin[u].o, NoObj}
                          /\ fin'[u].pc \in {"hash", "link", "copy", "place"} =>
                               /\ fin[u].pc \in {"hash", "link", "copy", "place"}
                               /\ fin'[u].o = fin[u].o
    OBVIOUS
  <1>2. \A o \in Obj : Waiting(o)' => Waiting(o)
    BY <1>1, WaitingLess
  <1>3. Keyed'
    BY KeyedFrame DEF SoundInvariant
  <1>4. Registered'
    BY RegisteredFrame DEF SoundInvariant, Unprepared
  <1>5. WaitingWhole'
    <2>1. \A o \in Obj : Waiting(o)' =>
            /\ Waiting(o)
            /\ obj'[o].sig = obj[o].sig /\ obj'[o].part = obj[o].part
            /\ obj'[o].finalized <=> obj[o].finalized
            /\ Kept(obj[o].part)
      BY <1>2 DEF SameObjects
    <2>. QED
      BY <2>1, WaitingFrame DEF SoundInvariant
  <1>6. QueuedOnce'
    BY <1>1, QueueFrame DEF SoundInvariant
  <1>7. ReceiveStation' /\ ReceiveEnded'
    <2>1. recv.pc = "dead" => Kept(recv.tid)
      <3>. SUFFICES ASSUME recv.pc = "dead" PROVE Kept(recv.tid)
        OBVIOUS
      <3>. DEFINE o == transfers[recv.tid]
      <3>1. o # NoObj /\ obj[o].part = recv.tid /\ ~obj[o].finalized /\ recv.tid \in Tid
        BY DEF SoundInvariant, ReceiveEnded, TypeInvariant, StationsFilled
      <3>2. o \in Obj /\ obj[o] # NoObj
        BY <3>1, TableFacts DEF SoundInvariant
      <3>. QED
        BY <3>1, <3>2
    <2>. QED
      BY <2>1, RecvFrame DEF SoundInvariant
  <1>8. OneFinalizer'
    BY OtherThread DEF SoundInvariant
  <1>9. FinalizerStation' /\ FinalizerEnded'
    <2>1. \A o \in Obj : Abandoned(o) => Abandoned(o)' /\ obj'[o].sig = obj[o].sig
      BY <1>1, <1>2, AbandonedKept
    <2>2. ASSUME NEW u \in Thread, u # th
          PROVE  AtStation(fin[u])' /\ (fin'[u].pc = "dead" => EndedAt(fin[u])')
      <3>1. fin[u].pc \in {"idle", "dead"} /\ fin'[u] = fin[u]
        BY <2>2, OtherThread DEF SoundInvariant
      <3>. QED
        BY <2>1, <2>2, <3>1, MoveFrame DEF SoundInvariant
    <2>. QED
      BY <2>2, FinalizersStep
  <1>10. JournalBacked' /\ JournalKeys'
    <2>1. ASSUME NEW q \in Obj, NEW r \in journal, obj'[q] # NoObj, obj'[q].finalized
          PROVE  obj'[q].sig # r.sig
      <3>1. obj[q] # NoObj /\ obj[q].finalized /\ obj'[q].sig = obj[q].sig
        BY <2>1 DEF SameObjects
      <3>2. obj[q].sig # r.sig
        BY <3>1, JournalFacts DEF SoundInvariant
      <3>. QED
        BY <3>1, <3>2
    <2>. QED
      BY <2>1, JournalKept DEF SoundInvariant
  <1>11. NoneFailed'
    BY DEF SoundInvariant, NoneFailed
  <1>. QED
    BY <1>3, <1>4, <1>5, <1>6, <1>7, <1>8, <1>9, <1>10, <1>11 DEF SoundInvariant

\* A step of a finalizing thread that changes no path and no byte of a file.
LEMMA FinMovesOnly ==
  ASSUME SoundInvariant, TypeInvariant', SameObjects, SameFiles, NEW th \in Thread,
         UNCHANGED <<transfers, sigIndex, queue, recv, completed, journal, restarts>>,
         fin[th].pc \notin {"idle", "dead", "copy"},
         \A u \in Thread : u # th => fin'[u] = fin[u],
         fin'[th].o \in {fin[th].o, NoObj},
         fin'[th].pc \in {"hash", "link", "copy", "place"} =>
           fin[th].pc \in {"hash", "link", "copy", "place"} /\ fin'[th].o = fin[th].o,
         AtStation(fin[th])', fin'[th].pc = "dead" => EndedAt(fin[th])'
  PROVE  SoundInvariant'
  <1>1. \A t \in Tid : Kept(t)
    BY SameKept
  <1>2. FilesSound'
    <2>1. \A t \in Tid : Unsized(t) => Unsized(t)'
      <3>1. \A u \in Thread : fin[u].pc = "copy" => fin'[u] = fin[u]
        OBVIOUS
      <3>. QED
        BY <3>1 DEF Unsized, TempName, SameFiles
    <2>. QED
      BY <2>1, FilesFrame DEF SoundInvariant
  <1>3. \A o \in Obj : obj[o] # NoObj => obj[o].part \in Tid
    BY ObjectTyped DEF SoundInvariant
  <1>4. \A o \in Obj : Waiting(o)' => Waiting(o)
    <2>1. \A u \in Thread : fin'[u].pc \in {"hash", "link", "copy", "place"} =>
            fin[u].pc \in {"hash", "link", "copy", "place"} /\ fin'[u].o = fin[u].o
      OBVIOUS
    <2>. QED
      BY <2>1, WaitingLess
  <1>5. \A o \in Obj : Waiting(o)' => Kept(obj[o].part)
    <2>1. ASSUME NEW o \in Obj, Waiting(o)' PROVE obj[o] # NoObj
      BY <1>4, <2>1, WaitingExists DEF SoundInvariant
    <2>. QED
      BY <1>1, <1>3, <2>1
  <1>6. \A r \in journal : Kept(r.part)
    BY <1>1, JournalFacts DEF SoundInvariant
  <1>7. recv.pc = "truncate" =>
           /\ \A x \in Tid \X Name : temp'[x] # part[recv.tid]
           /\ \A n \in Name : final'[n] # part[recv.tid]
    BY DEF SoundInvariant, ReceiveStation, SameFiles
  <1>. QED
    BY <1>1, <1>2, <1>3, <1>5, <1>6, <1>7, FinMoves DEF SameFiles

LEMMA SoundHash ==
  ASSUME SoundInvariant, NEW th \in Thread, Hash(th)
  PROVE  SoundInvariant'
  <1>. DEFINE f == fin[th]
              pc == IF KeepPart THEN "link" ELSE "place"
  <1>1. TypeInvariant'
    BY TypedHash DEF SoundInvariant
  <1>2. /\ f.pc = "hash"
        /\ UNCHANGED <<transfers, sigIndex, obj, queue, recv, completed, journal, restarts,
                       part, temp, final, file>>
    BY DEF Hash, disk
  <1>3. fin' = [fin EXCEPT ![th].pc = pc]
    BY <1>2, HeldFile DEF Hash
  <1>4. pc \in {"link", "place"} /\ (pc = "link" <=> KeepPart)
    BY ConfigAssumption
  <1>. HIDE DEF pc
  <1>5. /\ fin'[th].pc = pc /\ fin'[th].state = f.state
        /\ \A h \in Thread : /\ fin'[h].o = fin[h].o /\ fin'[h].tid = fin[h].tid
                             /\ fin'[h].sig = fin[h].sig /\ fin'[h].part = fin[h].part
                             /\ h # th => fin'[h] = fin[h]
    BY <1>3, <1>4, MoveTyped DEF SoundInvariant
  <1>6. SameObjects /\ SameFiles
    BY <1>2, UnchangedObjects, UnchangedFiles
  <1>7. AtStation(fin[th])'
    <2>1. AtStation(f)
      BY DEF SoundInvariant, FinalizerStation
    <2>. QED
      BY <1>2, <1>4, <1>5, <2>1 DEF AtStation
  <1>. QED
    BY <1>1, <1>2, <1>4, <1>5, <1>6, <1>7, FinMovesOnly

LEMMA SoundReport ==
  ASSUME SoundInvariant, NEW th \in Thread, Report(th)
  PROVE  SoundInvariant'
  <1>1. TypeInvariant'
    BY TypedReport DEF SoundInvariant
  <1>2. /\ fin[th].pc = "report"
        /\ UNCHANGED <<transfers, sigIndex, obj, queue, recv, completed, journal, restarts,
                       part, temp, final, file>>
        /\ fin' = [fin EXCEPT ![th] = IdleFin]
    BY DEF Report, disk
  <1>3. /\ fin'[th] = IdleFin
        /\ \A u \in Thread : u # th => fin'[u] = fin[u]
    BY <1>2 DEF SoundInvariant, TypeInvariant, TypeOK
  <1>4. fin'[th].pc = "idle" /\ fin'[th].o = NoObj
    BY <1>3 DEF IdleFin
  <1>5. SameObjects /\ SameFiles
    BY <1>2, UnchangedObjects, UnchangedFiles
  <1>6. AtStation(fin[th])'
    BY <1>4 DEF AtStation
  <1>. QED
    BY <1>1, <1>2, <1>3, <1>4, <1>5, <1>6, FinMovesOnly

LEMMA SoundUtime ==
  ASSUME SoundInvariant, NEW th \in Thread, Utime(th)
  PROVE  SoundInvariant'
  <1>. DEFINE f == fin[th]
              i == final[FileName[f.sig]]
              g == [f EXCEPT !.pc = "finish", !.state = "COMPLETE"]
  <1>1. TypeInvariant'
    BY TypedUtime DEF SoundInvariant
  <1>2. /\ f.pc = "utime"
        /\ UNCHANGED <<transfers, sigIndex, obj, queue, recv, completed, journal, restarts,
                       part, temp, final>>
        /\ file' = [file EXCEPT ![i].mtime = SourceMtime[f.sig]]
        /\ fin' = [fin EXCEPT ![th] = g]
    BY DEF Utime
  <1>3. /\ fin'[th].pc = "finish" /\ fin'[th].state = "COMPLETE"
        /\ \A h \in Thread : /\ fin'[h].o = fin[h].o /\ fin'[h].tid = fin[h].tid
                             /\ fin'[h].sig = fin[h].sig /\ fin'[h].part = fin[h].part
                             /\ h # th => fin'[h] = fin[h]
    <2>1. fin' = [fin EXCEPT ![th] = [f EXCEPT !.pc = "finish", !.state = "COMPLETE"]]
      BY <1>2
    <2>2. TypeOK
      BY DEF SoundInvariant, TypeInvariant
    <2>. QED
      BY <2>1, <2>2, StepTyped DEF State
  <1>. HIDE DEF g
  <1>4. SameObjects
    BY <1>2, UnchangedObjects
  <1>5. i # NoInode
    BY <1>2 DEF SoundInvariant, FinalizerStation, AtStation
  <1>6. i \in Inode /\ file[i] \in File
    BY <1>2, <1>5, HeldObject, PathFacts DEF SoundInvariant
  <1>7. \A j \in Inode : file'[j].bytes = file[j].bytes
    <2>. DEFINE y == [file[i] EXCEPT !.mtime = SourceMtime[f.sig]]
    <2>1. y.bytes = file[i].bytes
      BY <1>6 DEF File
    <2>2. \A j \in Inode : file'[j] = IF j = i THEN y ELSE file[j]
      BY <1>2 DEF SoundInvariant, TypeInvariant, TypeOK
    <2>. HIDE DEF y
    <2>. QED
      BY <2>1, <2>2
  <1>8. SameFiles
    <2>1. part' = part /\ temp' = temp /\ final' = final
      BY <1>2
    <2>2. \A t \in Tid : part[t] # NoInode => file'[part[t]].bytes = file[part[t]].bytes
      BY <1>7, PathFacts DEF SoundInvariant
    <2>3. \A x \in Tid \X Name : temp[x] # NoInode => file'[temp[x]].bytes = file[temp[x]].bytes
      BY <1>7, PathFacts DEF SoundInvariant
    <2>4. \A n \in Name : final[n] # NoInode => file'[final[n]].bytes = file[final[n]].bytes
      BY <1>7, PathFacts DEF SoundInvariant
    <2>. QED
      BY <2>1, <2>2, <2>3, <2>4 DEF SameFiles
  <1>9. AtStation(fin[th])'
    <2>1. AtStation(f)
      BY DEF SoundInvariant, FinalizerStation
    <2>. QED
      BY <1>2, <1>3, <2>1 DEF AtStation
  <1>. QED
    BY <1>1, <1>2, <1>3, <1>4, <1>8, <1>9, FinMovesOnly

\* No object is collected while it is registered.
LEMMA NothingCollected ==
  ASSUME TypeInvariant, Keyed, Registered, NEW fi
  PROVE  Referenced(obj, transfers, fi) = obj
  <1>1. ASSUME NEW o \in Obj, obj[o] # NoObj PROVE \E t \in Tid : transfers[t] = o
    BY <1>1, ObjectFacts
  <1>2. obj \in [Obj -> TransferRec \cup {NoObj}]
    BY DEF TypeInvariant, TypeOK
  <1>. QED
    BY <1>1, <1>2 DEF Referenced

LEMMA SoundLinkToItself ==
  ASSUME SoundInvariant, NEW th \in Thread, LinkToItself(th)
  PROVE  SoundInvariant'
  <1>. DEFINE f == fin[th]
              g == Ended(f)
  <1>1. TypeInvariant'
    BY TypedLinkToItself DEF SoundInvariant
  <1>2. /\ f.pc = "link" /\ part[f.part] # NoInode /\ temp[TempName(f)] = part[f.part]
        /\ UNCHANGED <<transfers, sigIndex, queue, recv, completed, journal, restarts,
                       part, temp, final, file>>
        /\ fin' = [fin EXCEPT ![th] = g]
        /\ obj' = Referenced(obj, transfers, fin')
    BY DEF LinkToItself, disk
  <1>3. obj' = obj
    BY <1>2, NothingCollected DEF SoundInvariant
  <1>4. /\ g.pc = "dead" /\ g.o = NoObj /\ g.tid = f.tid /\ g.sig = f.sig /\ g.part = f.part
    <2>1. f \in FinRec
      BY DEF SoundInvariant, TypeInvariant, TypeOK
    <2>. QED
      BY <2>1 DEF Ended, FinRec
  <1>. HIDE DEF g
  <1>5. /\ fin'[th] = g
        /\ \A u \in Thread : u # th => fin'[u] = fin[u]
    BY <1>2 DEF SoundInvariant, TypeInvariant, TypeOK
  <1>6. SameObjects /\ SameFiles
    BY <1>2, <1>3, UnchangedObjects, UnchangedFiles
  <1>7. AtStation(f)
    BY DEF SoundInvariant, FinalizerStation
  <1>8. AtStation(fin[th])'
    BY <1>2, <1>4, <1>5, <1>7 DEF AtStation
  <1>9. EndedAt(fin[th])'
    <2>1. f.o \in Obj /\ f.o # NoObj /\ obj[f.o] # NoObj /\ obj[f.o].sig = f.sig /\ obj[f.o].finalized
      BY <1>2, HeldObject, NoneAssumption
    <2>2. \A u \in Thread : fin'[u].o # f.o
      <3>1. ASSUME NEW u \in Thread, u # th PROVE fin'[u].o = NoObj
        <4>1. fin[u].pc \in {"idle", "dead"}
          BY <1>2, <3>1, OtherThread DEF SoundInvariant
        <4>. QED
          BY <1>5, <3>1, <4>1 DEF SoundInvariant, FinalizerStation, AtStation
      <3>. QED
        BY <1>4, <1>5, <2>1, <3>1
    <2>3. \A k \in 1 .. Len(queue) : queue[k] # f.o
      BY DEF SoundInvariant, QueuedOnce
    <2>4. recv.pc = "put" => recv.o # f.o
      BY DEF SoundInvariant, QueuedOnce
    <2>5. PICK o \in Obj : o = f.o
      BY <2>1
    <2>6. ~Waiting(o)'
      BY <1>2, <2>2, <2>3, <2>4, <2>5 DEF Waiting
    <2>7. Abandoned(o)' /\ obj'[o].sig = f.sig
      BY <1>3, <2>1, <2>2, <2>5, <2>6 DEF Abandoned
    <2>8. /\ fin'[th].part = f.part /\ fin'[th].sig = f.sig
          /\ TempName(fin[th])' = TempName(f)
      BY <1>4, <1>5 DEF TempName
    <2>9. KeepPart
      BY <1>2, <1>7 DEF AtStation
    <2>. QED
      BY <1>2, <2>7, <2>8, <2>9 DEF EndedAt
  <1>. QED
    BY <1>1, <1>2, <1>4, <1>5, <1>6, <1>8, <1>9, FinMovesOnly

\* A file that a path names is not reclaimed.
LEMMA ReclaimKeeps ==
  ASSUME TypeOK, TypeOK', NEW fl \in [Inode -> File \cup {Free}],
         file' = Reclaim(fl, Held(part', temp', final', obj'))
  PROVE  /\ \A t \in Tid : part'[t] # NoInode => file'[part'[t]] = fl[part'[t]]
         /\ \A x \in Tid \X Name : temp'[x] # NoInode => file'[temp'[x]] = fl[temp'[x]]
         /\ \A n \in Name : final'[n] # NoInode => file'[final'[n]] = fl[final'[n]]
  <1>. DEFINE held == Held(part', temp', final', obj')
  <1>1. \A i \in Inode : i \in held => file'[i] = fl[i]
    BY ReclaimTyped
  <1>2. \A t \in Tid : part'[t] # NoInode => part'[t] \in Inode /\ part'[t] \in held
    BY DEF TypeOK, Held
  <1>3. \A x \in Tid \X Name : temp'[x] # NoInode => temp'[x] \in Inode /\ temp'[x] \in held
    BY DEF TypeOK, Held
  <1>4. \A n \in Name : final'[n] # NoInode => final'[n] \in Inode /\ final'[n] \in held
    BY DEF TypeOK, Held
  <1>. QED
    BY <1>1, <1>2, <1>3, <1>4

\* The part file being finalized is not the one being prepared.
LEMMA PreparedApart ==
  ASSUME SoundInvariant, OneSigPerTid, NEW th \in Thread,
         fin[th].pc \in {"hash", "link", "copy", "place"}, recv.pc \in {"truncate", "map"}
  PROVE  recv.tid # fin[th].part /\ part[recv.tid] # part[fin[th].part]
  <1>1. /\ <<recv.tid, recv.sig>> \in Sessions /\ ResumableId(recv.sig) = NoTid /\ recv.tid \in Tid
        /\ part[recv.tid] # NoInode
    BY DEF SoundInvariant, ReceiveStation, TypeInvariant, StationsFilled
  <1>2. /\ <<fin[th].part, fin[th].sig>> \in Sessions /\ ResumableId(fin[th].sig) # NoTid
        /\ fin[th].part \in Tid
    BY HeldObject
  <1>3. recv.tid # fin[th].part
    BY <1>1, <1>2 DEF OneSigPerTid
  <1>. QED
    BY <1>1, <1>2, <1>3 DEF SoundInvariant, FilesSound, PartsSound

LEMMA SoundLink ==
  ASSUME SoundInvariant, OneSigPerTid, NEW th \in Thread, Link(th)
  PROVE  SoundInvariant'
  <1>. DEFINE f == fin[th]
              i == part[f.part]
              x == TempName(f)
  <1>1. TypeInvariant'
    BY TypedLink DEF SoundInvariant
  <1>2. /\ f.pc = "link" /\ i # NoInode /\ temp[x] = NoInode
        /\ UNCHANGED <<transfers, sigIndex, obj, queue, recv, completed, journal, restarts,
                       part, final, file>>
        /\ temp' = [temp EXCEPT ![x] = i]
        /\ fin' = [fin EXCEPT ![th].pc = "place"]
    BY DEF Link
  <1>3. /\ fin'[th].pc = "place" /\ fin'[th].state = f.state
        /\ \A h \in Thread : /\ fin'[h].o = fin[h].o /\ fin'[h].tid = fin[h].tid
                             /\ fin'[h].sig = fin[h].sig /\ fin'[h].part = fin[h].part
                             /\ h # th => fin'[h] = fin[h]
    BY <1>2, MoveTyped DEF SoundInvariant
  <1>4. /\ f.tid \in Tid /\ f.sig \in Sig /\ f.part \in Tid /\ x \in Tid \X Name
        /\ <<f.tid, f.sig>> \in Sessions /\ <<f.part, f.sig>> \in Sessions
        /\ file[i].bytes = Whole(f.sig) /\ i \in Inode
    BY <1>2, HeldObject, HeldFile
  <1>5. AtStation(f) /\ KeepPart
    BY <1>2 DEF SoundInvariant, FinalizerStation, AtStation
  <1>6. temp'[x] = i /\ \A y \in Tid \X Name : y # x => temp'[y] = temp[y]
    BY <1>2, <1>4 DEF SoundInvariant, TypeInvariant, TypeOK
  <1>7. x[2] = FileName[f.sig] /\ x[1] = f.tid /\ TempName(fin[th])' = x
    BY <1>3 DEF TempName
  <1>. HIDE DEF x
  <1>8. \A t \in Tid : Kept(t)
    BY <1>2 DEF Kept, Stays
  <1>9. AtStation(fin[th])'
    BY <1>2, <1>3, <1>4, <1>5, <1>6, <1>7 DEF AtStation
  <1>10. FilesSound'
    <2>1. PartsSound'
      <3>1. \A t \in Tid : Unsized(t) => Unsized(t)'
        <4>1. \A u \in Thread : fin[u].pc # "copy"
          BY <1>2, OtherThread DEF SoundInvariant
        <4>. QED
          BY <1>2, <4>1 DEF Unsized
      <3>. QED
        BY <1>2, <3>1 DEF SoundInvariant, FilesSound, PartsSound
    <2>2. LinksNamed'
      <3>1. LinksNamed
        BY DEF SoundInvariant, FilesSound
      <3>2. ASSUME NEW y \in Tid \X Name, temp'[y] # NoInode
            PROVE  /\ KeepPart
                   /\ \E t \in Tid, s \in Sig :
                        /\ part'[t] = temp'[y] /\ FileName[s] = y[2]
                        /\ <<t, s>> \in Sessions /\ <<y[1], s>> \in Sessions
        <4>1. CASE y = x
          BY <1>2, <1>4, <1>5, <1>6, <1>7, <4>1
        <4>2. CASE y # x
          BY <1>2, <1>6, <3>1, <3>2, <4>2 DEF LinksNamed
        <4>. QED
          BY <4>1, <4>2
      <3>. QED
        BY <1>2, <3>1, <3>2 DEF LinksNamed
    <2>3. FinalWhole'
      <3>1. ASSUME NEW n \in Name, NEW t \in Tid, final[n] # NoInode, temp[<<t, n>>] = final[n]
            PROVE  temp'[<<t, n>>] = final[n]
        BY <1>2, <1>6, <3>1
      <3>. QED
        BY <1>2, <3>1 DEF SoundInvariant, FilesSound, FinalWhole
    <2>. QED
      BY <2>1, <2>2, <2>3 DEF FilesSound
  <1>11. SameObjects
    BY <1>2, UnchangedObjects
  <1>12. \A o \in Obj : obj[o] # NoObj => Kept(obj[o].part)
    BY <1>8, ObjectTyped DEF SoundInvariant
  <1>13. \A o \in Obj : Waiting(o)' => Kept(obj[o].part)
    <2>1. \A u \in Thread : fin'[u].pc \in {"hash", "link", "copy", "place"} =>
            fin[u].pc \in {"hash", "link", "copy", "place"} /\ fin'[u].o = fin[u].o
      BY <1>2, <1>3
    <2>2. \A o \in Obj : Waiting(o)' => Waiting(o)
      BY <1>2, <2>1, WaitingLess
    <2>. QED
      BY <1>12, <2>2, WaitingExists DEF SoundInvariant
  <1>14. \A r \in journal : Kept(r.part)
    BY <1>8, JournalFacts DEF SoundInvariant
  <1>15. recv.pc = "truncate" =>
           /\ \A y \in Tid \X Name : temp'[y] # part[recv.tid]
           /\ \A n \in Name : final'[n] # part[recv.tid]
    <2>1. recv.pc = "truncate" => part[recv.tid] # i
      BY <1>2, PreparedApart
    <2>. QED
      BY <1>2, <1>6, <2>1 DEF SoundInvariant, ReceiveStation
  <1>16. \A u \in Thread : u # th /\ fin[u].pc = "dead" =>
           /\ part'[fin[u].part] = part[fin[u].part]
           /\ temp'[TempName(fin[u])] = temp[TempName(fin[u])]
    <2>1. ASSUME NEW u \in Thread, fin[u].pc = "dead"
          PROVE  TempName(fin[u]) # x /\ TempName(fin[u]) \in Tid \X Name
      <3>1. temp[TempName(fin[u])] # NoInode
        BY <2>1 DEF SoundInvariant, FinalizerEnded, EndedAt
      <3>2. TempName(fin[u]) \in Tid \X Name
        BY <2>1, ManifestAssumption DEF SoundInvariant, TypeInvariant, StationsFilled, TempName
      <3>. QED
        BY <1>2, <3>1, <3>2
    <2>. QED
      BY <1>2, <1>6, <2>1
  <1>. QED
    BY <1>1, <1>2, <1>3, <1>9, <1>10, <1>11, <1>12, <1>13, <1>14, <1>15, <1>16, FinMoves

\* The file a leftover temporary name is a link to is a part file of the version
\* being finalized, and nothing is received into it or continued from it.
LEMMA LeftoverApart ==
  ASSUME SoundInvariant, OneSigPerTid, NEW th \in Thread, fin[th].pc \in {"link", "copy"},
         temp[TempName(fin[th])] \notin {NoInode, part[fin[th].part]}
  PROVE  LET f == fin[th]
             i == temp[TempName(f)]
         IN  /\ i \in Inode
             /\ \E u \in Tid : part[u] = i /\ <<u, f.sig>> \in Sessions
             /\ \A o \in Obj : obj[o] # NoObj => part[obj[o].part] # i
             /\ \A r \in journal : part[r.part] # i
             /\ \A n \in Name : final[n] = i => n = FileName[f.sig]
  <1>. DEFINE f == fin[th]
              i == temp[TempName(f)]
  <1>1. /\ f.o \in Obj /\ obj[f.o] # NoObj /\ obj[f.o].finalized
        /\ f.tid \in Tid /\ f.sig \in Sig /\ f.part \in Tid
        /\ <<f.tid, f.sig>> \in Sessions /\ obj[f.o].sig = f.sig /\ obj[f.o].part = f.part
    BY HeldObject
  <1>2. i \in Inode /\ i # NoInode /\ i # part[f.part]
        /\ \E u \in Tid : part[u] = i /\ <<u, f.sig>> \in Sessions
    BY <1>1, TempFacts DEF SoundInvariant, FilesSound, TempName
  <1>3. PICK u \in Tid : part[u] = i /\ <<u, f.sig>> \in Sessions
    BY <1>2
  <1>. HIDE DEF f, i
  <1>4. \A t \in Tid, s \in Sig : <<t, s>> \in Sessions /\ part[t] = i => s = f.sig
    <2>1. \A t \in Tid : part[t] = i => t = u
      BY <1>2, <1>3 DEF SoundInvariant, FilesSound, PartsSound
    <2>. QED
      BY <1>3, <2>1 DEF OneSigPerTid
  <1>5. ASSUME NEW o \in Obj, obj[o] # NoObj PROVE part[obj[o].part] # i
    <2>. SUFFICES ASSUME part[obj[o].part] = i PROVE FALSE
      OBVIOUS
    <2>1. /\ obj[o].part \in Tid /\ obj[o].sig \in Sig
          /\ <<obj[o].part, obj[o].sig>> \in Sessions
      BY <1>5, ObjectFacts DEF SoundInvariant
    <2>2. obj[o].sig = f.sig
      BY <1>4, <2>1
    <2>3. o = f.o
      BY <1>1, <1>5, <2>2, ObjectsApart DEF SoundInvariant
    <2>. QED
      BY <1>1, <1>2, <2>3
  <1>6. ASSUME NEW r \in journal PROVE part[r.part] # i
    <2>1. /\ r.part \in Tid /\ r.sig \in Sig /\ <<r.part, r.sig>> \in Sessions
          /\ r.sig # f.sig
      BY <1>1, JournalFacts DEF SoundInvariant
    <2>. QED
      BY <1>4, <2>1
  <1>7. \A n \in Name : final[n] = i => n = FileName[f.sig]
    <2>1. LinksNamed
      BY DEF SoundInvariant, FilesSound
    <2>2. ASSUME NEW n \in Name, final[n] = i PROVE n = FileName[f.sig]
      <3>. DEFINE x == <<u, f.sig>>
      <3>1. x \in Sessions /\ part[x[1]] # NoInode /\ part[x[1]] = final[n] /\ x[2] = f.sig
        BY <1>2, <1>3, <2>2
      <3>. HIDE DEF x
      <3>. QED
        BY <2>1, <3>1 DEF LinksNamed
    <2>. QED
      BY <2>2
  <1>. QED
    BY <1>2, <1>5, <1>6, <1>7 DEF f, i

\* Writing to that file keeps everything else.
LEMMA WriteLeftover ==
  ASSUME SoundInvariant, OneSigPerTid, TypeInvariant', NEW th \in Thread,
         fin[th].pc \in {"link", "copy"},
         temp[TempName(fin[th])] \notin {NoInode, part[fin[th].part]},
         NEW y, file' = [file EXCEPT ![temp[TempName(fin[th])]] = y],
         UNCHANGED <<transfers, sigIndex, obj, queue, recv, completed, journal, restarts,
                     part, temp, final>>,
         \A u \in Thread : u # th => fin'[u] = fin[u],
         fin'[th].o = fin[th].o, fin'[th].pc \in {"copy", "place"},
         AtStation(fin[th])', PartsSound', FinalWhole'
  PROVE  SoundInvariant'
  <1>. DEFINE i == temp[TempName(fin[th])]
  <1>1. /\ i \in Inode
        /\ \A o \in Obj : obj[o] # NoObj => part[obj[o].part] # i
        /\ \A r \in journal : part[r.part] # i
    BY LeftoverApart
  <1>2. \A j : j # i => Stays(j)
    <2>1. \A j : j # i => file'[j] = file[j] \/ j \notin Inode
      BY DEF SoundInvariant, TypeInvariant, TypeOK
    <2>2. \A j : j \notin Inode => file'[j] = file[j]
      BY <1>1 DEF SoundInvariant, TypeInvariant, TypeOK
    <2>. QED
      BY <2>1, <2>2 DEF Stays
  <1>. HIDE DEF i
  <1>3. \A o \in Obj : obj[o] # NoObj => Kept(obj[o].part)
    BY <1>1, <1>2 DEF Kept
  <1>4. \A o \in Obj : Waiting(o)' => Kept(obj[o].part)
    <2>1. \A u \in Thread : fin'[u].pc \in {"hash", "link", "copy", "place"} =>
            fin[u].pc \in {"hash", "link", "copy", "place"} /\ fin'[u].o = fin[u].o
      OBVIOUS
    <2>2. \A o \in Obj : Waiting(o)' => Waiting(o)
      BY <2>1, WaitingLess
    <2>. QED
      BY <1>3, <2>2, WaitingExists DEF SoundInvariant
  <1>5. \A r \in journal : Kept(r.part)
    BY <1>1, <1>2 DEF Kept
  <1>6. FilesSound'
    BY DEF SoundInvariant, FilesSound, LinksNamed
  <1>7. recv.pc = "truncate" =>
           /\ \A x \in Tid \X Name : temp'[x] # part[recv.tid]
           /\ \A n \in Name : final'[n] # part[recv.tid]
    BY DEF SoundInvariant, ReceiveStation
  <1>8. SameObjects
    BY UnchangedObjects
  <1>. QED
    BY <1>3, <1>4, <1>5, <1>6, <1>7, <1>8, FinMoves

\* The copy and its source, and what a step of the thread leaves of the others.
LEMMA LeftoverFiles ==
  ASSUME SoundInvariant, OneSigPerTid, TypeInvariant', NEW th \in Thread,
         fin[th].pc \in {"link", "copy"},
         temp[TempName(fin[th])] \notin {NoInode, part[fin[th].part]},
         NEW y, file' = [file EXCEPT ![temp[TempName(fin[th])]] = y],
         UNCHANGED <<recv, restarts, part, temp, final>>,
         \A u \in Thread : u # th => fin'[u] = fin[u],
         y.bytes = NoBytes \/ y.bytes = Whole(fin[th].sig),
         \/ y.bytes = Whole(fin[th].sig)
         \/ /\ fin'[th].pc = "copy"
            /\ TempName(fin'[th]) = TempName(fin[th])
  PROVE  PartsSound' /\ FinalWhole'
  <1>. DEFINE f == fin[th]
              i == temp[TempName(f)]
  <1>1. /\ i \in Inode
        /\ \E u \in Tid : part[u] = i /\ <<u, f.sig>> \in Sessions
        /\ \A n \in Name : final[n] = i => n = FileName[f.sig]
    BY LeftoverApart
  <1>2. PICK u \in Tid : part[u] = i /\ <<u, f.sig>> \in Sessions
    BY <1>1
  <1>3. f.tid \in Tid /\ f.sig \in Sig /\ KeepPart /\ TempName(f) = <<f.tid, FileName[f.sig]>>
    BY HeldObject DEF SoundInvariant, FinalizerStation, AtStation, TempName
  <1>4. file'[i] = y /\ \A j \in Inode : j # i => file'[j] = file[j]
    BY <1>1 DEF SoundInvariant, TypeInvariant, TypeOK
  <1>5. \A v \in Thread : v # th => fin[v].pc # "copy"
    BY OtherThread DEF SoundInvariant
  <1>. HIDE DEF i
  <1>6. PartsSound'
    <2>1. \A t, v \in Tid : part'[t] = part'[v] /\ part'[t] # NoInode => t = v
      BY DEF SoundInvariant, FilesSound, PartsSound
    <2>2. ASSUME NEW t \in Tid, part'[t] # NoInode
          PROVE  \E s \in Sig :
                   /\ <<t, s>> \in Sessions
                   /\ file'[part'[t]].bytes \in [Chunks(s) -> {s, Hole}] \cup {NoBytes}
                   /\ DOMAIN file'[part'[t]].bytes = Chunks(s) \/ Unsized(t)'
      <3>1. part'[t] = part[t] /\ part[t] \in Inode
        BY <2>2, PathFacts DEF SoundInvariant
      <3>2. CASE part[t] = i
        <4>1. t = u
          BY <1>2, <2>1, <2>2, <3>1, <3>2
        <4>2. Whole(f.sig) \in [Chunks(f.sig) -> {f.sig, Hole}]
              /\ DOMAIN Whole(f.sig) = Chunks(f.sig)
          BY DEF Whole
        <4>3. CASE y.bytes = Whole(f.sig)
          BY <1>2, <1>3, <1>4, <3>1, <3>2, <4>1, <4>2, <4>3
        <4>4. CASE y.bytes # Whole(f.sig)
          <5>1. fin'[th].pc = "copy" /\ TempName(fin[th])' = TempName(f)
            BY <4>4 DEF TempName
          <5>2. Unsized(t)'
            BY <3>1, <3>2, <5>1 DEF Unsized, i
          <5>. QED
            BY <1>2, <1>3, <1>4, <3>1, <3>2, <4>1, <4>4, <5>2
        <4>. QED
          BY <4>3, <4>4
      <3>3. CASE part[t] # i
        <4>1. file'[part[t]] = file[part[t]]
          BY <1>4, <3>1, <3>3
        <4>2. Unsized(t) => Unsized(t)'
          <5>1. \A v \in Thread : fin[v].pc = "copy" /\ temp[TempName(fin[v])] = part[t] =>
                  fin'[v] = fin[v]
            BY <3>3 DEF i
          <5>. QED
            BY <5>1 DEF Unsized, TempName
        <4>3. PICK s \in Sig :
                /\ <<t, s>> \in Sessions
                /\ file[part[t]].bytes \in [Chunks(s) -> {s, Hole}] \cup {NoBytes}
                /\ DOMAIN file[part[t]].bytes = Chunks(s) \/ Unsized(t)
          BY <2>2, <3>1 DEF SoundInvariant, FilesSound, PartsSound
        <4>. QED
          BY <3>1, <4>1, <4>2, <4>3
      <3>. QED
        BY <3>2, <3>3
    <2>. QED
      BY <2>1, <2>2 DEF PartsSound
  <1>7. FinalWhole'
    <2>. SUFFICES ASSUME NEW n \in Name, final[n] # NoInode
                  PROVE  \/ \E s \in Sig : FileName[s] = n /\ file'[final[n]].bytes = Whole(s)
                         \/ KeepPart /\ \E t \in Tid : temp[<<t, n>>] = final[n]
      BY DEF FinalWhole
    <2>1. CASE final[n] = i
      BY <1>1, <1>3, <2>1 DEF i
    <2>2. CASE final[n] # i
      <3>1. file'[final[n]] = file[final[n]]
        BY <1>4, <2>2, PathFacts DEF SoundInvariant
      <3>. QED
        BY <3>1 DEF SoundInvariant, FilesSound, FinalWhole
    <2>. QED
      BY <2>1, <2>2
  <1>. QED
    BY <1>6, <1>7

LEMMA SoundOpenCopy ==
  ASSUME SoundInvariant, OneSigPerTid, NEW th \in Thread, OpenCopy(th)
  PROVE  SoundInvariant'
  <1>. DEFINE f == fin[th]
              i == temp[TempName(f)]
              y == [bytes |-> NoBytes, mtime |-> Now]
  <1>1. TypeInvariant'
    BY TypedOpenCopy DEF SoundInvariant
  <1>2. /\ f.pc = "link" /\ i \notin {NoInode, part[f.part]}
        /\ UNCHANGED <<transfers, sigIndex, obj, queue, recv, completed, journal, restarts,
                       part, temp, final>>
        /\ file' = [file EXCEPT ![i] = y]
        /\ fin' = [fin EXCEPT ![th].pc = "copy"]
    BY DEF OpenCopy
  <1>3. /\ fin'[th].pc = "copy" /\ fin'[th].state = f.state
        /\ \A h \in Thread : /\ fin'[h].o = fin[h].o /\ fin'[h].tid = fin[h].tid
                             /\ fin'[h].sig = fin[h].sig /\ fin'[h].part = fin[h].part
                             /\ h # th => fin'[h] = fin[h]
    BY <1>2, MoveTyped DEF SoundInvariant
  <1>4. TempName(fin[th])' = TempName(f) /\ TempName(fin'[th]) = TempName(f) /\ y.bytes = NoBytes
    BY <1>3 DEF TempName
  <1>5. AtStation(f)
    BY DEF SoundInvariant, FinalizerStation
  <1>6. AtStation(fin[th])'
    BY <1>2, <1>3, <1>4, <1>5 DEF AtStation
  <1>. HIDE DEF y
  <1>7. PartsSound' /\ FinalWhole'
    BY <1>1, <1>2, <1>3, <1>4, LeftoverFiles
  <1>. QED
    BY <1>1, <1>2, <1>3, <1>6, <1>7, WriteLeftover

LEMMA SoundCopy ==
  ASSUME SoundInvariant, OneSigPerTid, NEW th \in Thread, Copy(th)
  PROVE  SoundInvariant'
  <1>. DEFINE f == fin[th]
              i == temp[TempName(f)]
              y == [bytes |-> file[part[f.part]].bytes, mtime |-> Now]
  <1>1. TypeInvariant'
    BY TypedCopy DEF SoundInvariant
  <1>2. /\ f.pc = "copy"
        /\ UNCHANGED <<transfers, sigIndex, obj, queue, recv, completed, journal, restarts,
                       part, temp, final>>
        /\ file' = [file EXCEPT ![i] = y]
        /\ fin' = [fin EXCEPT ![th].pc = "place"]
    BY DEF Copy
  <1>3. /\ fin'[th].pc = "place" /\ fin'[th].state = f.state
        /\ \A h \in Thread : /\ fin'[h].o = fin[h].o /\ fin'[h].tid = fin[h].tid
                             /\ fin'[h].sig = fin[h].sig /\ fin'[h].part = fin[h].part
                             /\ h # th => fin'[h] = fin[h]
    BY <1>2, MoveTyped DEF SoundInvariant
  <1>4. TempName(fin[th])' = TempName(f) /\ y.bytes = Whole(f.sig)
    BY <1>2, <1>3, HeldFile DEF TempName
  <1>. HIDE DEF y
  <1>5. AtStation(f) /\ i \notin {NoInode, part[f.part]} /\ KeepPart
    BY <1>2 DEF SoundInvariant, FinalizerStation, AtStation
  <1>6. file'[i] = y
    BY <1>2, <1>5, LeftoverApart DEF SoundInvariant, TypeInvariant, TypeOK
  <1>7. AtStation(fin[th])'
    BY <1>2, <1>3, <1>4, <1>5, <1>6 DEF AtStation
  <1>8. PartsSound' /\ FinalWhole'
    BY <1>1, <1>2, <1>3, <1>4, <1>5, LeftoverFiles
  <1>. QED
    BY <1>1, <1>2, <1>3, <1>5, <1>7, <1>8, WriteLeftover

\* A version placed out of its temporary name, the part file kept.
LEMMA SoundPlaceKept ==
  ASSUME SoundInvariant, OneSigPerTid, NEW th \in Thread, Place(th), KeepPart
  PROVE  SoundInvariant'
  <1>. DEFINE f == fin[th]
              n == FileName[f.sig]
              x == TempName(f)
              i == temp[x]
  <1>1. TypeInvariant'
    BY TypedPlace DEF SoundInvariant
  <1>2. /\ f.pc = "place"
        /\ UNCHANGED <<transfers, sigIndex, obj, queue, recv, completed, journal, restarts, part>>
        /\ final' = [final EXCEPT ![n] = i]
        /\ temp' = IF final[n] = i THEN temp ELSE [temp EXCEPT ![x] = NoInode]
        /\ file' = Reclaim(file, Held(part', temp', final', obj'))
        /\ fin' = [fin EXCEPT ![th].pc = "utime"]
    BY DEF Place
  <1>3. /\ fin'[th].pc = "utime" /\ fin'[th].state = f.state
        /\ \A h \in Thread : /\ fin'[h].o = fin[h].o /\ fin'[h].tid = fin[h].tid
                             /\ fin'[h].sig = fin[h].sig /\ fin'[h].part = fin[h].part
                             /\ h # th => fin'[h] = fin[h]
    BY <1>2, MoveTyped DEF SoundInvariant
  <1>4. /\ f.tid \in Tid /\ f.sig \in Sig /\ f.part \in Tid /\ x \in Tid \X Name /\ n \in Name
        /\ <<f.tid, f.sig>> \in Sessions /\ f.o \in Obj /\ obj[f.o] # NoObj /\ obj[f.o].sig = f.sig
    BY <1>2, HeldObject
  <1>5. AtStation(f) /\ i # NoInode /\ file[i].bytes = Whole(f.sig)
    BY <1>2 DEF SoundInvariant, FinalizerStation, AtStation
  <1>6. PICK u \in Tid : part[u] = i /\ <<u, f.sig>> \in Sessions
    <2>1. x = <<f.tid, FileName[f.sig]>>
      BY DEF TempName
    <2>. HIDE DEF f
    <2>. QED
      BY <1>4, <1>5, <2>1, TempFacts DEF SoundInvariant, FilesSound
  <1>7. x[2] = n /\ x[1] = f.tid /\ TempName(fin[th])' = x
    BY <1>3 DEF TempName
  <1>8. final'[n] = i /\ \A m \in Name : m # n => final'[m] = final[m]
    BY <1>2, <1>4 DEF SoundInvariant, TypeInvariant, TypeOK
  <1>9. \A y \in Tid \X Name : /\ y # x => temp'[y] = temp[y]
                               /\ temp'[y] # NoInode => temp'[y] = temp[y]
    BY <1>2, <1>4 DEF SoundInvariant, TypeInvariant, TypeOK
  <1>10. /\ \A t \in Tid : part[t] # NoInode => file'[part[t]] = file[part[t]]
         /\ \A y \in Tid \X Name : temp'[y] # NoInode => file'[temp'[y]] = file[temp'[y]]
         /\ \A m \in Name : final'[m] # NoInode => file'[final'[m]] = file[final'[m]]
    <2>1. TypeOK /\ TypeOK' /\ file \in [Inode -> File \cup {Free}]
      BY <1>1 DEF SoundInvariant, TypeInvariant, TypeOK
    <2>. QED
      BY <1>2, <2>1, ReclaimKeeps
  <1>11. file'[i] = file[i]
    BY <1>4, <1>5, <1>8, <1>10
  <1>. HIDE DEF x, i, n
  <1>12. \A t \in Tid : Kept(t)
    BY <1>2, <1>10 DEF Kept, Stays
  <1>13. AtStation(fin[th])'
    <2>1. n = FileName[fin'[th].sig]
      BY <1>3 DEF n
    <2>2. /\ final'[FileName[fin'[th].sig]] # NoInode
          /\ file'[final'[FileName[fin'[th].sig]]].bytes = Whole(fin'[th].sig)
      BY <1>3, <1>5, <1>8, <1>11, <2>1
    <2>3. /\ fin'[th].pc = "utime" /\ fin'[th].o = f.o /\ fin'[th].tid = f.tid
          /\ fin'[th].sig = f.sig /\ fin'[th].part = f.part
      BY <1>3
    <2>. QED
      BY <1>2, <1>5, <2>2, <2>3 DEF AtStation
  <1>14. FilesSound'
    <2>1. PartsSound'
      <3>1. \A t \in Tid : Unsized(t) => Unsized(t)'
        <4>1. \A v \in Thread : fin[v].pc # "copy"
          BY <1>2, OtherThread DEF SoundInvariant
        <4>. QED
          BY <1>2, <4>1 DEF Unsized
      <3>. QED
        BY <1>2, <1>10, <3>1, PartsFrame DEF SoundInvariant, FilesSound
    <2>2. LinksNamed'
      <3>1. LinksNamed
        BY DEF SoundInvariant, FilesSound
      <3>2. ASSUME NEW y \in Tid \X Name, temp'[y] # NoInode
            PROVE  \E t \in Tid, s \in Sig :
                     /\ part'[t] = temp'[y] /\ FileName[s] = y[2]
                     /\ <<t, s>> \in Sessions /\ <<y[1], s>> \in Sessions
        BY <1>2, <1>9, <3>1, <3>2 DEF LinksNamed
      <3>3. ASSUME NEW z \in Sessions, NEW m \in Name,
                   part'[z[1]] # NoInode, part'[z[1]] = final'[m]
            PROVE  FileName[z[2]] = m
        <4>1. z[1] \in Tid
          BY ManifestAssumption
        <4>2. CASE m = n
          <5>1. z[1] = u
            BY <1>2, <1>6, <1>8, <3>3, <4>1, <4>2 DEF SoundInvariant, FilesSound, PartsSound
          <5>2. z[2] = f.sig
            BY <1>6, <5>1 DEF OneSigPerTid
          <5>. QED
            BY <4>2, <5>2 DEF n
        <4>3. CASE m # n
          BY <1>2, <1>8, <3>1, <3>3, <4>3 DEF LinksNamed
        <4>. QED
          BY <4>2, <4>3
      <3>. QED
        BY <3>2, <3>3 DEF LinksNamed
    <2>3. FinalWhole'
      <3>. SUFFICES ASSUME NEW m \in Name, final'[m] # NoInode
                    PROVE  \/ \E s \in Sig : FileName[s] = m /\ file'[final'[m]].bytes = Whole(s)
                           \/ KeepPart /\ \E t \in Tid : temp'[<<t, m>>] = final'[m]
        BY DEF FinalWhole
      <3>1. CASE m = n
        BY <1>4, <1>5, <1>8, <1>11, <3>1 DEF n
      <3>2. CASE m # n
        <4>1. final'[m] = final[m] /\ file'[final[m]] = file[final[m]]
          BY <1>8, <1>10, <3>2
        <4>2. \A t \in Tid : temp'[<<t, m>>] = temp[<<t, m>>]
          BY <1>7, <1>9, <3>2
        <4>. QED
          BY <4>1, <4>2 DEF SoundInvariant, FilesSound, FinalWhole
      <3>. QED
        BY <3>1, <3>2
    <2>. QED
      BY <2>1, <2>2, <2>3 DEF FilesSound
  <1>15. SameObjects
    BY <1>2, UnchangedObjects
  <1>16. \A o \in Obj : obj[o] # NoObj => Kept(obj[o].part)
    BY <1>12, ObjectTyped DEF SoundInvariant
  <1>17. \A o \in Obj : Waiting(o)' => Kept(obj[o].part)
    <2>1. \A v \in Thread : fin'[v].pc \in {"hash", "link", "copy", "place"} =>
            fin[v].pc \in {"hash", "link", "copy", "place"} /\ fin'[v].o = fin[v].o
      BY <1>2, <1>3
    <2>2. \A o \in Obj : Waiting(o)' => Waiting(o)
      BY <1>2, <2>1, WaitingLess
    <2>. QED
      BY <1>16, <2>2, WaitingExists DEF SoundInvariant
  <1>18. \A r \in journal : Kept(r.part)
    BY <1>12, JournalFacts DEF SoundInvariant
  <1>19. recv.pc = "truncate" =>
           /\ \A y \in Tid \X Name : temp'[y] # part[recv.tid]
           /\ \A m \in Name : final'[m] # part[recv.tid]
    <2>. SUFFICES ASSUME recv.pc = "truncate"
                  PROVE  /\ \A y \in Tid \X Name : temp'[y] # part[recv.tid]
                         /\ \A m \in Name : final'[m] # part[recv.tid]
      OBVIOUS
    <2>1. /\ part[recv.tid] # NoInode
          /\ \A y \in Tid \X Name : temp[y] # part[recv.tid]
          /\ \A m \in Name : final[m] # part[recv.tid]
      BY DEF SoundInvariant, ReceiveStation
    <2>2. i # part[recv.tid]
      BY <1>4, <2>1 DEF i
    <2>. QED
      BY <1>8, <1>9, <2>1, <2>2
  <1>20. ASSUME NEW v \in Thread, v # th, fin[v].pc = "dead"
         PROVE  /\ part'[fin[v].part] = part[fin[v].part]
                /\ temp'[TempName(fin[v])] = temp[TempName(fin[v])]
    <2>1. PICK o \in Obj : Abandoned(o) /\ obj[o].sig = fin[v].sig
      BY <1>20 DEF SoundInvariant, FinalizerEnded, EndedAt
    <2>2. /\ fin[v].tid \in Tid /\ fin[v].sig \in Sig /\ <<fin[v].tid, fin[v].sig>> \in Sessions
          /\ TempName(fin[v]) \in Tid \X Name /\ TempName(fin[v])[1] = fin[v].tid
      BY <1>20, ManifestAssumption
      DEF SoundInvariant, FinalizerStation, AtStation, TypeInvariant, StationsFilled, TempName
    <2>3. TempName(fin[v]) # x
      <3>. SUFFICES ASSUME TempName(fin[v]) = x PROVE FALSE
        OBVIOUS
      <3>1. fin[v].sig = f.sig
        BY <1>4, <1>7, <2>2 DEF OneSigPerTid
      <3>2. o = f.o
        BY <1>4, <2>1, <3>1, ObjectsApart DEF SoundInvariant, Abandoned
      <3>. QED
        BY <2>1, <3>2 DEF Abandoned
    <2>. QED
      BY <1>2, <1>9, <2>2, <2>3
  <1>. QED
    BY <1>1, <1>2, <1>3, <1>13, <1>14, <1>15, <1>16, <1>17, <1>18, <1>19, <1>20, FinMoves

\* A version placed by renaming its part file.
LEMMA SoundPlaceMoved ==
  ASSUME SoundInvariant, OneSigPerTid, NEW th \in Thread, Place(th), ~KeepPart
  PROVE  SoundInvariant'
  <1>. DEFINE f == fin[th]
              n == FileName[f.sig]
              i == part[f.part]
  <1>1. TypeInvariant'
    BY TypedPlace DEF SoundInvariant
  <1>2. /\ f.pc = "place" /\ i # NoInode
        /\ UNCHANGED <<transfers, sigIndex, obj, queue, recv, completed, journal, restarts, temp>>
        /\ final' = [final EXCEPT ![n] = i]
        /\ part' = [part EXCEPT ![f.part] = NoInode]
        /\ file' = Reclaim(file, Held(part', temp', final', obj'))
        /\ fin' = [fin EXCEPT ![th].pc = "utime"]
    BY DEF Place
  <1>3. /\ fin'[th].pc = "utime" /\ fin'[th].state = f.state
        /\ \A h \in Thread : /\ fin'[h].o = fin[h].o /\ fin'[h].tid = fin[h].tid
                             /\ fin'[h].sig = fin[h].sig /\ fin'[h].part = fin[h].part
                             /\ h # th => fin'[h] = fin[h]
    BY <1>2, MoveTyped DEF SoundInvariant
  <1>4. /\ f.tid \in Tid /\ f.sig \in Sig /\ f.part \in Tid /\ n \in Name
        /\ <<f.part, f.sig>> \in Sessions /\ f.o \in Obj /\ obj[f.o] # NoObj
        /\ obj[f.o].sig = f.sig /\ obj[f.o].part = f.part /\ obj[f.o].finalized
    BY <1>2, HeldObject
  <1>5. AtStation(f) /\ file[i].bytes = Whole(f.sig)
    BY <1>2, HeldFile DEF SoundInvariant, FinalizerStation
  <1>6. \A y \in Tid \X Name : temp[y] = NoInode
    BY DEF SoundInvariant, FilesSound, LinksNamed
  <1>7. final'[n] = i /\ \A m \in Name : m # n => final'[m] = final[m]
    BY <1>2, <1>4 DEF SoundInvariant, TypeInvariant, TypeOK
  <1>8. part'[f.part] = NoInode /\ \A t \in Tid : t # f.part => part'[t] = part[t]
    BY <1>2, <1>4 DEF SoundInvariant, TypeInvariant, TypeOK
  <1>9. /\ \A t \in Tid : part'[t] # NoInode => file'[part'[t]] = file[part'[t]]
        /\ \A m \in Name : final'[m] # NoInode => file'[final'[m]] = file[final'[m]]
    <2>1. TypeOK /\ TypeOK' /\ file \in [Inode -> File \cup {Free}]
      BY <1>1 DEF SoundInvariant, TypeInvariant, TypeOK
    <2>. QED
      BY <1>2, <2>1, ReclaimKeeps
  <1>10. ASSUME NEW t \in Tid, part'[t] # NoInode
         PROVE  part'[t] = part[t] /\ file'[part[t]] = file[part[t]]
    <2>1. t # f.part
      BY <1>8, <1>10
    <2>2. part'[t] = part[t]
      BY <1>8, <2>1
    <2>3. file'[part'[t]] = file[part'[t]]
      BY <1>9, <1>10
    <2>. QED
      BY <2>2, <2>3
  <1>11. n \in Name /\ i # NoInode
    BY <1>2, <1>4
  <1>. HIDE DEF i, n
  <1>12. file'[i] = file[i]
    BY <1>7, <1>9, <1>11
  <1>13. \A t \in Tid : t # f.part => Kept(t)
    BY <1>8, <1>9 DEF Kept, Stays
  <1>14. AtStation(fin[th])'
    <2>1. n = FileName[fin'[th].sig]
      BY <1>3 DEF n
    <2>2. /\ final'[FileName[fin'[th].sig]] # NoInode
          /\ file'[final'[FileName[fin'[th].sig]]].bytes = Whole(fin'[th].sig)
      BY <1>2, <1>3, <1>5, <1>7, <1>12, <2>1
    <2>3. /\ fin'[th].pc = "utime" /\ fin'[th].o = f.o /\ fin'[th].tid = f.tid
          /\ fin'[th].sig = f.sig /\ fin'[th].part = f.part
      BY <1>3
    <2>. QED
      BY <1>2, <1>5, <2>2, <2>3 DEF AtStation
  <1>15. FilesSound'
    <2>1. PartsSound'
      <3>1. \A t \in Tid : Unsized(t) => Unsized(t)'
        <4>1. \A v \in Thread : fin[v].pc # "copy"
          BY <1>2, OtherThread DEF SoundInvariant
        <4>. QED
          BY <1>2, <4>1 DEF Unsized
      <3>. QED
        BY <1>10, <3>1, PartsFrame DEF SoundInvariant, FilesSound
    <2>2. LinksNamed'
      <3>1. LinksNamed
        BY DEF SoundInvariant, FilesSound
      <3>2. ASSUME NEW z \in Sessions, NEW m \in Name,
                   part'[z[1]] # NoInode, part'[z[1]] = final'[m]
            PROVE  FileName[z[2]] = m
        <4>1. z[1] \in Tid
          BY ManifestAssumption
        <4>2. z[1] # f.part /\ part'[z[1]] = part[z[1]]
          BY <1>8, <3>2, <4>1
        <4>3. part[z[1]] # i
          BY <1>4, <3>2, <4>1, <4>2 DEF SoundInvariant, FilesSound, PartsSound, i
        <4>4. m # n
          BY <1>7, <3>2, <4>2, <4>3
        <4>. QED
          BY <1>7, <3>1, <3>2, <4>2, <4>4 DEF LinksNamed
      <3>3. \A y \in Tid \X Name : temp'[y] = NoInode
        BY <1>2, <1>6
      <3>. QED
        BY <3>2, <3>3 DEF LinksNamed
    <2>3. FinalWhole'
      <3>. SUFFICES ASSUME NEW m \in Name, final'[m] # NoInode
                    PROVE  \E s \in Sig : FileName[s] = m /\ file'[final'[m]].bytes = Whole(s)
        BY DEF FinalWhole
      <3>1. CASE m = n
        BY <1>4, <1>5, <1>7, <1>12, <3>1 DEF n
      <3>2. CASE m # n
        <4>1. final'[m] = final[m] /\ file'[final[m]] = file[final[m]]
          BY <1>7, <1>9, <3>2
        <4>. QED
          BY <4>1 DEF SoundInvariant, FilesSound, FinalWhole
      <3>. QED
        BY <3>1, <3>2
    <2>. QED
      BY <2>1, <2>2, <2>3 DEF FilesSound
  <1>16. SameObjects
    BY <1>2, UnchangedObjects
  <1>17. \A o \in Obj : obj[o] # NoObj =>
           Kept(obj[o].part) \/ (obj[o].finalized /\ part'[obj[o].part] = NoInode)
    <2>1. ASSUME NEW o \in Obj, obj[o] # NoObj, obj[o].part = f.part
          PROVE  o = f.o
      BY <1>4, <2>1, ObjectsApart DEF SoundInvariant
    <2>2. ASSUME NEW o \in Obj, obj[o] # NoObj PROVE obj[o].part \in Tid
      BY <2>2, ObjectTyped DEF SoundInvariant
    <2>. QED
      BY <1>4, <1>8, <1>13, <2>1, <2>2
  <1>18. \A o \in Obj : Waiting(o)' => Kept(obj[o].part)
    <2>1. \A v \in Thread : fin'[v].pc \in {"hash", "link", "copy", "place"} =>
            fin[v].pc \in {"hash", "link", "copy", "place"} /\ fin'[v].o = fin[v].o
      BY <1>2, <1>3
    <2>2. \A o \in Obj : Waiting(o)' => Waiting(o)
      BY <1>2, <2>1, WaitingLess
    <2>3. ASSUME NEW o \in Obj, Waiting(o)' PROVE o # f.o
      <3>1. \A v \in Thread : fin'[v].pc \notin {"hash", "link", "copy", "place"}
        <4>1. \A v \in Thread : v # th => fin[v].pc \in {"idle", "dead"} /\ fin'[v] = fin[v]
          BY <1>2, <1>3, OtherThread DEF SoundInvariant
        <4>. QED
          BY <1>3, <4>1
      <3>2. /\ \A k \in 1 .. Len(queue) : queue[k] # f.o
            /\ recv.pc = "put" => recv.o # f.o
        BY DEF SoundInvariant, QueuedOnce
      <3>. QED
        BY <1>2, <2>3, <3>1, <3>2 DEF Waiting
    <2>4. ASSUME NEW o \in Obj, Waiting(o)' PROVE Kept(obj[o].part)
      <3>1. obj[o] # NoObj /\ o # f.o
        BY <2>2, <2>3, <2>4, WaitingExists DEF SoundInvariant
      <3>2. obj[o].part # f.part /\ obj[o].part \in Tid
        BY <1>4, <3>1, ObjectsApart, ObjectTyped DEF SoundInvariant
      <3>. QED
        BY <1>13, <3>2
    <2>. QED
      BY <2>4
  <1>19. \A r \in journal : Kept(r.part)
    <2>1. ASSUME NEW r \in journal PROVE r.part # f.part /\ r.part \in Tid
      <3>1. r.part \in Tid /\ <<r.part, r.sig>> \in Sessions /\ r.sig # f.sig
        BY <1>4, JournalFacts DEF SoundInvariant
      <3>. QED
        BY <1>4, <3>1 DEF OneSigPerTid
    <2>. QED
      BY <1>13, <2>1
  <1>20. recv.pc \in {"truncate", "map"} =>
           /\ part'[recv.tid] = part[recv.tid] /\ i # part[recv.tid]
    <2>. SUFFICES ASSUME recv.pc \in {"truncate", "map"}
                  PROVE  part'[recv.tid] = part[recv.tid] /\ i # part[recv.tid]
      OBVIOUS
    <2>1. recv.tid # f.part /\ part[recv.tid] # part[f.part] /\ recv.tid \in Tid
      BY <1>2, PreparedApart DEF SoundInvariant, TypeInvariant, StationsFilled
    <2>. QED
      BY <1>8, <2>1 DEF i
  <1>21. recv.pc = "truncate" =>
           /\ \A y \in Tid \X Name : temp'[y] # part[recv.tid]
           /\ \A m \in Name : final'[m] # part[recv.tid]
    BY <1>2, <1>7, <1>20 DEF SoundInvariant, ReceiveStation
  <1>22. \A v \in Thread : fin[v].pc # "dead"
    BY DEF SoundInvariant, FinalizerEnded, EndedAt
  <1>. QED
    BY <1>1, <1>2, <1>3, <1>14, <1>15, <1>16, <1>17, <1>18, <1>19, <1>20, <1>21, <1>22, FinMoves

LEMMA SoundPlace ==
  ASSUME SoundInvariant, OneSigPerTid, NEW th \in Thread, Place(th)
  PROVE  SoundInvariant'
  BY SoundPlaceKept, SoundPlaceMoved

-----------------------------------------------------------------------------
(* The preparation of a transfer. *)

LEMMA SoundResume ==
  ASSUME SoundInvariant, OneSigPerTid, PrepareResume
  PROVE  SoundInvariant'
  <1>. DEFINE t == recv.tid
              s == recv.sig
              prev == ResumableId(s)
              o == transfers[prev]
  <1>1. TypeInvariant'
    BY TypedResume DEF SoundInvariant
  <1>2. /\ recv.pc = "prepare" /\ transfers[t] = NoObj /\ prev # NoTid
        /\ transfers' = [transfers EXCEPT ![prev] = NoObj, ![t] = o]
        /\ sigIndex' = [sigIndex EXCEPT ![s] = t]
        /\ recv' = IdleRecv /\ recv'.pc = "idle" /\ recv'.o = NoObj
        /\ UNCHANGED <<queue, fin, completed, restarts, journal, part, temp, final, file>>
    BY DEF PrepareResume, disk, IdleRecv
  <1>3. t \in Tid /\ s \in Sig /\ <<t, s>> \in Sessions
    BY <1>2 DEF SoundInvariant, TypeInvariant, StationsFilled, ReceiveStation
  <1>4. prev \in Tid /\ sigIndex[s] = prev /\ o # NoObj /\ <<prev, s>> \in Sessions
    BY <1>2, <1>3 DEF SoundInvariant, Keyed, TypeInvariant, TypeOK, ResumableId
  <1>5. prev # t
    BY <1>2, <1>4
  <1>6. o \in Obj /\ obj[o] # NoObj /\ obj[o].tid = prev /\ obj[o].sig = s
    BY <1>4, TableFacts DEF SoundInvariant, OneSigPerTid
  <1>7. PICK a \in Addr : obj' = [obj EXCEPT ![o] = [obj[o] EXCEPT !.tid = t, !.addr = a]]
    BY DEF PrepareResume
  <1>8. /\ \A p \in Obj :
             /\ obj'[p] # NoObj <=> obj[p] # NoObj
             /\ obj'[p].sig = obj[p].sig /\ obj'[p].part = obj[p].part
             /\ obj'[p].got = obj[p].got /\ obj'[p].map = obj[p].map
             /\ obj'[p].finalized <=> obj[p].finalized
             /\ p # o => obj'[p].tid = obj[p].tid
        /\ obj'[o].tid = t
    <2>. DEFINE y == [obj[o] EXCEPT !.tid = t, !.addr = a]
    <2>1. obj[o] \in TransferRec
      BY <1>6, ObjectTyped DEF SoundInvariant
    <2>2. /\ y \in TransferRec /\ y.tid = t /\ y.sig = obj[o].sig /\ y.part = obj[o].part
          /\ y.got = obj[o].got /\ y.map = obj[o].map /\ y.finalized = obj[o].finalized
      BY <1>3, <2>1 DEF TransferRec
    <2>3. y # NoObj
      BY <2>2, NoneAssumption
    <2>4. \A z \in Obj : obj'[z] = IF z = o THEN y ELSE obj[z]
      BY <1>7 DEF SoundInvariant, TypeInvariant, TypeOK
    <2>. HIDE DEF y, o
    <2>. QED
      BY <1>6, <2>2, <2>3, <2>4
  <1>9. \A u \in Tid : transfers'[u] = IF u = t THEN o ELSE IF u = prev THEN NoObj ELSE transfers[u]
    BY <1>2, <1>3, <1>4, <1>5 DEF SoundInvariant, TypeInvariant, TypeOK
  <1>10. \A v \in Sig : sigIndex'[v] = IF v = s THEN t ELSE sigIndex[v]
    BY <1>2, <1>3 DEF SoundInvariant, TypeInvariant, TypeOK
  <1>. HIDE DEF o, prev
  <1>11. SameFiles /\ \A u \in Tid : Kept(u)
    BY <1>2, UnchangedFiles, SameKept
  <1>12. Keyed'
    <2>1. ASSUME NEW u \in Tid, transfers'[u] # NoObj
          PROVE  /\ obj'[transfers'[u]].tid = u
                 /\ <<u, obj'[transfers'[u]].sig>> \in Sessions
                 /\ sigIndex'[obj'[transfers'[u]].sig] = u
      <3>1. CASE u = t
        BY <1>3, <1>6, <1>8, <1>9, <1>10, <3>1
      <3>2. CASE u # t
        <4>1. PICK p : p = transfers[u]
          OBVIOUS
        <4>2. u # prev /\ transfers'[u] = p /\ p # NoObj
          BY <1>9, <2>1, <3>2, <4>1
        <4>3. /\ p \in Obj /\ obj[p] # NoObj /\ obj[p].tid = u /\ sigIndex[obj[p].sig] = u
              /\ <<u, obj[p].sig>> \in Sessions /\ obj[p].sig \in Sig
          BY <4>1, <4>2, TableFacts, ObjectTyped DEF SoundInvariant
        <4>4. p # o /\ obj[p].sig # s
          BY <1>4, <1>6, <4>2, <4>3
        <4>. QED
          BY <1>8, <1>10, <4>2, <4>3, <4>4
      <3>. QED
        BY <3>1, <3>2
    <2>2. \A v \in Sig : sigIndex'[v] # NoTid => <<sigIndex'[v], v>> \in Sessions
      BY <1>3, <1>10 DEF SoundInvariant, Keyed
    <2>. QED
      BY <2>1, <2>2 DEF Keyed
  <1>13. Registered'
    <2>. SUFFICES ASSUME NEW p \in Obj, obj'[p] # NoObj
                  PROVE  LET x == obj'[p] IN
                         /\ transfers'[x.tid] = p
                         /\ <<x.part, x.sig>> \in Sessions
                         /\ x.got \subseteq Chunks(x.sig)
                         /\ x.finalized => x.got = Chunks(x.sig)
                         /\ ~x.finalized => part'[x.part] # NoInode
                         /\ ~x.finalized /\ x.tid \notin Unprepared' =>
                              /\ DOMAIN file'[part'[x.part]].bytes = Chunks(x.sig)
                              /\ x.map = IF Chunks(x.sig) = {} THEN NoInode ELSE part'[x.part]
                         /\ part'[x.part] # NoInode =>
                              Backs(file'[part'[x.part]].bytes, x.sig, x.got)
      BY DEF Registered
    <2>1. obj[p] # NoObj
      BY <1>8
    <2>2. Unprepared = {}
      BY <1>2 DEF Unprepared
    <2>3. LET x == obj[p] IN
          /\ transfers[x.tid] = p
          /\ <<x.part, x.sig>> \in Sessions
          /\ x.got \subseteq Chunks(x.sig)
          /\ x.finalized => x.got = Chunks(x.sig)
          /\ ~x.finalized => part[x.part] # NoInode
          /\ ~x.finalized =>
               /\ DOMAIN file[part[x.part]].bytes = Chunks(x.sig)
               /\ x.map = IF Chunks(x.sig) = {} THEN NoInode ELSE part[x.part]
          /\ part[x.part] # NoInode => Backs(file[part[x.part]].bytes, x.sig, x.got)
      BY <2>1, <2>2 DEF SoundInvariant, Registered
    <2>4. transfers'[obj'[p].tid] = p
      <3>1. CASE p = o
        BY <1>3, <1>8, <1>9, <3>1
      <3>2. CASE p # o
        <4>1. obj[p].tid \in Tid /\ transfers[obj[p].tid] = p /\ p # NoObj
          BY <2>1, ObjectFacts DEF SoundInvariant
        <4>2. obj[p].tid # t /\ obj[p].tid # prev
          BY <1>2, <3>2, <4>1 DEF o
        <4>. QED
          BY <1>8, <1>9, <3>2, <4>1, <4>2
      <3>. QED
        BY <3>1, <3>2
    <2>5. /\ obj'[p].sig = obj[p].sig /\ obj'[p].part = obj[p].part
          /\ obj'[p].got = obj[p].got /\ obj'[p].map = obj[p].map
          /\ (obj'[p].finalized <=> obj[p].finalized)
      BY <1>8
    <2>6. part' = part /\ file' = file
      BY <1>2
    <2>. QED
      BY <2>3, <2>4, <2>5, <2>6
  <1>14. \A p \in Obj : Waiting(p)' => Waiting(p)
    BY <1>2, WaitingLess
  <1>15. WaitingWhole'
    <2>1. ASSUME NEW p \in Obj, Waiting(p)' PROVE obj[p].part \in Tid
      BY <1>14, <2>1, WaitingExists, ObjectTyped DEF SoundInvariant
    <2>2. \A p \in Obj : Waiting(p)' =>
            /\ Waiting(p)
            /\ obj'[p].sig = obj[p].sig /\ obj'[p].part = obj[p].part
            /\ obj'[p].finalized <=> obj[p].finalized
            /\ Kept(obj[p].part)
      BY <1>8, <1>11, <1>14, <2>1
    <2>. QED
      BY <1>1, <2>2, WaitingFrame DEF SoundInvariant
  <1>16. QueuedOnce' /\ OneFinalizer' /\ NoneFailed'
    BY <1>2, QueueFrame DEF SoundInvariant, OneFinalizer, NoneFailed
  <1>17. ReceiveStation' /\ ReceiveEnded'
    BY <1>2, RecvOutside
  <1>18. FinalizerStation' /\ FinalizerEnded'
    <2>1. \A p \in Obj : Abandoned(p) => Abandoned(p)' /\ obj'[p].sig = obj[p].sig
      BY <1>2, <1>8, <1>14 DEF Abandoned
    <2>2. /\ \A x \in Tid \X Name : temp[x] # NoInode => Stays(temp[x])
          /\ \A n \in Name : final[n] # NoInode => Stays(final[n])
      BY <1>11, SameStays DEF SameFiles
    <2>. QED
      BY <1>1, <1>2, <1>8, <2>1, <2>2, FinFrame DEF SoundInvariant
  <1>19. FilesSound'
    <2>1. \A u \in Tid : Unsized(u) => Unsized(u)'
      BY <1>2 DEF Unsized, TempName
    <2>. QED
      BY <1>11, <2>1, FilesFrame DEF SoundInvariant
  <1>20. JournalBacked' /\ JournalKeys'
    <2>1. \A r \in journal : Kept(r.part)
      BY <1>11, JournalFacts DEF SoundInvariant
    <2>2. ASSUME NEW q \in Obj, NEW r \in journal, obj'[q] # NoObj, obj'[q].finalized
          PROVE  obj'[q].sig # r.sig
      <3>1. obj[q] # NoObj /\ obj[q].finalized /\ obj'[q].sig = obj[q].sig
        BY <1>8, <2>2
      <3>. QED
        BY <3>1, JournalFacts DEF SoundInvariant
    <2>. QED
      BY <1>2, <2>1, <2>2, JournalKept DEF SoundInvariant
  <1>. QED
    BY <1>1, <1>12, <1>13, <1>15, <1>16, <1>17, <1>18, <1>19, <1>20 DEF SoundInvariant

\* The part file of the transfer being prepared changes, and no other file.
LEMMA PrepareStep ==
  ASSUME SoundInvariant, OneSigPerTid, TypeInvariant', recv.pc \in {"prepare", "truncate"},
         recv.tid \in Tid, recv.sig \in Sig,
         <<recv.tid, recv.sig>> \in Sessions, transfers[recv.tid] = NoObj,
         ResumableId(recv.sig) = NoTid,
         UNCHANGED <<transfers, sigIndex, obj, queue, fin, completed, restarts,
                     journal, temp, final>>,
         recv'.pc \in {"truncate", "map"}, recv'.tid = recv.tid, recv'.sig = recv.sig,
         recv'.o = recv.o,
         \A u \in Tid : u # recv.tid => Kept(u),
         part[recv.tid] # NoInode => part'[recv.tid] = part[recv.tid],
         part'[recv.tid] # NoInode,
         \A r \in journal : r.part # recv.tid,
         \A x \in Tid \X Name : temp[x] # NoInode => Stays(temp[x]) /\ temp[x] # part'[recv.tid],
         \A n \in Name : final[n] # NoInode => Stays(final[n]) /\ final[n] # part'[recv.tid],
         FilesSound'
  PROVE  SoundInvariant'
  <1>1. SameObjects
    BY UnchangedObjects
  <1>2. \A o \in Obj : obj[o] # NoObj => obj[o].part # recv.tid /\ obj[o].part \in Tid
    BY NotRegistered, ObjectTyped DEF SoundInvariant
  <1>3. \A o \in Obj : obj[o] # NoObj => Kept(obj[o].part)
    BY <1>2
  <1>4. \A o \in Obj : Waiting(o)' => Waiting(o)
    BY WaitingLess
  <1>5. Keyed'
    BY <1>1, KeyedFrame DEF SoundInvariant
  <1>6. Registered'
    <2>1. Unprepared \subseteq Unprepared'
      BY DEF Unprepared
    <2>. QED
      BY <1>1, <1>3, <2>1, RegisteredFrame DEF SoundInvariant
  <1>7. WaitingWhole'
    <2>1. \A o \in Obj : Waiting(o)' =>
            /\ Waiting(o)
            /\ obj'[o].sig = obj[o].sig /\ obj'[o].part = obj[o].part
            /\ obj'[o].finalized <=> obj[o].finalized
            /\ Kept(obj[o].part)
      BY <1>1, <1>3, <1>4, WaitingExists DEF SoundInvariant, SameObjects
    <2>. QED
      BY <2>1, WaitingFrame DEF SoundInvariant
  <1>8. QueuedOnce'
    BY QueueFrame DEF SoundInvariant
  <1>9. OneFinalizer'
    BY DEF SoundInvariant, OneFinalizer
  <1>10. ReceiveStation' /\ ReceiveEnded'
    <2>1. recv.o = NoObj
      BY DEF SoundInvariant, ReceiveStation
    <2>2. ResumableId(recv.sig)' = ResumableId(recv.sig)
      BY DEF ResumableId
    <2>3. /\ \A x \in Tid \X Name : temp'[x] # part'[recv.tid]
          /\ \A n \in Name : final'[n] # part'[recv.tid]
      OBVIOUS
    <2>. QED
      BY <2>1, <2>2, <2>3 DEF ReceiveStation, ReceiveEnded
  <1>11. FinalizerStation' /\ FinalizerEnded'
    <2>1. \A o \in Obj : Abandoned(o) => Abandoned(o)' /\ obj'[o].sig = obj[o].sig
      BY <1>1, <1>4, AbandonedKept
    <2>2. \A u \in Tid : part[u] # NoInode => part'[u] = part[u]
      BY DEF Kept
    <2>. QED
      BY <1>1, <2>1, <2>2, FinFrame DEF SoundInvariant, SameObjects
  <1>12. JournalBacked' /\ JournalKeys'
    <2>1. \A r \in journal : Kept(r.part)
      BY JournalFacts DEF SoundInvariant
    <2>2. \A q \in Obj, r \in journal :
            obj'[q] # NoObj /\ obj'[q].finalized => obj'[q].sig # r.sig
      BY JournalFacts DEF SoundInvariant
    <2>. QED
      BY <2>1, <2>2, JournalKept DEF SoundInvariant
  <1>13. NoneFailed'
    BY DEF SoundInvariant, NoneFailed
  <1>. QED
    BY <1>5, <1>6, <1>7, <1>8, <1>9, <1>10, <1>11, <1>12, <1>13 DEF SoundInvariant

LEMMA SoundOpen ==
  ASSUME SoundInvariant, OneSigPerTid, OpenPart
  PROVE  SoundInvariant'
  <1>. DEFINE t == recv.tid
              s == recv.sig
  <1>1. TypeInvariant'
    BY TypedOpen DEF SoundInvariant
  <1>2. /\ recv.pc = "prepare" /\ transfers[t] = NoObj /\ ResumableId(s) = NoTid
        /\ UNCHANGED <<transfers, sigIndex, obj, queue, fin, completed, restarts,
                       journal, temp, final>>
    BY DEF OpenPart
  <1>3. t \in Tid /\ s \in Sig /\ <<t, s>> \in Sessions /\ recv.o = NoObj
    BY <1>2 DEF SoundInvariant, TypeInvariant, StationsFilled, ReceiveStation
  <1>4. \A pc \in {"truncate", "map"} : LET r == [recv EXCEPT !.pc = pc] IN
          r.pc = pc /\ r.tid = t /\ r.sig = s /\ r.o = recv.o
    BY RecvTyped DEF SoundInvariant, TypeInvariant
  <1>5. CASE part[t] # NoInode
    <2>1. recv' = [recv EXCEPT !.pc = "map"] /\ part' = part /\ file' = file
      BY <1>5 DEF OpenPart
    <2>2. recv'.pc = "map" /\ recv'.tid = t /\ recv'.sig = s /\ recv'.o = NoObj
      BY <1>3, <1>4, <2>1
    <2>3. ResumableId(recv.sig)' = ResumableId(recv.sig)
      BY <1>2, <2>2 DEF ResumableId
    <2>4. ReceiveStation' /\ ReceiveEnded'
      BY <1>2, <1>3, <1>5, <2>1, <2>2, <2>3 DEF ReceiveStation, ReceiveEnded
    <2>5. SameObjects /\ SameFiles
      BY <1>2, <2>1, UnchangedObjects, UnchangedFiles
    <2>6. fin["recv"].pc = "idle"
      BY <1>2 DEF SoundInvariant, OneFinalizer
    <2>. QED
      BY <1>1, <1>2, <2>2, <2>4, <2>5, <2>6, RecvMoves
  <1>6. CASE part[t] = NoInode
    <2>. DEFINE y == [bytes |-> NoBytes, mtime |-> Now]
    <2>1. PICK i \in Inode : /\ file[i] = Free
                             /\ part' = [part EXCEPT ![t] = i]
                             /\ file' = [file EXCEPT ![i] = y]
                             /\ recv' = [recv EXCEPT !.pc = "truncate"]
      BY <1>6 DEF OpenPart
    <2>2. recv'.pc = "truncate" /\ recv'.tid = t /\ recv'.sig = s /\ recv'.o = recv.o
      BY <1>4, <2>1
    <2>3. /\ \A u \in Tid : part[u] # i
          /\ \A x \in Tid \X Name : temp[x] # i
          /\ \A n \in Name : final[n] # i
          /\ i # NoInode
      BY <2>1, NoneAssumption DEF SoundInvariant, TypeInvariant, HeldAllocated
    <2>4. part'[t] = i /\ \A u \in Tid : u # t => part'[u] = part[u]
      BY <1>3, <2>1 DEF SoundInvariant, TypeInvariant, TypeOK
    <2>5. file'[i] = y /\ y.bytes = NoBytes /\ \A j \in Inode : j # i => file'[j] = file[j]
      BY <2>1 DEF SoundInvariant, TypeInvariant, TypeOK
    <2>. HIDE DEF y
    <2>6. /\ \A u \in Tid : part[u] # NoInode => file'[part[u]] = file[part[u]]
          /\ \A x \in Tid \X Name : temp[x] # NoInode => file'[temp[x]] = file[temp[x]]
          /\ \A n \in Name : final[n] # NoInode => file'[final[n]] = file[final[n]]
      BY <2>3, <2>5, PathFacts DEF SoundInvariant
    <2>7. \A u \in Tid : u # t => Kept(u)
      BY <2>4, <2>6, SameStays DEF Kept
    <2>8. \A r \in journal : r.part # t
      BY <1>6, JournalFacts DEF SoundInvariant
    <2>9. /\ \A x \in Tid \X Name : temp[x] # NoInode => Stays(temp[x]) /\ temp[x] # part'[t]
          /\ \A n \in Name : final[n] # NoInode => Stays(final[n]) /\ final[n] # part'[t]
      BY <2>3, <2>4, <2>6, SameStays
    <2>10. PartsSound'
      <3>1. \A u, v \in Tid : part'[u] = part'[v] /\ part'[u] # NoInode => u = v
        BY <2>3, <2>4 DEF SoundInvariant, FilesSound, PartsSound
      <3>2. ASSUME NEW u \in Tid, part'[u] # NoInode
            PROVE  \E v \in Sig :
                     /\ <<u, v>> \in Sessions
                     /\ file'[part'[u]].bytes \in [Chunks(v) -> {v, Hole}] \cup {NoBytes}
                     /\ DOMAIN file'[part'[u]].bytes = Chunks(v) \/ Unsized(u)'
        <4>1. CASE u = t
          <5>1. Unsized(u)'
            BY <2>2, <4>1 DEF Unsized
          <5>. QED
            BY <1>3, <2>4, <2>5, <4>1, <5>1
        <4>2. CASE u # t
          <5>1. part'[u] = part[u] /\ file'[part[u]] = file[part[u]]
            BY <2>4, <2>6, <3>2, <4>2
          <5>2. Unsized(u) => Unsized(u)'
            BY <1>2, <5>1 DEF Unsized, TempName
          <5>. QED
            BY <3>2, <5>1, <5>2 DEF SoundInvariant, FilesSound, PartsSound
        <4>. QED
          BY <4>1, <4>2
      <3>. QED
        BY <3>1, <3>2 DEF PartsSound
    <2>11. LinksNamed'
      <3>1. LinksNamed
        BY DEF SoundInvariant, FilesSound
      <3>2. ASSUME NEW x \in Tid \X Name, temp[x] # NoInode
            PROVE  KeepPart /\ \E u \in Tid, v \in Sig :
                     /\ part'[u] = temp[x] /\ FileName[v] = x[2]
                     /\ <<u, v>> \in Sessions /\ <<x[1], v>> \in Sessions
        <4>1. PICK u \in Tid, v \in Sig : /\ part[u] = temp[x] /\ FileName[v] = x[2]
                                          /\ <<u, v>> \in Sessions /\ <<x[1], v>> \in Sessions
          BY <3>1, <3>2 DEF LinksNamed
        <4>2. part'[u] = part[u]
          BY <1>6, <2>4, <3>2, <4>1
        <4>3. KeepPart
          BY <3>1, <3>2 DEF LinksNamed
        <4>. QED
          BY <4>1, <4>2, <4>3
      <3>3. ASSUME NEW z \in Sessions, NEW n \in Name,
                   part'[z[1]] # NoInode, part'[z[1]] = final[n]
            PROVE  FileName[z[2]] = n
        <4>1. z[1] \in Tid
          BY ManifestAssumption
        <4>2. part'[z[1]] = part[z[1]]
          BY <2>3, <2>4, <3>3, <4>1
        <4>3. part[z[1]] # NoInode /\ part[z[1]] = final[n]
          BY <3>3, <4>2
        <4>. QED
          BY <3>1, <4>3 DEF LinksNamed
      <3>. QED
        BY <1>2, <3>2, <3>3 DEF LinksNamed
    <2>12. FinalWhole'
      BY <1>2, <2>6 DEF SoundInvariant, FilesSound, FinalWhole
    <2>. QED
      BY <1>1, <1>2, <1>3, <1>6, <2>2, <2>3, <2>4, <2>7, <2>8, <2>9, <2>10, <2>11, <2>12,
         PrepareStep DEF FilesSound
  <1>. QED
    BY <1>5, <1>6

LEMMA SoundTruncate ==
  ASSUME SoundInvariant, OneSigPerTid, TruncatePart
  PROVE  SoundInvariant'
  <1>. DEFINE t == recv.tid
              s == recv.sig
              i == part[t]
  <1>1. TypeInvariant'
    BY TypedTruncate DEF SoundInvariant
  <1>2. /\ recv.pc = "truncate"
        /\ UNCHANGED <<transfers, sigIndex, obj, queue, fin, completed, restarts,
                       journal, temp, final, part>>
        /\ recv' = [recv EXCEPT !.pc = "map"]
    BY DEF TruncatePart
  <1>3. /\ t \in Tid /\ s \in Sig /\ <<t, s>> \in Sessions /\ transfers[t] = NoObj
        /\ ResumableId(s) = NoTid /\ i # NoInode /\ i \in Inode
        /\ \A r \in journal : r.part # t
        /\ \A x \in Tid \X Name : temp[x] # i
        /\ \A n \in Name : final[n] # i
    BY <1>2, PathFacts DEF SoundInvariant, TypeInvariant, StationsFilled, ReceiveStation
  <1>4. file' = [file EXCEPT ![i] = EmptyFile(s)]
    BY <1>3 DEF TruncatePart
  <1>5. recv'.pc = "map" /\ recv'.tid = t /\ recv'.sig = s /\ recv'.o = recv.o
    BY <1>2, RecvTyped DEF SoundInvariant, TypeInvariant
  <1>6. /\ file'[i].bytes \in [Chunks(s) -> {s, Hole}] /\ DOMAIN file'[i].bytes = Chunks(s)
        /\ \A j \in Inode : j # i => file'[j] = file[j]
    <2>1. file'[i] = EmptyFile(s) /\ \A j \in Inode : j # i => file'[j] = file[j]
      BY <1>3, <1>4 DEF SoundInvariant, TypeInvariant, TypeOK
    <2>2. EmptyFile(s).bytes = [c \in Chunks(s) |-> Hole]
      BY DEF EmptyFile
    <2>. QED
      BY <2>1, <2>2
  <1>7. \A u \in Tid : part[u] = i => u = t
    BY <1>3 DEF SoundInvariant, FilesSound, PartsSound
  <1>. HIDE DEF i
  <1>8. /\ \A u \in Tid : part[u] # NoInode /\ u # t => file'[part[u]] = file[part[u]]
        /\ \A x \in Tid \X Name : temp[x] # NoInode => file'[temp[x]] = file[temp[x]]
        /\ \A n \in Name : final[n] # NoInode => file'[final[n]] = file[final[n]]
    BY <1>3, <1>6, <1>7, PathFacts DEF SoundInvariant
  <1>9. \A u \in Tid : u # t => Kept(u)
    BY <1>2, <1>8, SameStays DEF Kept
  <1>10. /\ \A x \in Tid \X Name : temp[x] # NoInode => Stays(temp[x]) /\ temp[x] # part'[t]
         /\ \A n \in Name : final[n] # NoInode => Stays(final[n]) /\ final[n] # part'[t]
    BY <1>2, <1>3, <1>8, SameStays DEF i
  <1>11. PartsSound'
    <2>1. \A u, v \in Tid : part'[u] = part'[v] /\ part'[u] # NoInode => u = v
      BY <1>2 DEF SoundInvariant, FilesSound, PartsSound
    <2>2. ASSUME NEW u \in Tid, part'[u] # NoInode
          PROVE  \E v \in Sig :
                   /\ <<u, v>> \in Sessions
                   /\ file'[part'[u]].bytes \in [Chunks(v) -> {v, Hole}] \cup {NoBytes}
                   /\ DOMAIN file'[part'[u]].bytes = Chunks(v) \/ Unsized(u)'
      <3>1. CASE u = t
        BY <1>2, <1>3, <1>6, <3>1 DEF i
      <3>2. CASE u # t
        <4>1. part'[u] = part[u] /\ file'[part[u]] = file[part[u]]
          BY <1>2, <1>8, <2>2, <3>2
        <4>2. Unsized(u) => Unsized(u)'
          BY <1>2, <3>2 DEF Unsized, TempName
        <4>. QED
          BY <2>2, <4>1, <4>2 DEF SoundInvariant, FilesSound, PartsSound
      <3>. QED
        BY <3>1, <3>2
    <2>. QED
      BY <2>1, <2>2 DEF PartsSound
  <1>12. LinksNamed'
    BY <1>2 DEF SoundInvariant, FilesSound, LinksNamed
  <1>13. FinalWhole'
    BY <1>2, <1>8 DEF SoundInvariant, FilesSound, FinalWhole
  <1>. QED
    BY <1>1, <1>2, <1>3, <1>5, <1>9, <1>10, <1>11, <1>12, <1>13, PrepareStep DEF FilesSound, i

\* A part file too short to be mapped was left by a stop.
LEMMA ShortPart ==
  ASSUME SoundInvariant, OneSigPerTid, recv.pc = "map"
  PROVE  /\ file[part[recv.tid]].bytes \in [Chunks(recv.sig) -> {recv.sig, Hole}] \cup {NoBytes}
         /\ DOMAIN file[part[recv.tid]].bytes = Chunks(recv.sig) \/ restarts > 0
  <1>. DEFINE t == recv.tid
              s == recv.sig
  <1>1. /\ t \in Tid /\ s \in Sig /\ <<t, s>> \in Sessions
        /\ ResumableId(s) = NoTid /\ part[t] # NoInode
    BY DEF SoundInvariant, TypeInvariant, StationsFilled, ReceiveStation
  <1>2. /\ file[part[t]].bytes \in [Chunks(s) -> {s, Hole}] \cup {NoBytes}
        /\ DOMAIN file[part[t]].bytes = Chunks(s) \/ Unsized(t)
    BY <1>1, PartBytes DEF SoundInvariant, FilesSound
  <1>3. ASSUME NEW th \in Thread, fin[th].pc = "copy"
        PROVE  temp[TempName(fin[th])] # part[t]
    <2>. DEFINE f == fin[th]
    <2>. SUFFICES ASSUME temp[TempName(f)] = part[t] PROVE FALSE
      OBVIOUS
    <2>1. temp[TempName(f)] \notin {NoInode, part[f.part]}
      BY <1>3 DEF SoundInvariant, FinalizerStation, AtStation
    <2>2. PICK u \in Tid : part[u] = part[t] /\ <<u, f.sig>> \in Sessions
      BY <1>3, <2>1, LeftoverApart
    <2>3. u = t
      BY <1>1, <2>2 DEF SoundInvariant, FilesSound, PartsSound
    <2>4. f.sig = s
      BY <1>1, <2>2, <2>3 DEF OneSigPerTid
    <2>. QED
      BY <1>1, <1>3, <2>4, HeldObject
  <1>. QED
    BY <1>2, <1>3 DEF Unsized

LEMMA SoundCreate ==
  ASSUME SoundInvariant, OneSigPerTid, PrepareCreate
  PROVE  SoundInvariant'
  <1>. DEFINE t == recv.tid
              s == recv.sig
              i == part[t]
              fits == i = NoInode \/ Chunks(s) \subseteq DOMAIN file[i].bytes
              map == IF Chunks(s) # {} /\ fits THEN i ELSE NoInode
  <1>1. TypeInvariant'
    BY TypedCreate DEF SoundInvariant
  <1>2. /\ recv.pc = "map"
        /\ UNCHANGED <<queue, fin, completed, restarts, journal, part, temp, final, file>>
    BY DEF PrepareCreate, disk
  <1>3. /\ t \in Tid /\ s \in Sig /\ <<t, s>> \in Sessions /\ transfers[t] = NoObj
        /\ ResumableId(s) = NoTid /\ i # NoInode /\ recv.o = NoObj
    BY <1>2 DEF SoundInvariant, TypeInvariant, StationsFilled, ReceiveStation
  <1>4. PICK o \in Obj, a \in Addr :
          /\ obj[o] = NoObj
          /\ transfers' = [transfers EXCEPT ![t] = o]
          /\ sigIndex' = [sigIndex EXCEPT ![s] = t]
          /\ obj' = [obj EXCEPT ![o] = Transfer(t, s, t, a, {}, map)]
          /\ recv' = CASE ~fits -> [recv EXCEPT !.pc = "dead"]
                       [] fits /\ Chunks(s) = {} -> [IdleRecv EXCEPT !.pc = "full", !.o = o]
                       [] fits /\ Chunks(s) # {} -> IdleRecv
    BY DEF PrepareCreate
  <1>5. /\ obj'[o].tid = t /\ obj'[o].sig = s /\ obj'[o].part = t /\ obj'[o].got = {}
        /\ obj'[o].map = map /\ ~obj'[o].finalized /\ obj'[o] # NoObj
        /\ \A p \in Obj : p # o => obj'[p] = obj[p]
    <2>. DEFINE y == Transfer(t, s, t, a, {}, map)
    <2>1. y.tid = t /\ y.sig = s /\ y.part = t /\ y.got = {} /\ y.map = map /\ y.finalized = FALSE
      BY DEF Transfer
    <2>. HIDE DEF y, map
    <2>2. obj'[o] = y /\ \A p \in Obj : p # o => obj'[p] = obj[p]
      BY <1>4 DEF SoundInvariant, TypeInvariant, TypeOK, y
    <2>3. transfers'[t] = o /\ transfers'[t] # NoObj
      BY <1>3, <1>4, NoneAssumption DEF SoundInvariant, TypeInvariant, TypeOK
    <2>4. obj'[o] # NoObj
      BY <1>1, <1>3, <2>3 DEF TypeInvariant, ReferencesAllocated
    <2>. QED
      BY <2>1, <2>2, <2>4
  <1>6. transfers'[t] = o /\ \A u \in Tid : u # t => transfers'[u] = transfers[u]
    BY <1>3, <1>4 DEF SoundInvariant, TypeInvariant, TypeOK
  <1>7. sigIndex'[s] = t /\ \A v \in Sig : v # s => sigIndex'[v] = sigIndex[v]
    BY <1>3, <1>4 DEF SoundInvariant, TypeInvariant, TypeOK
  <1>8. file[i].bytes \in [Chunks(s) -> {s, Hole}] \cup {NoBytes}
        /\ (DOMAIN file[i].bytes = Chunks(s) \/ restarts > 0)
    BY <1>2, ShortPart
  <1>9. fits => DOMAIN file[i].bytes = Chunks(s)
    <2>1. CASE file[i].bytes \in [Chunks(s) -> {s, Hole}]
      BY <2>1
    <2>2. CASE file[i].bytes = NoBytes
      <3>1. DOMAIN file[i].bytes = {}
        BY <2>2 DEF NoBytes
      <3>. QED
        BY <1>3, <3>1
    <2>. QED
      BY <1>8, <2>1, <2>2
  <1>10. fits => map = IF Chunks(s) = {} THEN NoInode ELSE i
    OBVIOUS
  <1>11. ~fits => /\ ~(Chunks(s) \subseteq DOMAIN file[i].bytes) /\ restarts > 0
    BY <1>8
  <1>12. /\ ~fits => recv'.pc = "dead" /\ recv'.tid = t /\ recv'.sig = s /\ recv'.o = NoObj
         /\ fits => \/ recv'.pc = "full" /\ recv'.o = o /\ Chunks(s) = {}
                    \/ recv'.pc = "idle" /\ recv'.o = NoObj
    <2>. HIDE DEF fits
    <2>1. LET r == [recv EXCEPT !.pc = "dead"] IN
          r.pc = "dead" /\ r.tid = t /\ r.sig = s /\ r.o = recv.o
      BY RecvTyped DEF SoundInvariant, TypeInvariant
    <2>2. LET r == [IdleRecv EXCEPT !.pc = "full", !.o = o] IN r.pc = "full" /\ r.o = o
      BY DEF IdleRecv
    <2>3. IdleRecv.pc = "idle" /\ IdleRecv.o = NoObj
      BY DEF IdleRecv
    <2>4. CASE ~fits
      BY <1>3, <1>4, <2>1, <2>4
    <2>5. CASE fits /\ Chunks(s) = {}
      BY <1>4, <2>2, <2>5
    <2>6. CASE fits /\ Chunks(s) # {}
      BY <1>4, <2>3, <2>6
    <2>. QED
      BY <2>4, <2>5, <2>6
  <1>. HIDE DEF fits, map, i
  <1>13. SameFiles /\ \A u \in Tid : Kept(u)
    BY <1>2, UnchangedFiles, SameKept
  <1>14. ASSUME NEW p \in Obj, obj[p] # NoObj
         PROVE  /\ p # o /\ obj'[p] = obj[p]
                /\ obj[p].sig # s /\ obj[p].tid # t /\ obj[p].tid \in Tid
                /\ obj[p].sig \in Sig /\ obj[p].part \in Tid
    <2>1. obj[p].sig # s /\ obj[p].tid # t
      BY <1>3, <1>14, NotRegistered DEF SoundInvariant
    <2>. QED
      BY <1>4, <1>5, <1>14, <2>1, ObjectTyped DEF SoundInvariant
  <1>15. Keyed'
    <2>1. ASSUME NEW u \in Tid, transfers'[u] # NoObj
          PROVE  /\ obj'[transfers'[u]].tid = u
                 /\ <<u, obj'[transfers'[u]].sig>> \in Sessions
                 /\ sigIndex'[obj'[transfers'[u]].sig] = u
      <3>1. CASE u = t
        BY <1>3, <1>5, <1>6, <1>7, <3>1
      <3>2. CASE u # t
        <4>1. PICK p : p = transfers[u]
          OBVIOUS
        <4>2. transfers'[u] = p /\ p # NoObj
          BY <1>6, <2>1, <3>2, <4>1
        <4>3. /\ p \in Obj /\ obj[p] # NoObj /\ obj[p].tid = u /\ sigIndex[obj[p].sig] = u
              /\ <<u, obj[p].sig>> \in Sessions
          BY <4>1, <4>2, TableFacts DEF SoundInvariant
        <4>. QED
          BY <1>7, <1>14, <4>2, <4>3
      <3>. QED
        BY <3>1, <3>2
    <2>2. \A v \in Sig : sigIndex'[v] # NoTid => <<sigIndex'[v], v>> \in Sessions
      BY <1>3, <1>7 DEF SoundInvariant, Keyed
    <2>. QED
      BY <2>1, <2>2 DEF Keyed
  <1>16. Registered'
    <2>. SUFFICES ASSUME NEW p \in Obj, obj'[p] # NoObj
                  PROVE  LET x == obj'[p] IN
                         /\ transfers'[x.tid] = p
                         /\ <<x.part, x.sig>> \in Sessions
                         /\ x.got \subseteq Chunks(x.sig)
                         /\ x.finalized => x.got = Chunks(x.sig)
                         /\ ~x.finalized => part'[x.part] # NoInode
                         /\ ~x.finalized /\ x.tid \notin Unprepared' =>
                              /\ DOMAIN file'[part'[x.part]].bytes = Chunks(x.sig)
                              /\ x.map = IF Chunks(x.sig) = {} THEN NoInode ELSE part'[x.part]
                         /\ part'[x.part] # NoInode =>
                              Backs(file'[part'[x.part]].bytes, x.sig, x.got)
      BY DEF Registered
    <2>1. part' = part /\ file' = file
      BY <1>2
    <2>2. CASE p = o
      <3>1. ~fits => t \in Unprepared'
        BY <1>12 DEF Unprepared
      <3>2. Backs(file[part[t]].bytes, s, {})
        BY DEF Backs
      <3>. QED
        BY <1>3, <1>5, <1>6, <1>9, <1>10, <2>1, <2>2, <3>1, <3>2 DEF i
    <2>3. CASE p # o
      <3>1. obj[p] # NoObj /\ obj'[p] = obj[p]
        BY <1>5, <2>3
      <3>2. Unprepared = {}
        BY <1>2 DEF Unprepared
      <3>3. LET x == obj[p] IN
            /\ transfers[x.tid] = p
            /\ <<x.part, x.sig>> \in Sessions
            /\ x.got \subseteq Chunks(x.sig)
            /\ x.finalized => x.got = Chunks(x.sig)
            /\ ~x.finalized => part[x.part] # NoInode
            /\ ~x.finalized =>
                 /\ DOMAIN file[part[x.part]].bytes = Chunks(x.sig)
                 /\ x.map = IF Chunks(x.sig) = {} THEN NoInode ELSE part[x.part]
            /\ part[x.part] # NoInode => Backs(file[part[x.part]].bytes, x.sig, x.got)
        BY <3>1, <3>2 DEF SoundInvariant, Registered
      <3>4. transfers'[obj[p].tid] = transfers[obj[p].tid]
        BY <1>6, <1>14, <3>1
      <3>. QED
        BY <2>1, <3>1, <3>3, <3>4
    <2>. QED
      BY <2>2, <2>3
  <1>17. recv'.pc # "put"
    BY <1>12
  <1>18. \A p \in Obj : Waiting(p)' => Waiting(p)
    BY <1>2, <1>17, WaitingLess
  <1>19. WaitingWhole'
    <2>1. ASSUME NEW p \in Obj, Waiting(p)'
          PROVE  /\ Waiting(p)
                 /\ obj'[p].sig = obj[p].sig /\ obj'[p].part = obj[p].part
                 /\ obj'[p].finalized <=> obj[p].finalized
                 /\ Kept(obj[p].part)
      <3>1. Waiting(p)
        BY <1>18, <2>1
      <3>2. obj[p] # NoObj
        BY <3>1, WaitingExists DEF SoundInvariant
      <3>. QED
        BY <1>13, <1>14, <3>1, <3>2
    <2>. QED
      BY <1>1, <2>1, WaitingFrame DEF SoundInvariant
  <1>20. QueuedOnce'
    BY <1>2, <1>17, QueueFrame DEF SoundInvariant
  <1>21. OneFinalizer' /\ NoneFailed'
    BY <1>2 DEF SoundInvariant, OneFinalizer, NoneFailed
  <1>22. ReceiveStation'
    BY <1>3, <1>5, <1>12 DEF ReceiveStation
  <1>23. ReceiveEnded'
    <2>. SUFFICES ASSUME recv'.pc = "dead" PROVE ReceiveEnded'
      BY DEF ReceiveEnded
    <2>1. ~fits /\ recv'.tid = t /\ recv'.sig = s
      BY <1>12
    <2>2. o # NoObj
      BY NoneAssumption
    <2>. QED
      BY <1>2, <1>3, <1>5, <1>6, <1>11, <2>1, <2>2 DEF ReceiveEnded, i
  <1>24. FinalizerStation' /\ FinalizerEnded'
    <2>1. ASSUME NEW p \in Obj, Abandoned(p) PROVE Abandoned(p)' /\ obj'[p].sig = obj[p].sig
      BY <1>2, <1>14, <1>18, <2>1 DEF Abandoned
    <2>2. /\ \A x \in Tid \X Name : temp[x] # NoInode => Stays(temp[x])
          /\ \A n \in Name : final[n] # NoInode => Stays(final[n])
      BY <1>13, SameStays DEF SameFiles
    <2>3. \A p \in Obj : obj[p] # NoObj /\ obj[p].finalized =>
            obj'[p].sig = obj[p].sig /\ obj'[p].part = obj[p].part /\ obj'[p].finalized
      BY <1>14
    <2>. QED
      BY <1>1, <1>2, <2>1, <2>2, <2>3, FinFrame DEF SoundInvariant
  <1>25. FilesSound'
    <2>1. \A u \in Tid : Unsized(u) => Unsized(u)'
      BY <1>2 DEF Unsized, TempName
    <2>. QED
      BY <1>13, <2>1, FilesFrame DEF SoundInvariant
  <1>26. JournalBacked' /\ JournalKeys'
    <2>1. \A r \in journal : Kept(r.part)
      BY <1>13, JournalFacts DEF SoundInvariant
    <2>2. ASSUME NEW q \in Obj, NEW r \in journal, obj'[q] # NoObj, obj'[q].finalized
          PROVE  obj'[q].sig # r.sig
      <3>1. q # o
        BY <1>5, <2>2
      <3>2. obj[q] # NoObj /\ obj[q].finalized /\ obj'[q] = obj[q]
        BY <1>5, <2>2, <3>1
      <3>. QED
        BY <3>2, JournalFacts DEF SoundInvariant
    <2>. QED
      BY <1>2, <2>1, <2>2, JournalKept DEF SoundInvariant
  <1>. QED
    BY <1>1, <1>15, <1>16, <1>19, <1>20, <1>21, <1>22, <1>23, <1>24, <1>25, <1>26
    DEF SoundInvariant

-----------------------------------------------------------------------------
(* DATA. *)

LEMMA SoundData ==
  ASSUME SoundInvariant, OneSigPerTid, NEW t \in Tid, NEW v \in Sig, NEW c \in Chunks(v),
         <<t, v>> \in Sessions, Data(t, c, v)
  PROVE  SoundInvariant'
  <1>. DEFINE o == transfers[t]
              x == obj[o]
              i == Target(x)
              b == file[i].bytes
              lost == IF x.map # NoInode /\ b[c] = Hole THEN {c} ELSE {}
  <1>1. TypeInvariant'
    BY TypedData DEF SoundInvariant
  <1>2. /\ recv.pc = "idle" /\ fin["recv"].pc = "idle" /\ o # NoObj /\ ~x.finalized
        /\ UNCHANGED <<transfers, sigIndex, queue, fin, completed, journal, restarts,
                       part, temp, final>>
        /\ file' = [file EXCEPT ![i].bytes[c] = v, ![i].mtime = Now]
    BY DEF Data, RecvReady
  <1>3. o \in Obj /\ x # NoObj /\ x.tid = t /\ <<t, x.sig>> \in Sessions
    BY <1>2, TableFacts DEF SoundInvariant
  <1>4. x.sig = v
    BY <1>3 DEF OneSigPerTid
  <1>5. /\ x \in TransferRec /\ x.part \in Tid /\ <<x.part, v>> \in Sessions
    BY <1>3, <1>4, ObjectTyped, ObjectFacts DEF SoundInvariant
  <1>6. Unprepared = {} /\ recv.o = NoObj
    BY <1>2 DEF Unprepared, SoundInvariant, ReceiveStation
  <1>7. /\ part[x.part] # NoInode
        /\ DOMAIN file[part[x.part]].bytes = Chunks(v)
        /\ x.map = part[x.part]
        /\ Backs(file[part[x.part]].bytes, v, x.got) /\ x.got \subseteq Chunks(v)
    BY <1>2, <1>3, <1>4, <1>6 DEF SoundInvariant, Registered
  <1>8. i = part[x.part] /\ i \in Inode /\ file[i] \in File
    BY <1>5, <1>7, PathFacts DEF SoundInvariant, Target
  <1>9. b \in [Chunks(v) -> {v, Hole}]
    <2>1. file[part[x.part]].bytes \in [Chunks(v) -> {v, Hole}] \cup {NoBytes}
      BY <1>5, <1>7, PartBytes DEF SoundInvariant, FilesSound
    <2>2. file[part[x.part]].bytes # NoBytes
      BY <1>7 DEF NoBytes
    <2>. QED
      BY <1>8, <2>1, <2>2
  <1>. HIDE DEF i
  <1>10. /\ file'[i].bytes = [b EXCEPT ![c] = v]
         /\ \A j \in Inode : j # i => file'[j] = file[j]
    <2>1. /\ file'[i] = [file[i] EXCEPT !.bytes[c] = v, !.mtime = Now]
          /\ \A j \in Inode : j # i => file'[j] = file[j]
      BY <1>2, <1>8 DEF SoundInvariant, TypeInvariant, TypeOK
    <2>2. file[i] = [bytes |-> b, mtime |-> file[i].mtime]
      BY <1>8 DEF File
    <2>. QED
      BY <2>1, <2>2
  <1>. HIDE DEF b
  <1>11. /\ file'[i].bytes \in [Chunks(v) -> {v, Hole}]
         /\ file'[i].bytes[c] = v
         /\ \A d \in Chunks(v) : b[d] # Hole => file'[i].bytes[d] = b[d]
    BY <1>9, <1>10
  <1>12. \A j \in Inode : Stays(j)
    <2>1. Stays(i)
      BY <1>9, <1>11 DEF Stays, b
    <2>. QED
      BY <1>10, <2>1, SameStays
  <1>13. \A u \in Tid : Kept(u)
    BY <1>2, <1>12, PathFacts DEF SoundInvariant, Kept
  <1>14. /\ obj'[o] # NoObj /\ obj'[o].tid = t /\ obj'[o].sig = v /\ obj'[o].part = x.part
         /\ obj'[o].map = x.map /\ ~obj'[o].finalized /\ obj'[o].got = x.got \cup {c}
         /\ \A p \in Obj : p # o => obj'[p] = obj[p]
    <2>. DEFINE y == [x EXCEPT !.got = x.got \cup {c}, !.unsynced = x.unsynced \cup lost]
    <2>1. obj' = [obj EXCEPT ![o] = y]
      BY DEF Data, b, i
    <2>2. /\ y.tid = x.tid /\ y.sig = x.sig /\ y.part = x.part /\ y.map = x.map
          /\ y.finalized = x.finalized /\ y.got = x.got \cup {c}
      BY <1>5 DEF TransferRec
    <2>. HIDE DEF y, lost
    <2>3. obj'[o] = y /\ \A p \in Obj : p # o => obj'[p] = obj[p]
      BY <1>3, <2>1 DEF SoundInvariant, TypeInvariant, TypeOK
    <2>4. obj'[o] # NoObj
      <3>1. transfers'[t] = o
        BY <1>2
      <3>. QED
        BY <1>1, <1>2, <3>1 DEF TypeInvariant, ReferencesAllocated
    <2>. QED
      BY <1>2, <1>3, <1>4, <2>2, <2>3, <2>4
  <1>15. \/ recv' = recv
         \/ recv'.pc = "full" /\ recv'.o = o /\ obj'[o].got = Chunks(v)
    <2>1. \/ recv' = recv
          \/ recv' = [IdleRecv EXCEPT !.pc = "full", !.o = o] /\ x.got \cup {c} = Chunks(x.sig)
      BY DEF Data
    <2>2. LET r == [IdleRecv EXCEPT !.pc = "full", !.o = o] IN r.pc = "full" /\ r.o = o
      BY DEF IdleRecv
    <2>. QED
      BY <1>4, <1>14, <2>1, <2>2
  <1>16. recv'.pc \in {"idle", "full"}
    BY <1>2, <1>15
  <1>. HIDE DEF o, x
  <1>17. \A p \in Obj : /\ obj'[p] # NoObj <=> obj[p] # NoObj
                        /\ obj[p] # NoObj =>
                             /\ obj'[p].tid = obj[p].tid /\ obj'[p].sig = obj[p].sig
                             /\ obj'[p].part = obj[p].part
                             /\ obj'[p].finalized <=> obj[p].finalized
    BY <1>2, <1>3, <1>4, <1>14 DEF x
  <1>18. Keyed'
    <2>1. \A u \in Tid : transfers[u] # NoObj => transfers[u] \in Obj /\ obj[transfers[u]] # NoObj
      BY TableFacts DEF SoundInvariant
    <2>. QED
      BY <1>2, <1>17, <2>1 DEF SoundInvariant, Keyed
  <1>19. Registered'
    <2>. SUFFICES ASSUME NEW p \in Obj, obj'[p] # NoObj
                  PROVE  LET z == obj'[p] IN
                         /\ transfers'[z.tid] = p
                         /\ <<z.part, z.sig>> \in Sessions
                         /\ z.got \subseteq Chunks(z.sig)
                         /\ z.finalized => z.got = Chunks(z.sig)
                         /\ ~z.finalized => part'[z.part] # NoInode
                         /\ ~z.finalized /\ z.tid \notin Unprepared' =>
                              /\ DOMAIN file'[part'[z.part]].bytes = Chunks(z.sig)
                              /\ z.map = IF Chunks(z.sig) = {} THEN NoInode ELSE part'[z.part]
                         /\ part'[z.part] # NoInode =>
                              Backs(file'[part'[z.part]].bytes, z.sig, z.got)
      BY DEF Registered
    <2>1. part' = part /\ transfers' = transfers
      BY <1>2
    <2>2. CASE p = o
      <3>1. transfers[t] = o
        BY DEF o
      <3>2. DOMAIN file'[i].bytes = Chunks(v)
        BY <1>11
      <3>3. Backs(file'[i].bytes, v, x.got \cup {c})
        <4>1. Backs(file'[i].bytes, v, x.got)
          BY <1>7, <1>8, <1>12, BackedStays
        <4>. QED
          BY <1>11, <3>2, <4>1 DEF Backs
      <3>. QED
        BY <1>5, <1>7, <1>8, <1>14, <2>1, <2>2, <3>1, <3>2, <3>3
    <2>3. CASE p # o
      <3>1. obj[p] # NoObj /\ obj'[p] = obj[p]
        BY <1>14, <2>3
      <3>2. obj[p].part \in Tid /\ obj[p].sig \in Sig
        BY <3>1, ObjectTyped DEF SoundInvariant
      <3>3. LET z == obj[p] IN
            /\ transfers[z.tid] = p
            /\ <<z.part, z.sig>> \in Sessions
            /\ z.got \subseteq Chunks(z.sig)
            /\ z.finalized => z.got = Chunks(z.sig)
            /\ ~z.finalized => part[z.part] # NoInode
            /\ ~z.finalized =>
                 /\ DOMAIN file[part[z.part]].bytes = Chunks(z.sig)
                 /\ z.map = IF Chunks(z.sig) = {} THEN NoInode ELSE part[z.part]
            /\ part[z.part] # NoInode => Backs(file[part[z.part]].bytes, z.sig, z.got)
        BY <1>6, <3>1 DEF SoundInvariant, Registered
      <3>4. part[obj[p].part] # NoInode =>
              /\ DOMAIN file'[part[obj[p].part]].bytes = DOMAIN file[part[obj[p].part]].bytes
              /\ Backs(file'[part[obj[p].part]].bytes, obj[p].sig, obj[p].got)
        <4>1. part[obj[p].part] # NoInode => Stays(part[obj[p].part])
          BY <1>13, <3>2 DEF Kept
        <4>. QED
          BY <3>2, <3>3, <4>1, BackedStays DEF Stays
      <3>. QED
        BY <2>1, <3>1, <3>3, <3>4
    <2>. QED
      BY <2>2, <2>3
  <1>20. \A p \in Obj : Waiting(p)' => Waiting(p)
    BY <1>2, <1>16, WaitingLess
  <1>21. WaitingWhole'
    <2>1. ASSUME NEW p \in Obj, Waiting(p)'
          PROVE  /\ Waiting(p)
                 /\ obj'[p].sig = obj[p].sig /\ obj'[p].part = obj[p].part
                 /\ obj'[p].finalized <=> obj[p].finalized
                 /\ Kept(obj[p].part)
      <3>1. Waiting(p)
        BY <1>20, <2>1
      <3>2. obj[p] # NoObj /\ obj[p].part \in Tid
        BY <3>1, WaitingExists, ObjectTyped DEF SoundInvariant
      <3>. QED
        BY <1>13, <1>17, <3>1, <3>2
    <2>. QED
      BY <1>1, <2>1, WaitingFrame DEF SoundInvariant
  <1>22. QueuedOnce' /\ OneFinalizer' /\ NoneFailed'
    BY <1>2, <1>16, QueueFrame DEF SoundInvariant, OneFinalizer, NoneFailed
  <1>23. ReceiveStation' /\ ReceiveEnded'
    <2>1. recv'.pc = "full" => recv'.o = o /\ obj'[o].got = Chunks(v)
      BY <1>2, <1>15
    <2>2. recv'.pc = "idle" => recv'.o = NoObj
      BY <1>6, <1>15
    <2>. QED
      BY <1>14, <1>16, <2>1, <2>2 DEF ReceiveStation, ReceiveEnded
  <1>24. FinalizerStation' /\ FinalizerEnded'
    <2>1. \A p \in Obj : obj[p] # NoObj /\ obj[p].finalized =>
            obj'[p].sig = obj[p].sig /\ obj'[p].part = obj[p].part /\ obj'[p].finalized
      BY <1>17
    <2>2. ASSUME NEW p \in Obj, Abandoned(p) PROVE Abandoned(p)' /\ obj'[p].sig = obj[p].sig
      BY <1>2, <1>17, <1>20, <2>2 DEF Abandoned
    <2>3. /\ \A y \in Tid \X Name : temp[y] # NoInode => Stays(temp[y])
          /\ \A n \in Name : final[n] # NoInode => Stays(final[n])
      BY <1>12, PathFacts DEF SoundInvariant
    <2>. QED
      BY <1>1, <1>2, <2>1, <2>2, <2>3, FinFrame DEF SoundInvariant
  <1>25. FilesSound'
    <2>1. PartsSound'
      <3>1. \A u, w \in Tid : part'[u] = part'[w] /\ part'[u] # NoInode => u = w
        BY <1>2 DEF SoundInvariant, FilesSound, PartsSound
      <3>2. ASSUME NEW u \in Tid, part'[u] # NoInode
            PROVE  \E s \in Sig :
                     /\ <<u, s>> \in Sessions
                     /\ file'[part'[u]].bytes \in [Chunks(s) -> {s, Hole}] \cup {NoBytes}
                     /\ DOMAIN file'[part'[u]].bytes = Chunks(s) \/ Unsized(u)'
        <4>1. part'[u] = part[u] /\ part[u] \in Inode
          BY <1>2, <3>2, PathFacts DEF SoundInvariant
        <4>2. CASE part[u] = i
          <5>1. u = x.part
            BY <1>2, <1>5, <1>8, <3>1, <3>2, <4>1, <4>2
          <5>. QED
            BY <1>5, <1>11, <4>1, <4>2, <5>1
        <4>3. CASE part[u] # i
          <5>1. file'[part[u]] = file[part[u]]
            BY <1>10, <4>1, <4>3
          <5>2. Unsized(u) => Unsized(u)'
            BY <1>2 DEF Unsized, TempName
          <5>. QED
            BY <3>2, <4>1, <5>1, <5>2 DEF SoundInvariant, FilesSound, PartsSound
        <4>. QED
          BY <4>2, <4>3
      <3>. QED
        BY <3>1, <3>2 DEF PartsSound
    <2>2. LinksNamed'
      BY <1>2 DEF SoundInvariant, FilesSound, LinksNamed
    <2>3. FinalWhole'
      <3>. SUFFICES ASSUME NEW n \in Name, final[n] # NoInode
                    PROVE  \/ \E s \in Sig : FileName[s] = n /\ file'[final[n]].bytes = Whole(s)
                           \/ KeepPart /\ \E u \in Tid : temp[<<u, n>>] = final[n]
        BY <1>2 DEF FinalWhole
      <3>1. CASE \E s \in Sig : FileName[s] = n /\ file[final[n]].bytes = Whole(s)
        <4>1. PICK s \in Sig : FileName[s] = n /\ file[final[n]].bytes = Whole(s)
          BY <3>1
        <4>2. Stays(final[n])
          BY <1>12, PathFacts DEF SoundInvariant
        <4>3. file'[final[n]] \in File
          BY <1>1, <1>2, PathFacts DEF TypeInvariant, TypeOK, HeldAllocated
        <4>. QED
          BY <4>1, <4>2, <4>3, WholeStays DEF SoundInvariant
      <3>. QED
        BY <3>1 DEF SoundInvariant, FilesSound, FinalWhole
    <2>. QED
      BY <2>1, <2>2, <2>3 DEF FilesSound
  <1>26. JournalBacked' /\ JournalKeys'
    <2>1. \A r \in journal : Kept(r.part)
      BY <1>13, JournalFacts DEF SoundInvariant
    <2>2. ASSUME NEW q \in Obj, NEW r \in journal, obj'[q] # NoObj, obj'[q].finalized
          PROVE  obj'[q].sig # r.sig
      <3>1. obj[q] # NoObj /\ obj[q].finalized /\ obj'[q].sig = obj[q].sig
        BY <1>17, <2>2
      <3>. QED
        BY <3>1, JournalFacts DEF SoundInvariant
    <2>. QED
      BY <1>2, <2>1, <2>2, JournalKept DEF SoundInvariant
  <1>. QED
    BY <1>1, <1>18, <1>19, <1>21, <1>22, <1>23, <1>24, <1>25, <1>26 DEF SoundInvariant

-----------------------------------------------------------------------------
(* A complete transfer is marked and handed over. *)

LEMMA SoundMark ==
  ASSUME SoundInvariant, OneSigPerTid, MarkFinalized
  PROVE  SoundInvariant'
  <1>. DEFINE o == recv.o
              x == obj[o]
              v == x.sig
              y == [x EXCEPT !.finalized = TRUE, !.map = NoInode, !.unsynced = {}]
  <1>1. TypeInvariant'
    BY TypedMark DEF SoundInvariant
  <1>2. /\ recv.pc = "full" /\ ~x.finalized /\ x.got = Chunks(v)
        /\ UNCHANGED <<transfers, sigIndex, queue, fin, completed, restarts, part, temp, final>>
        /\ obj' = [obj EXCEPT ![o] = y]
        /\ journal' = JournalOf(transfers', obj')
        /\ file' = Reclaim(file, Held(part', temp', final', obj'))
        /\ recv' = [recv EXCEPT !.pc = "put"]
    BY DEF MarkFinalized, SoundInvariant, ReceiveStation
  <1>3. recv'.pc = "put" /\ recv'.o = o
    BY <1>2, RecvTyped DEF SoundInvariant, TypeInvariant
  <1>4. o \in Obj /\ x # NoObj
    BY <1>2, NoneAssumption DEF SoundInvariant, TypeInvariant, StationsFilled, ReferencesAllocated
  <1>5. /\ x \in TransferRec /\ x.part \in Tid /\ v \in Sig /\ <<x.part, v>> \in Sessions
        /\ transfers[x.tid] = o
    BY <1>4, ObjectTyped, ObjectFacts DEF SoundInvariant
  <1>6. part[x.part] # NoInode /\ Backs(file[part[x.part]].bytes, v, x.got)
    BY <1>2, <1>4 DEF SoundInvariant, Registered
  <1>7. file[part[x.part]].bytes = Whole(v)
    <2>1. file[part[x.part]].bytes \in [Chunks(v) -> {v, Hole}] \cup {NoBytes}
      BY <1>5, <1>6, PartBytes DEF SoundInvariant, FilesSound
    <2>2. CASE file[part[x.part]].bytes \in [Chunks(v) -> {v, Hole}]
      BY <1>2, <1>6, <2>2 DEF Backs, Whole
    <2>3. CASE file[part[x.part]].bytes = NoBytes
      BY <1>2, <1>6, <2>3 DEF Backs, Whole, NoBytes
    <2>. QED
      BY <2>1, <2>2, <2>3
  <1>8. /\ obj'[o] # NoObj /\ obj'[o].tid = x.tid /\ obj'[o].sig = v /\ obj'[o].part = x.part
        /\ obj'[o].finalized /\ obj'[o].got = x.got
        /\ \A p \in Obj : p # o => obj'[p] = obj[p]
    <2>1. /\ y \in TransferRec /\ y.tid = x.tid /\ y.sig = v /\ y.part = x.part
          /\ y.finalized = TRUE /\ y.got = x.got
      BY <1>5 DEF TransferRec
    <2>2. y # NoObj
      BY <2>1, NoneAssumption
    <2>. HIDE DEF y
    <2>3. obj'[o] = y /\ \A p \in Obj : p # o => obj'[p] = obj[p]
      BY <1>2, <1>4 DEF SoundInvariant, TypeInvariant, TypeOK
    <2>. QED
      BY <2>1, <2>2, <2>3
  <1>9. SameFiles
    <2>1. TypeOK /\ TypeOK' /\ file \in [Inode -> File \cup {Free}]
      BY <1>1 DEF SoundInvariant, TypeInvariant, TypeOK
    <2>2. /\ \A t \in Tid : part'[t] # NoInode => file'[part'[t]] = file[part'[t]]
          /\ \A z \in Tid \X Name : temp'[z] # NoInode => file'[temp'[z]] = file[temp'[z]]
          /\ \A n \in Name : final'[n] # NoInode => file'[final'[n]] = file[final'[n]]
      BY <1>2, <2>1, ReclaimKeeps
    <2>. QED
      BY <1>2, <2>2 DEF SameFiles
  <1>10. \A t \in Tid : Kept(t)
    BY <1>9, SameKept
  <1>. HIDE DEF o, x, v, y
  <1>11. \A p \in Obj : /\ obj'[p] # NoObj <=> obj[p] # NoObj
                        /\ obj[p] # NoObj =>
                             /\ obj'[p].tid = obj[p].tid /\ obj'[p].sig = obj[p].sig
                             /\ obj'[p].part = obj[p].part
    BY <1>4, <1>8 DEF x, v
  <1>12. ASSUME NEW p \in Obj, obj[p] # NoObj, obj[p].finalized
         PROVE  p # o /\ obj'[p] = obj[p]
    BY <1>2, <1>8, <1>12 DEF x
  <1>13. Keyed'
    <2>1. \A u \in Tid : transfers[u] # NoObj => transfers[u] \in Obj /\ obj[transfers[u]] # NoObj
      BY TableFacts DEF SoundInvariant
    <2>. QED
      BY <1>2, <1>11, <2>1 DEF SoundInvariant, Keyed
  <1>14. Registered'
    <2>. SUFFICES ASSUME NEW p \in Obj, obj'[p] # NoObj
                  PROVE  LET z == obj'[p] IN
                         /\ transfers'[z.tid] = p
                         /\ <<z.part, z.sig>> \in Sessions
                         /\ z.got \subseteq Chunks(z.sig)
                         /\ z.finalized => z.got = Chunks(z.sig)
                         /\ ~z.finalized => part'[z.part] # NoInode
                         /\ ~z.finalized /\ z.tid \notin Unprepared' =>
                              /\ DOMAIN file'[part'[z.part]].bytes = Chunks(z.sig)
                              /\ z.map = IF Chunks(z.sig) = {} THEN NoInode ELSE part'[z.part]
                         /\ part'[z.part] # NoInode =>
                              Backs(file'[part'[z.part]].bytes, z.sig, z.got)
      BY DEF Registered
    <2>1. part' = part /\ transfers' = transfers
      BY <1>2
    <2>2. CASE p = o
      <3>1. Backs(file'[part[x.part]].bytes, v, x.got)
        BY <1>5, <1>6, <1>9 DEF SameFiles
      <3>. QED
        BY <1>2, <1>5, <1>6, <1>8, <2>1, <2>2, <3>1
    <2>3. CASE p # o
      <3>1. obj[p] # NoObj /\ obj'[p] = obj[p]
        BY <1>8, <2>3
      <3>2. obj[p].part \in Tid /\ Unprepared = {}
        BY <1>2, <3>1, ObjectTyped DEF SoundInvariant, Unprepared
      <3>3. LET z == obj[p] IN
            /\ transfers[z.tid] = p
            /\ <<z.part, z.sig>> \in Sessions
            /\ z.got \subseteq Chunks(z.sig)
            /\ z.finalized => z.got = Chunks(z.sig)
            /\ ~z.finalized => part[z.part] # NoInode
            /\ ~z.finalized =>
                 /\ DOMAIN file[part[z.part]].bytes = Chunks(z.sig)
                 /\ z.map = IF Chunks(z.sig) = {} THEN NoInode ELSE part[z.part]
            /\ part[z.part] # NoInode => Backs(file[part[z.part]].bytes, z.sig, z.got)
        BY <3>1, <3>2 DEF SoundInvariant, Registered
      <3>4. part[obj[p].part] # NoInode =>
              file'[part[obj[p].part]].bytes = file[part[obj[p].part]].bytes
        BY <1>9, <3>2 DEF SameFiles
      <3>. QED
        BY <2>1, <3>1, <3>3, <3>4
    <2>. QED
      BY <2>2, <2>3
  <1>15. \A p \in Obj : Waiting(p)' => Waiting(p) \/ p = o
    BY <1>2, <1>3 DEF Waiting
  <1>16. WaitingWhole'
    <2>. SUFFICES ASSUME NEW p \in Obj, Waiting(p)'
                  PROVE  /\ obj'[p].finalized
                         /\ part'[obj'[p].part] # NoInode
                         /\ file'[part'[obj'[p].part]].bytes = Whole(obj'[p].sig)
      BY DEF WaitingWhole
    <2>1. CASE p = o
      <3>1. file'[part[x.part]].bytes = Whole(v)
        BY <1>5, <1>6, <1>7, <1>9 DEF SameFiles
      <3>. QED
        BY <1>2, <1>6, <1>8, <2>1, <3>1
    <2>2. CASE p # o
      <3>1. /\ obj[p] # NoObj /\ obj[p].finalized /\ part[obj[p].part] # NoInode
            /\ file[part[obj[p].part]].bytes = Whole(obj[p].sig)
        BY <1>15, <2>2, WaitingExists DEF SoundInvariant
      <3>2. obj[p].part \in Tid
        BY <3>1, ObjectTyped DEF SoundInvariant
      <3>3. file'[part[obj[p].part]].bytes = Whole(obj[p].sig)
        BY <1>9, <3>1, <3>2 DEF SameFiles
      <3>. QED
        BY <1>2, <1>12, <3>1, <3>3
    <2>. QED
      BY <2>1, <2>2
  <1>17. \A th \in Thread : fin[th].o # o
    <2>1. ASSUME NEW th \in Thread, fin[th].o = o PROVE FALSE
      <3>1. fin[th].o # NoObj
        BY <1>4, <2>1, NoneAssumption
      <3>2. obj[fin[th].o].finalized
        BY <3>1 DEF SoundInvariant, FinalizerStation, AtStation
      <3>. QED
        BY <1>2, <2>1, <3>2 DEF x
    <2>. QED
      BY <2>1
  <1>18. QueuedOnce'
    <2>1. \A k \in 1 .. Len(queue) : queue[k] # o
      <3>1. ASSUME NEW k \in 1 .. Len(queue), queue[k] = o PROVE FALSE
        <4>1. Waiting(o)
          BY <3>1 DEF Waiting
        <4>. QED
          BY <1>2, <1>4, <4>1, WaitingExists DEF SoundInvariant, x
      <3>. QED
        BY <3>1
    <2>. QED
      BY <1>2, <1>3, <1>17, <2>1 DEF SoundInvariant, QueuedOnce
  <1>19. ReceiveStation' /\ ReceiveEnded'
    BY <1>3 DEF ReceiveStation, ReceiveEnded
  <1>20. OneFinalizer' /\ NoneFailed'
    BY <1>2 DEF SoundInvariant, OneFinalizer, NoneFailed
  <1>21. FinalizerStation' /\ FinalizerEnded'
    <2>1. \A p \in Obj : obj[p] # NoObj /\ obj[p].finalized =>
            obj'[p].sig = obj[p].sig /\ obj'[p].part = obj[p].part /\ obj'[p].finalized
      BY <1>12
    <2>2. ASSUME NEW p \in Obj, Abandoned(p) PROVE Abandoned(p)' /\ obj'[p].sig = obj[p].sig
      <3>1. p # o /\ obj'[p] = obj[p]
        BY <1>12, <2>2 DEF Abandoned
      <3>2. ~Waiting(p)'
        BY <1>15, <2>2, <3>1 DEF Abandoned
      <3>. QED
        BY <1>2, <2>2, <3>1, <3>2 DEF Abandoned
    <2>3. /\ \A z \in Tid \X Name : temp[z] # NoInode => Stays(temp[z])
          /\ \A n \in Name : final[n] # NoInode => Stays(final[n])
      BY <1>9, SameStays DEF SameFiles
    <2>. QED
      BY <1>1, <1>2, <2>1, <2>2, <2>3, FinFrame DEF SoundInvariant
  <1>22. FilesSound'
    <2>1. \A u \in Tid : Unsized(u) => Unsized(u)'
      BY <1>2 DEF Unsized, TempName
    <2>. QED
      BY <1>9, <2>1, FilesFrame DEF SoundInvariant
  <1>23. JournalBacked' /\ JournalKeys'
    BY <1>1, <1>2, <1>13, <1>14, JournalWritten
  <1>. QED
    BY <1>1, <1>13, <1>14, <1>16, <1>18, <1>19, <1>20, <1>21, <1>22, <1>23 DEF SoundInvariant

-----------------------------------------------------------------------------
(* The closing section. *)

LEMMA SoundFinish ==
  ASSUME SoundInvariant, OneSigPerTid, NEW th \in Thread, Finish(th)
  PROVE  SoundInvariant'
  <1>. DEFINE f == fin[th]
              q == f.o
              victim == transfers[f.tid]
              marked == [obj EXCEPT ![q].done = (f.state = "COMPLETE")]
              g == [f EXCEPT !.pc = "report", !.o = NoObj]
  <1>1. TypeInvariant'
    BY TypedFinish DEF SoundInvariant
  <1>2. /\ f.pc = "finish" /\ recv.pc \notin {"truncate", "map"}
        /\ UNCHANGED <<queue, recv, restarts, part, temp, final>>
        /\ completed' = completed \cup {[tid |-> f.tid, sig |-> f.sig, state |-> f.state]}
        /\ transfers' = [transfers EXCEPT ![f.tid] = NoObj]
        /\ sigIndex' = [s \in Sig |->
                          IF victim # NoObj /\ s = obj[victim].sig /\ sigIndex[s] = f.tid
                          THEN NoTid ELSE sigIndex[s]]
        /\ fin' = [fin EXCEPT ![th] = g]
        /\ obj' = Referenced(marked, transfers', fin')
        /\ file' = Reclaim(file, Held(part', temp', final', obj'))
        /\ journal' = JournalOf(transfers', obj')
    BY DEF Finish, LockFree
  <1>3. /\ q \in Obj /\ obj[q] # NoObj /\ f.tid \in Tid /\ f.sig \in Sig /\ f.part \in Tid
        /\ obj[q].sig = f.sig /\ obj[q].finalized
        /\ <<f.tid, f.sig>> \in Sessions /\ <<f.part, f.sig>> \in Sessions
    BY <1>2, HeldObject
  <1>4. f.state = "COMPLETE"
    BY <1>2 DEF SoundInvariant, FinalizerStation, AtStation
  <1>5. /\ fin'[th].pc = "report" /\ fin'[th].o = NoObj /\ fin'[th].state = f.state
        /\ fin'[th].tid = f.tid /\ fin'[th].sig = f.sig /\ fin'[th].part = f.part
        /\ \A u \in Thread : u # th => fin'[u] = fin[u]
    <2>1. f \in FinRec
      BY DEF SoundInvariant, TypeInvariant, TypeOK
    <2>2. /\ g.pc = "report" /\ g.o = NoObj /\ g.state = f.state
          /\ g.tid = f.tid /\ g.sig = f.sig /\ g.part = f.part
      BY <2>1 DEF FinRec
    <2>. HIDE DEF g
    <2>3. fin'[th] = g /\ \A u \in Thread : u # th => fin'[u] = fin[u]
      BY <1>2 DEF SoundInvariant, TypeInvariant, TypeOK
    <2>. QED
      BY <2>2, <2>3
  <1>6. \A u \in Thread : u # th => fin[u].o = NoObj /\ fin[u].pc \in {"idle", "dead"}
    BY <1>2, OtherThread DEF SoundInvariant, FinalizerStation, AtStation
  <1>7. victim = NoObj \/ victim = q
    <2>. SUFFICES ASSUME victim # NoObj PROVE victim = q
      OBVIOUS
    <2>1. /\ victim \in Obj /\ obj[victim] # NoObj /\ <<f.tid, obj[victim].sig>> \in Sessions
      BY <1>3, TableFacts DEF SoundInvariant
    <2>2. obj[victim].sig = f.sig
      BY <1>3, <2>1 DEF OneSigPerTid
    <2>. QED
      BY <1>3, <2>1, <2>2, ObjectsApart DEF SoundInvariant
  <1>8. transfers'[f.tid] = NoObj /\ \A u \in Tid : u # f.tid => transfers'[u] = transfers[u]
    BY <1>2, <1>3 DEF SoundInvariant, TypeInvariant, TypeOK
  <1>9. \A p \in Obj : obj'[p] = IF \/ \E t \in Tid : transfers'[t] = p
                                    \/ \E k \in 1 .. Len(queue) : queue[k] = p
                                    \/ recv.o = p
                                    \/ \E u \in Thread : fin'[u].o = p
                                 THEN marked[p] ELSE NoObj
    <2>. HIDE DEF marked
    <2>. QED
      BY <1>2 DEF Referenced
  <1>10. /\ \A p \in Obj : p # q => marked[p] = obj[p]
         /\ marked[q] # NoObj /\ marked[q].tid = obj[q].tid /\ marked[q].sig = f.sig
         /\ marked[q].part = obj[q].part /\ marked[q].got = obj[q].got
         /\ marked[q].finalized /\ marked[q].map = obj[q].map
    <2>. DEFINE z == [obj[q] EXCEPT !.done = (f.state = "COMPLETE")]
    <2>1. obj[q] \in TransferRec
      BY <1>3, ObjectTyped DEF SoundInvariant
    <2>2. /\ z \in TransferRec /\ z.tid = obj[q].tid /\ z.sig = obj[q].sig
          /\ z.part = obj[q].part /\ z.got = obj[q].got /\ z.finalized = obj[q].finalized
          /\ z.map = obj[q].map
      BY <2>1 DEF TransferRec
    <2>3. z # NoObj
      BY <2>2, NoneAssumption
    <2>4. marked = [obj EXCEPT ![q] = z]
      OBVIOUS
    <2>. HIDE DEF z, q, marked
    <2>5. marked[q] = z /\ \A p \in Obj : p # q => marked[p] = obj[p]
      BY <1>3, <2>4 DEF SoundInvariant, TypeInvariant, TypeOK
    <2>. QED
      BY <1>3, <2>2, <2>3, <2>5
  <1>. HIDE DEF marked, g
  <1>11. ASSUME NEW p \in Obj, p # q
         PROVE  obj'[p] = obj[p] /\ (obj[p] # NoObj => transfers'[obj[p].tid] = p)
    <2>1. CASE obj[p] = NoObj
      BY <1>9, <1>10, <1>11, <2>1
    <2>2. CASE obj[p] # NoObj
      <3>1. obj[p].tid \in Tid /\ transfers[obj[p].tid] = p /\ p # NoObj
        BY <2>2, ObjectFacts DEF SoundInvariant
      <3>2. obj[p].tid # f.tid
        BY <1>7, <1>11, <3>1
      <3>3. transfers'[obj[p].tid] = p
        BY <1>8, <3>1, <3>2
      <3>. QED
        BY <1>9, <1>10, <1>11, <3>1, <3>3
    <2>. QED
      BY <2>1, <2>2
  <1>12. victim # NoObj => obj'[q] = NoObj
    <2>. SUFFICES ASSUME victim # NoObj PROVE obj'[q] = NoObj
      OBVIOUS
    <2>0. q # NoObj
      BY <1>3, NoneAssumption
    <2>1. obj[q].tid = f.tid
      BY <1>3, <1>7, TableFacts DEF SoundInvariant
    <2>2. \A t \in Tid : transfers'[t] # q
      <3>1. ASSUME NEW t \in Tid, transfers'[t] = q PROVE FALSE
        <4>1. t # f.tid
          BY <1>8, <2>0, <3>1
        <4>2. transfers[t] = q
          BY <1>8, <3>1, <4>1
        <4>3. obj[q].tid = t
          BY <2>0, <4>2, TableFacts DEF SoundInvariant
        <4>. QED
          BY <2>1, <4>1, <4>3
      <3>. QED
        BY <3>1
    <2>3. \A k \in 1 .. Len(queue) : queue[k] # q
      BY DEF SoundInvariant, QueuedOnce
    <2>4. recv.o # q
      <3>1. recv.pc = "put" => recv.o # q
        BY DEF SoundInvariant, QueuedOnce
      <3>2. recv.pc = "full" => recv.o # q
        BY <1>3 DEF SoundInvariant, ReceiveStation
      <3>3. recv.pc \notin {"full", "put"} => recv.o = NoObj
        BY DEF SoundInvariant, ReceiveStation
      <3>. QED
        BY <2>0, <3>1, <3>2, <3>3
    <2>5. \A u \in Thread : fin'[u].o # q
      BY <1>5, <1>6, <2>0
    <2>. HIDE DEF q
    <2>. QED
      BY <1>3, <1>9, <2>2, <2>3, <2>4, <2>5
  <1>13. victim = NoObj =>
           /\ \A t \in Tid : transfers'[t] = transfers[t]
           /\ \A s \in Sig : sigIndex'[s] = sigIndex[s]
           /\ obj'[q] = marked[q]
    <2>. SUFFICES ASSUME victim = NoObj
                  PROVE  /\ \A t \in Tid : transfers'[t] = transfers[t]
                         /\ \A s \in Sig : sigIndex'[s] = sigIndex[s]
                         /\ obj'[q] = marked[q]
      OBVIOUS
    <2>1. \A t \in Tid : transfers'[t] = transfers[t]
      BY <1>8
    <2>2. \A s \in Sig : sigIndex'[s] = sigIndex[s]
      BY <1>2
    <2>3. obj[q].tid \in Tid /\ transfers[obj[q].tid] = q
      BY <1>3, ObjectFacts DEF SoundInvariant
    <2>4. \E t \in Tid : transfers'[t] = q
      BY <2>1, <2>3
    <2>. HIDE DEF q
    <2>. QED
      BY <1>3, <1>9, <2>1, <2>2, <2>4
  <1>14. \A s \in Sig : s # f.sig => sigIndex'[s] = sigIndex[s]
    BY <1>2, <1>3, <1>7
  <1>15. \A s \in Sig : sigIndex'[s] # NoTid => sigIndex'[s] = sigIndex[s]
    BY <1>2
  <1>16. SameFiles
    <2>1. TypeOK /\ TypeOK' /\ file \in [Inode -> File \cup {Free}]
      BY <1>1 DEF SoundInvariant, TypeInvariant, TypeOK
    <2>2. /\ \A t \in Tid : part'[t] # NoInode => file'[part'[t]] = file[part'[t]]
          /\ \A y \in Tid \X Name : temp'[y] # NoInode => file'[temp'[y]] = file[temp'[y]]
          /\ \A n \in Name : final'[n] # NoInode => file'[final'[n]] = file[final'[n]]
      BY <1>2, <2>1, ReclaimKeeps
    <2>. QED
      BY <1>2, <2>2 DEF SameFiles
  <1>17. \A t \in Tid : Kept(t)
    BY <1>16, SameKept
  <1>. HIDE DEF q, victim
  <1>18. ASSUME NEW p \in Obj, obj'[p] # NoObj
         PROVE  /\ obj[p] # NoObj /\ transfers'[obj[p].tid] = p
                /\ obj'[p].tid = obj[p].tid /\ obj'[p].sig = obj[p].sig
                /\ obj'[p].part = obj[p].part /\ obj'[p].got = obj[p].got
                /\ obj'[p].map = obj[p].map
                /\ obj'[p].finalized <=> obj[p].finalized
    <2>1. CASE p # q
      BY <1>11, <1>18, <2>1
    <2>2. CASE p = q
      <3>1. victim = NoObj
        BY <1>12, <1>18, <2>2
      <3>2. obj[q].tid \in Tid /\ transfers[obj[q].tid] = q
        BY <1>3, ObjectFacts DEF SoundInvariant
      <3>. QED
        BY <1>3, <1>10, <1>13, <2>2, <3>1, <3>2
    <2>. QED
      BY <2>1, <2>2
  <1>19. Keyed'
    <2>1. ASSUME NEW u \in Tid, transfers'[u] # NoObj
          PROVE  /\ obj'[transfers'[u]].tid = u
                 /\ <<u, obj'[transfers'[u]].sig>> \in Sessions
                 /\ sigIndex'[obj'[transfers'[u]].sig] = u
      <3>1. PICK p : p = transfers[u]
        OBVIOUS
      <3>2. u # f.tid /\ transfers'[u] = p /\ p # NoObj
        BY <1>8, <2>1, <3>1
      <3>3. /\ p \in Obj /\ obj[p] # NoObj /\ obj[p].tid = u /\ sigIndex[obj[p].sig] = u
            /\ <<u, obj[p].sig>> \in Sessions /\ obj[p].sig \in Sig
        BY <3>1, <3>2, TableFacts, ObjectTyped DEF SoundInvariant
      <3>4. CASE p # q
        <4>1. obj[p].sig # f.sig
          BY <1>3, <3>3, <3>4, ObjectsApart DEF SoundInvariant
        <4>. QED
          BY <1>11, <1>14, <3>2, <3>3, <3>4, <4>1
      <3>5. CASE p = q
        <4>1. victim = NoObj
          <5>1. victim = q => obj[q].tid = f.tid
            BY <1>3, <3>2, <3>5, TableFacts DEF SoundInvariant, victim
          <5>. QED
            BY <1>7, <3>2, <3>3, <3>5, <5>1
        <4>. QED
          BY <1>3, <1>10, <1>13, <3>2, <3>3, <3>5, <4>1
      <3>. QED
        BY <3>4, <3>5
    <2>2. \A s \in Sig : sigIndex'[s] # NoTid => <<sigIndex'[s], s>> \in Sessions
      BY <1>15 DEF SoundInvariant, Keyed
    <2>. QED
      BY <2>1, <2>2 DEF Keyed
  <1>20. Registered'
    <2>. SUFFICES ASSUME NEW p \in Obj, obj'[p] # NoObj
                  PROVE  LET z == obj'[p] IN
                         /\ transfers'[z.tid] = p
                         /\ <<z.part, z.sig>> \in Sessions
                         /\ z.got \subseteq Chunks(z.sig)
                         /\ z.finalized => z.got = Chunks(z.sig)
                         /\ ~z.finalized => part'[z.part] # NoInode
                         /\ ~z.finalized /\ z.tid \notin Unprepared' =>
                              /\ DOMAIN file'[part'[z.part]].bytes = Chunks(z.sig)
                              /\ z.map = IF Chunks(z.sig) = {} THEN NoInode ELSE part'[z.part]
                         /\ part'[z.part] # NoInode =>
                              Backs(file'[part'[z.part]].bytes, z.sig, z.got)
      BY DEF Registered
    <2>1. part' = part /\ Unprepared' = Unprepared
      BY <1>2 DEF Unprepared
    <2>2. LET z == obj[p] IN
          /\ <<z.part, z.sig>> \in Sessions
          /\ z.got \subseteq Chunks(z.sig)
          /\ z.finalized => z.got = Chunks(z.sig)
          /\ ~z.finalized => part[z.part] # NoInode
          /\ ~z.finalized /\ z.tid \notin Unprepared =>
               /\ DOMAIN file[part[z.part]].bytes = Chunks(z.sig)
               /\ z.map = IF Chunks(z.sig) = {} THEN NoInode ELSE part[z.part]
          /\ part[z.part] # NoInode => Backs(file[part[z.part]].bytes, z.sig, z.got)
      BY <1>18 DEF SoundInvariant, Registered
    <2>3. obj[p].part \in Tid
      BY <1>18, ObjectTyped DEF SoundInvariant
    <2>4. part[obj[p].part] # NoInode =>
            file'[part[obj[p].part]].bytes = file[part[obj[p].part]].bytes
      BY <1>16, <2>3 DEF SameFiles
    <2>. QED
      BY <1>18, <2>1, <2>2, <2>4
  <1>21. \A p \in Obj : Waiting(p)' => Waiting(p)
    <2>1. \A u \in Thread : fin'[u].pc \in {"hash", "link", "copy", "place"} =>
            fin[u].pc \in {"hash", "link", "copy", "place"} /\ fin'[u].o = fin[u].o
      BY <1>5
    <2>. QED
      BY <1>2, <2>1, WaitingLess
  <1>22. ASSUME NEW p \in Obj, Waiting(p) PROVE p # q
    <2>1. \A k \in 1 .. Len(queue) : queue[k] # q
      BY DEF SoundInvariant, QueuedOnce, q
    <2>2. recv.pc = "put" => recv.o # q
      BY DEF SoundInvariant, QueuedOnce, q
    <2>3. \A u \in Thread : fin[u].pc \notin {"hash", "link", "copy", "place"}
      BY <1>2, <1>6
    <2>. QED
      BY <1>22, <2>1, <2>2, <2>3 DEF Waiting
  <1>23. WaitingWhole'
    <2>1. ASSUME NEW p \in Obj, Waiting(p)'
          PROVE  /\ Waiting(p)
                 /\ obj'[p].sig = obj[p].sig /\ obj'[p].part = obj[p].part
                 /\ obj'[p].finalized <=> obj[p].finalized
                 /\ Kept(obj[p].part)
      <3>1. Waiting(p)
        BY <1>21, <2>1
      <3>2. obj[p] # NoObj /\ obj[p].part \in Tid
        BY <3>1, WaitingExists, ObjectTyped DEF SoundInvariant
      <3>3. obj'[p] = obj[p]
        BY <1>11, <1>22, <3>1
      <3>. QED
        BY <1>17, <3>1, <3>2, <3>3
    <2>. QED
      BY <1>1, <2>1, WaitingFrame DEF SoundInvariant
  <1>24. QueuedOnce'
    BY <1>2, <1>5, QueueFrame DEF SoundInvariant
  <1>25. ReceiveStation'
    <2>1. recv.pc = "full" => recv.o \in Obj /\ recv.o # q
      BY <1>3 DEF SoundInvariant, TypeInvariant, StationsFilled, ReceiveStation
    <2>2. recv.pc = "full" => obj'[recv.o] = obj[recv.o]
      BY <1>11, <2>1
    <2>. QED
      BY <1>2, <2>2 DEF SoundInvariant, ReceiveStation
  <1>26. ReceiveEnded'
    <2>. SUFFICES ASSUME recv.pc = "dead" PROVE ReceiveEnded'
      BY <1>2 DEF ReceiveEnded
    <2>. DEFINE t == recv.tid
    <2>1. PICK p : p = transfers[t]
      OBVIOUS
    <2>2. /\ p # NoObj /\ obj[p].part = t /\ ~obj[p].finalized
          /\ part[t] # NoInode /\ restarts > 0
          /\ ~(Chunks(recv.sig) \subseteq DOMAIN file[part[t]].bytes)
      BY <2>1 DEF SoundInvariant, ReceiveEnded
    <2>3. t \in Tid
      BY DEF SoundInvariant, TypeInvariant, StationsFilled
    <2>4. p \in Obj /\ obj[p] # NoObj /\ obj[p].tid = t /\ p # q
      BY <1>3, <2>1, <2>2, <2>3, TableFacts DEF SoundInvariant
    <2>5. obj'[p] = obj[p] /\ transfers'[t] = p
      BY <1>11, <2>4
    <2>6. file'[part[t]].bytes = file[part[t]].bytes
      BY <1>16, <2>2, <2>3 DEF SameFiles
    <2>. QED
      BY <1>2, <2>2, <2>5, <2>6 DEF ReceiveEnded
  <1>27. OneFinalizer'
    BY <1>2, <1>5, OtherThread DEF SoundInvariant
  <1>28. FinalizerStation' /\ FinalizerEnded'
    <2>1. AtStation(fin[th])' /\ fin'[th].pc # "dead"
      BY <1>3, <1>4, <1>5 DEF AtStation
    <2>2. ASSUME NEW p \in Obj, Abandoned(p) PROVE Abandoned(p)' /\ obj'[p].sig = obj[p].sig
      <3>1. p # q /\ p # NoObj
        BY <2>2, NoneAssumption DEF Abandoned, q
      <3>2. obj'[p] = obj[p]
        BY <1>11, <3>1
      <3>3. \A u \in Thread : fin'[u].o # p
        BY <1>5, <2>2, <3>1 DEF Abandoned
      <3>4. ~Waiting(p)'
        BY <1>21, <2>2 DEF Abandoned
      <3>. QED
        BY <2>2, <3>2, <3>3, <3>4 DEF Abandoned
    <2>3. ASSUME NEW u \in Thread, u # th
          PROVE  AtStation(fin[u])' /\ (fin'[u].pc = "dead" => EndedAt(fin[u])')
      BY <1>2, <1>5, <1>6, <2>2, <2>3, MoveFrame DEF SoundInvariant
    <2>. QED
      BY <2>1, <2>3, FinalizersStep
  <1>29. FilesSound'
    <2>1. \A u \in Tid : Unsized(u) => Unsized(u)'
      <3>1. \A v \in Thread : fin[v].pc # "copy"
        BY <1>2, <1>6
      <3>. QED
        BY <1>2, <3>1 DEF Unsized
    <2>. QED
      BY <1>16, <2>1, FilesFrame DEF SoundInvariant
  <1>30. JournalBacked' /\ JournalKeys'
    BY <1>1, <1>2, <1>19, <1>20, JournalWritten
  <1>31. NoneFailed'
    <2>1. [tid |-> f.tid, sig |-> f.sig, state |-> f.state].state # "HASH_MISMATCH"
      BY <1>4
    <2>. QED
      BY <1>2, <2>1 DEF SoundInvariant, NoneFailed
  <1>. QED
    BY <1>1, <1>19, <1>20, <1>23, <1>24, <1>25, <1>26, <1>27, <1>28, <1>29, <1>30, <1>31
    DEF SoundInvariant

-----------------------------------------------------------------------------
(* Stopping and starting again. *)

\* A process crash leaves the bytes of every file.
LEMMA SurvivingAll ==
  ASSUME TypeOK, NEW i \in Inode, file[i] # Free, NEW lost, lost = {}
  PROVE  Surviving(lost)[i].bytes = file[i].bytes
  <1>1. file[i] \in File
    BY DEF TypeOK
  <1>2. file[i].bytes \in Content
    BY <1>1 DEF File
  <1>3. Surviving(lost)[i].bytes = [c \in DOMAIN file[i].bytes |-> file[i].bytes[c]]
    BY DEF Surviving
  <1>4. CASE file[i].bytes = NoBytes
    BY <1>3, <1>4 DEF NoBytes
  <1>5. CASE \E s \in Sig : file[i].bytes \in [Chunks(s) -> Sig \cup {Hole}]
    BY <1>3, <1>5
  <1>. QED
    BY <1>2, <1>4, <1>5, ContentCases

LEMMA SoundRestart ==
  ASSUME SoundInvariant, OneSigPerTid, ~PowerLoss, Restart
  PROVE  SoundInvariant'
  <1>1. TypeInvariant'
    BY TypedRestart DEF SoundInvariant
  <1>2. PICK lost \in SUBSET (IF PowerLoss THEN Unsynced ELSE {}) :
          LET fl == Surviving(lost)
              good == {r \in journal : Restorable(r, fl)}
          IN  \E own \in [good -> Obj] :
                /\ \A r, q \in good : own[r] = own[q] => r = q
                /\ obj' = [o \in Obj |->
                             IF \E r \in good : own[r] = o
                             THEN Restored(CHOOSE r \in good : own[r] = o)
                             ELSE NoObj]
                /\ transfers' = [t \in Tid |->
                                   IF \E r \in good : r.tid = t
                                   THEN own[CHOOSE r \in good : r.tid = t]
                                   ELSE NoObj]
                /\ sigIndex' = [s \in Sig |->
                                  IF \E r \in good : r.sig = s
                                  THEN (CHOOSE r \in good : r.sig = s).tid
                                  ELSE NoTid]
                /\ file' = Reclaim(fl, Held(part, temp, final, obj'))
    BY DEF Restart
  <1>3. lost = {}
    BY <1>2
  <1>. DEFINE fl == Surviving(lost)
              good == {r \in journal : Restorable(r, fl)}
  <1>4. PICK own \in [good -> Obj] :
          /\ \A r, q \in good : own[r] = own[q] => r = q
          /\ obj' = [o \in Obj |->
                       IF \E r \in good : own[r] = o
                       THEN Restored(CHOOSE r \in good : own[r] = o)
                       ELSE NoObj]
          /\ transfers' = [t \in Tid |->
                             IF \E r \in good : r.tid = t
                             THEN own[CHOOSE r \in good : r.tid = t]
                             ELSE NoObj]
          /\ sigIndex' = [s \in Sig |->
                            IF \E r \in good : r.sig = s
                            THEN (CHOOSE r \in good : r.sig = s).tid
                            ELSE NoTid]
          /\ file' = Reclaim(fl, Held(part, temp, final, obj'))
    BY <1>2
  <1>5. /\ journal' = JournalOf(transfers', obj')
        /\ queue' = <<>> /\ recv' = IdleRecv
        /\ fin' = [th \in Thread |-> IdleFin] /\ completed' = {}
        /\ restarts' = restarts + 1
        /\ UNCHANGED <<part, temp, final>>
    BY DEF Restart
  <1>6. ASSUME NEW r \in good
        PROVE  /\ r \in journal
               /\ r.tid \in Tid /\ r.sig \in Sig /\ r.part \in Tid
               /\ <<r.tid, r.sig>> \in Sessions /\ <<r.part, r.sig>> \in Sessions
               /\ r.got \subseteq Chunks(r.sig)
               /\ part[r.part] # NoInode /\ part[r.part] \in Inode
               /\ DOMAIN fl[part[r.part]].bytes = Chunks(r.sig)
               /\ Backs(file[part[r.part]].bytes, r.sig, r.got)
    <2>1. r \in journal /\ Restorable(r, fl)
      OBVIOUS
    <2>. HIDE DEF fl, good
    <2>2. /\ r.tid \in Tid /\ r.sig \in Sig /\ r.part \in Tid
          /\ <<r.tid, r.sig>> \in Sessions /\ <<r.part, r.sig>> \in Sessions
          /\ r.got \subseteq Chunks(r.sig)
          /\ part[r.part] # NoInode
          /\ Backs(file[part[r.part]].bytes, r.sig, r.got)
      BY <2>1, JournalFacts DEF SoundInvariant
    <2>3. part[r.part] \in Inode
      BY <2>2, PathFacts DEF SoundInvariant
    <2>4. DOMAIN fl[part[r.part]].bytes = Chunks(r.sig)
      BY <2>1 DEF Restorable
    <2>. QED
      BY <2>1, <2>2, <2>3, <2>4
  <1>7. ASSUME NEW r \in good
        PROVE  /\ Restored(r) # NoObj
               /\ Restored(r).tid = r.tid /\ Restored(r).sig = r.sig
               /\ Restored(r).part = r.part /\ Restored(r).got = r.got
               /\ ~Restored(r).finalized
               /\ Restored(r).map = IF Chunks(r.sig) = {} THEN NoInode ELSE part[r.part]
    <2>1. r \in journal /\ Restorable(r, fl)
      OBVIOUS
    <2>. HIDE DEF fl, good
    <2>. QED
      BY <2>1, RestoredTyped DEF SoundInvariant, TypeInvariant
  <1>8. \A r, q \in good : r.tid = q.tid \/ r.sig = q.sig => r = q
    BY <1>6 DEF SoundInvariant, JournalKeys
  <1>9. \A i \in Inode : file[i] # Free => fl[i].bytes = file[i].bytes
    BY <1>3, SurvivingAll DEF SoundInvariant, TypeInvariant
  <1>10. fl \in [Inode -> File \cup {Free}]
    BY SurvivingTyped DEF SoundInvariant, TypeInvariant
  <1>. HIDE DEF fl, good
  <1>11. SameFiles
    <2>1. file' = Reclaim(fl, Held(part', temp', final', obj'))
      BY <1>4, <1>5
    <2>2. /\ \A t \in Tid : part'[t] # NoInode => file'[part'[t]] = fl[part'[t]]
          /\ \A x \in Tid \X Name : temp'[x] # NoInode => file'[temp'[x]] = fl[temp'[x]]
          /\ \A n \in Name : final'[n] # NoInode => file'[final'[n]] = fl[final'[n]]
      BY <1>1, <1>10, <2>1, ReclaimKeeps DEF SoundInvariant, TypeInvariant
    <2>3. /\ \A t \in Tid : part[t] # NoInode => part[t] \in Inode /\ file[part[t]] # Free
          /\ \A x \in Tid \X Name : temp[x] # NoInode => temp[x] \in Inode /\ file[temp[x]] # Free
          /\ \A n \in Name : final[n] # NoInode => final[n] \in Inode /\ file[final[n]] # Free
      BY PathFacts DEF SoundInvariant, TypeInvariant, HeldAllocated
    <2>. QED
      BY <1>5, <1>9, <2>2, <2>3 DEF SameFiles
  <1>12. /\ \A t \in Tid : part[t] # NoInode => file'[part[t]].bytes = file[part[t]].bytes
         /\ part' = part
    BY <1>11 DEF SameFiles
  \* Each record restored is found under its id and its signature.
  <1>13. ASSUME NEW r \in good
         PROVE  /\ transfers'[r.tid] = own[r] /\ sigIndex'[r.sig] = r.tid
                /\ obj'[own[r]] = Restored(r)
    <2>1. (CHOOSE q \in good : q.tid = r.tid) = r
      BY <1>8
    <2>2. (CHOOSE q \in good : q.sig = r.sig) = r
      BY <1>8
    <2>3. (CHOOSE q \in good : own[q] = own[r]) = r
      BY <1>4
    <2>4. transfers'[r.tid] = own[r]
      BY <1>4, <1>6, <2>1
    <2>5. sigIndex'[r.sig] = r.tid
      BY <1>4, <1>6, <2>2
    <2>6. obj'[own[r]] = Restored(r)
      BY <1>4, <2>3
    <2>. QED
      BY <2>4, <2>5, <2>6
  <1>14. ASSUME NEW o \in Obj, obj'[o] # NoObj
         PROVE  \E r \in good : own[r] = o /\ obj'[o] = Restored(r)
    <2>1. \E r \in good : own[r] = o
      BY <1>4, <1>14
    <2>. QED
      BY <1>13, <2>1
  <1>15. ASSUME NEW t \in Tid, transfers'[t] # NoObj
         PROVE  \E r \in good : r.tid = t
    BY <1>4, <1>15
  <1>16. ASSUME NEW s \in Sig, sigIndex'[s] # NoTid
         PROVE  \E r \in good : r.sig = s
    BY <1>4, <1>16
  <1>17. Keyed'
    <2>1. ASSUME NEW t \in Tid, transfers'[t] # NoObj
          PROVE  /\ obj'[transfers'[t]].tid = t
                 /\ <<t, obj'[transfers'[t]].sig>> \in Sessions
                 /\ sigIndex'[obj'[transfers'[t]].sig] = t
      <3>1. PICK r \in good : r.tid = t
        BY <1>15, <2>1
      <3>2. obj'[transfers'[t]] = Restored(r)
        BY <1>13, <3>1
      <3>3. Restored(r).tid = t /\ Restored(r).sig = r.sig /\ sigIndex'[r.sig] = t
        BY <1>7, <1>13, <3>1
      <3>. QED
        BY <1>6, <3>1, <3>2, <3>3
    <2>2. ASSUME NEW s \in Sig, sigIndex'[s] # NoTid
          PROVE  <<sigIndex'[s], s>> \in Sessions
      <3>1. PICK r \in good : r.sig = s
        BY <1>16, <2>2
      <3>. QED
        BY <1>6, <1>13, <3>1
    <2>. QED
      BY <2>1, <2>2 DEF Keyed
  <1>18. Registered'
    <2>. SUFFICES ASSUME NEW q \in Obj, obj'[q] # NoObj
                  PROVE  LET x == obj'[q] IN
                         /\ transfers'[x.tid] = q
                         /\ <<x.part, x.sig>> \in Sessions
                         /\ x.got \subseteq Chunks(x.sig)
                         /\ x.finalized => x.got = Chunks(x.sig)
                         /\ ~x.finalized => part'[x.part] # NoInode
                         /\ ~x.finalized /\ x.tid \notin Unprepared' =>
                              /\ DOMAIN file'[part'[x.part]].bytes = Chunks(x.sig)
                              /\ x.map = IF Chunks(x.sig) = {} THEN NoInode ELSE part'[x.part]
                         /\ part'[x.part] # NoInode => Backs(file'[part'[x.part]].bytes, x.sig, x.got)
      BY DEF Registered
    <2>1. PICK r \in good : own[r] = q /\ obj'[q] = Restored(r)
      BY <1>14
    <2>2. /\ obj'[q].tid = r.tid /\ obj'[q].sig = r.sig
          /\ obj'[q].part = r.part /\ obj'[q].got = r.got
          /\ ~obj'[q].finalized
          /\ obj'[q].map = IF Chunks(r.sig) = {} THEN NoInode ELSE part[r.part]
      BY <1>7, <2>1
    <2>3. transfers'[r.tid] = q
      BY <1>13, <2>1
    <2>4. file'[part[r.part]].bytes = file[part[r.part]].bytes
      BY <1>6, <1>12
    <2>5. DOMAIN file[part[r.part]].bytes = Chunks(r.sig)
      <3>1. part[r.part] \in Inode /\ file[part[r.part]] # Free
        BY <1>6, PathFacts DEF SoundInvariant, TypeInvariant, HeldAllocated
      <3>. QED
        BY <1>6, <1>9, <3>1
    <2>. QED
      BY <1>6, <1>12, <2>2, <2>3, <2>4, <2>5
  <1>19. WaitingWhole' /\ QueuedOnce' /\ NoneFailed' /\ OneFinalizer'
    <2>1. Len(queue') = 0
      BY <1>5
    <2>. QED
      BY <1>5, <2>1 DEF WaitingWhole, Waiting, QueuedOnce, NoneFailed, OneFinalizer,
                        IdleRecv, IdleFin, Thread
  <1>20. ReceiveStation' /\ ReceiveEnded'
    BY <1>5, RecvOutside DEF IdleRecv
  <1>21. FinalizerStation' /\ FinalizerEnded'
    BY <1>5 DEF FinalizerStation, AtStation, FinalizerEnded, IdleFin
  <1>22. FilesSound'
    <2>1. restarts' > 0
      BY <1>5, ConfigAssumption DEF SoundInvariant, TypeInvariant, TypeOK
    <2>2. \A t \in Tid : Unsized(t)'
      BY <2>1 DEF Unsized
    <2>. QED
      BY <1>11, <2>2, FilesFrame DEF SoundInvariant
  <1>23. JournalBacked' /\ JournalKeys'
    BY <1>1, <1>5, <1>17, <1>18, JournalWritten
  <1>. QED
    BY <1>1, <1>17, <1>18, <1>19, <1>20, <1>21, <1>22, <1>23 DEF SoundInvariant

-----------------------------------------------------------------------------
LEMMA SoundInit ==
  ASSUME Init
  PROVE  SoundInvariant
  <1>1. TypeInvariant
    BY TypedInit
  <1>2. Len(queue) = 0
    BY DEF Init
  <1>3. Keyed /\ Registered /\ WaitingWhole /\ QueuedOnce /\ NoneFailed /\ OneFinalizer
    BY <1>2 DEF Init, Keyed, Registered, WaitingWhole, Waiting, QueuedOnce, NoneFailed,
                OneFinalizer, IdleRecv, IdleFin, Thread
  <1>4. ReceiveStation /\ ReceiveEnded /\ FinalizerStation /\ FinalizerEnded
    BY DEF Init, ReceiveStation, ReceiveEnded, FinalizerStation, AtStation, FinalizerEnded,
           IdleRecv, IdleFin
  <1>5. FilesSound /\ JournalBacked /\ JournalKeys
    BY DEF Init, FilesSound, PartsSound, LinksNamed, FinalWhole, JournalBacked, JournalKeys
  <1>. QED
    BY <1>1, <1>3, <1>4, <1>5 DEF SoundInvariant

LEMMA SoundStutter ==
  ASSUME SoundInvariant, UNCHANGED vars
  PROVE  SoundInvariant'
  <1>1. TypeInvariant'
    BY TypedStep DEF SoundInvariant
  <1>2. UNCHANGED <<transfers, sigIndex, obj, queue, recv, fin, completed, journal,
                    part, temp, final, file, restarts>>
    BY DEF vars
  <1>3. \A t \in Tid : Unsized(t) => Unsized(t)'
    BY <1>2 DEF Unsized
  <1>4. Keyed' /\ Registered' /\ FilesSound' /\ JournalBacked' /\ JournalKeys' /\ NoneFailed'
    BY <1>2, <1>3, Untouched, UnchangedObjects, UnchangedFiles DEF Unprepared
  <1>5. WaitingWhole' /\ QueuedOnce' /\ OneFinalizer'
    BY <1>2 DEF SoundInvariant, WaitingWhole, Waiting, QueuedOnce, OneFinalizer
  <1>6. ReceiveStation' /\ ReceiveEnded'
    BY <1>2 DEF SoundInvariant, ReceiveStation, ReceiveEnded, ResumableId
  <1>7. FinalizerStation' /\ FinalizerEnded'
    BY <1>2 DEF SoundInvariant, FinalizerStation, AtStation, FinalizerEnded, EndedAt, Abandoned,
                Waiting
  <1>. QED
    BY <1>1, <1>4, <1>5, <1>6, <1>7 DEF SoundInvariant

LEMMA SoundStep ==
  ASSUME SoundInvariant, OneSigPerTid, ~PowerLoss, [Next]_vars
  PROVE  SoundInvariant'
  <1>1. CASE ReceiveThread
    <2>1. \A x \in Sessions : x[1] \in Tid /\ x[2] \in Sig /\ <<x[1], x[2]>> \in Sessions
      BY ManifestAssumption
    <2>2. CASE \E x \in Sessions : MetadataOfPresentFile(x[1], x[2])
      BY <2>1, <2>2, SoundPresent
    <2>3. CASE \E x \in Sessions : MetadataOfOtherFile(x[1], x[2])
      BY <2>1, <2>3, SoundOther
    <2>4. CASE \E x \in Sessions : \E c \in Chunks(x[2]) : Data(x[1], c, x[2])
      BY <2>1, <2>4, SoundData
    <2>5. CASE \E t \in Tid : DataWithoutFile(t) \/ Beacon(t) \/ StaleComplete(t)
      BY <2>5, SoundDataWithoutFile, SoundBeacon, SoundStale
    <2>. QED
      BY <1>1, <2>2, <2>3, <2>4, <2>5, SoundAnswer, SoundKnown, SoundResume, SoundOpen,
         SoundTruncate, SoundCreate, SoundMark, SoundPut
      DEF ReceiveThread
  <1>2. CASE TakeFinalization
    BY <1>2, SoundTake
  <1>3. CASE \E th \in Thread : Finalize(th)
    BY <1>3, SoundMissing, SoundHash, SoundLink, SoundLinkToItself, SoundOpenCopy, SoundCopy,
       SoundPlace, SoundUtime, SoundUnlink, SoundFinish, SoundReport
    DEF Finalize
  <1>4. CASE Maintenance
    BY <1>4, SoundFlushJournal, SoundFlushMmap DEF Maintenance
  <1>5. CASE Restart
    BY <1>5, SoundRestart
  <1>6. CASE UNCHANGED vars
    BY <1>6, SoundStutter
  <1>. QED
    BY <1>1, <1>2, <1>3, <1>4, <1>5, <1>6 DEF Next

\* With one version per id, and stops that lose no page, the whole receiver
\* stays consistent: tables, index, queue, files and journal.
THEOREM Sound ==
  ASSUME OneSigPerTid, ~PowerLoss
  PROVE  Spec => []SoundInvariant
  <1>1. Init => SoundInvariant
    BY SoundInit
  <1>2. SoundInvariant /\ [Next]_vars => SoundInvariant'
    BY SoundStep
  <1>. QED
    BY <1>1, <1>2, PTL DEF Spec

LEMMA SoundImplies ==
  ASSUME SoundInvariant
  PROVE  IndexExact /\ JournalSound /\ NoFalseMismatch /\ FinalWhole /\ ThreadsAlive
  <1>1. IndexExact
    BY DEF SoundInvariant, Keyed, IndexExact
  <1>2. JournalSound
    BY DEF SoundInvariant, JournalBacked, JournalSound, Backs
  <1>3. NoFalseMismatch
    BY DEF SoundInvariant, NoneFailed, FinalizerStation, AtStation, NoFalseMismatch
  <1>4. FinalWhole
    BY DEF SoundInvariant, FilesSound
  <1>5. ThreadsAlive
    BY DEF SoundInvariant, ReceiveEnded, FinalizerEnded, EndedAt, ThreadsAlive
  <1>. QED
    BY <1>1, <1>2, <1>3, <1>4, <1>5

\* The signature index always leads to the one transfer of a version, whatever
\* METADATA, finalization and restart do to the table in between.
THEOREM IndexAlwaysExact ==
  ASSUME OneSigPerTid, ~PowerLoss
  PROVE  Spec => []IndexExact
  <1>1. SoundInvariant => IndexExact
    BY SoundImplies
  <1>. QED
    BY <1>1, Sound, PTL

\* Every chunk the journal on disk promises is in the part file it names, so a
\* restart never counts a chunk it does not have.
THEOREM JournalAlwaysSound ==
  ASSUME OneSigPerTid, ~PowerLoss
  PROVE  Spec => []JournalSound
  <1>1. SoundInvariant => JournalSound
    BY SoundImplies
  <1>. QED
    BY <1>1, Sound, PTL

\* Genuine frames never end in HASH_MISMATCH, however they are repeated, mixed
\* with resumes and restarts, or reordered.
THEOREM MismatchNeverFalse ==
  ASSUME OneSigPerTid, ~PowerLoss
  PROVE  Spec => []NoFalseMismatch
  <1>1. SoundInvariant => NoFalseMismatch
    BY SoundImplies
  <1>. QED
    BY <1>1, Sound, PTL

\* A destination file is always one whole version of its name, unless part files
\* are kept and a leftover temporary name is a link to it.
THEOREM FinalAlwaysWhole ==
  ASSUME OneSigPerTid, ~PowerLoss
  PROVE  Spec => []FinalWhole
  <1>1. SoundInvariant => FinalWhole
    BY SoundImplies
  <1>. QED
    BY <1>1, Sound, PTL

\* The receive thread ends only at a part file that a stop kept from being given
\* its size, a finalizing thread only at a temporary name that is a link to its own
\* part file: without a stop, and without --keep-part-files, neither ends.
THEOREM ThreadsStayAlive ==
  ASSUME OneSigPerTid, ~PowerLoss
  PROVE  Spec => []ThreadsAlive
  <1>1. SoundInvariant => ThreadsAlive
    BY SoundImplies
  <1>. QED
    BY <1>1, Sound, PTL
=============================================================================
