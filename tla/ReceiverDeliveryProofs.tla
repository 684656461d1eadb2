------------------------ MODULE ReceiverDeliveryProofs ------------------------
(***************************************************************************)
(* What the journal, a restart and the readers of the output directory can *)
(* count on: the journal is the transfer table whenever it is clean, a     *)
(* restart brings back exactly what was being received, nobody forgets a   *)
(* finalized transfer, and Receiver implements Delivery.                   *)
(***************************************************************************)
EXTENDS ReceiverSafetyProofs

-----------------------------------------------------------------------------
(* The journal. *)

\* What the journal is to keep of transfer x under id t.
Entry(t, x) == [tid |-> t, sig |-> x.sig, part |-> x.part, got |-> x.got]

LEMMA EssenceOfTable ==
  ASSUME NEW tr, NEW ob, NEW except
  PROVE  Essences(JournalOf(tr, ob), except) =
           {Entry(t, ob[tr[t]]) :
              t \in {u \in Tid : u \notin except /\ tr[u] # NoObj /\ ~ob[tr[u]].finalized}}
  <1>. DEFINE J == JournalOf(tr, ob)
              R(t) == [tid |-> t, sig |-> ob[tr[t]].sig, part |-> ob[tr[t]].part,
                       addr |-> ob[tr[t]].addr, got |-> ob[tr[t]].got]
              T == {u \in Tid : tr[u] # NoObj /\ ~ob[tr[u]].finalized}
  <1>1. J = {R(t) : t \in T}
    BY DEF JournalOf
  <1>2. \A t : Essence(R(t)) = Entry(t, ob[tr[t]]) /\ R(t).tid = t
    BY DEF Essence, Entry
  <1>. HIDE DEF J, R
  <1>3. ASSUME NEW r \in J, r.tid \notin except
        PROVE  \E t \in T : t \notin except /\ Essence(r) = Entry(t, ob[tr[t]])
    <2>1. PICK t \in T : r = R(t)
      BY <1>1
    <2>. QED
      BY <1>2, <1>3, <2>1
  <1>4. ASSUME NEW t \in T, t \notin except
        PROVE  \E r \in J : r.tid \notin except /\ Essence(r) = Entry(t, ob[tr[t]])
    <2>1. R(t) \in J
      BY <1>1
    <2>. QED
      BY <1>2, <1>4, <2>1
  <1>. DEFINE E == {Entry(t, ob[tr[t]]) :
                      t \in {u \in Tid : u \notin except /\ tr[u] # NoObj /\ ~ob[tr[u]].finalized}}
  <1>5. ASSUME NEW e \in E PROVE e \in Essences(J, except)
    <2>1. PICK t \in T : t \notin except /\ e = Entry(t, ob[tr[t]])
      OBVIOUS
    <2>2. PICK r \in J : r.tid \notin except /\ Essence(r) = Entry(t, ob[tr[t]])
      BY <1>4, <2>1
    <2>. QED
      BY <2>1, <2>2 DEF Essences
  <1>6. ASSUME NEW e \in Essences(J, except) PROVE e \in E
    <2>1. PICK r \in J : r.tid \notin except /\ e = Essence(r)
      BY DEF Essences
    <2>2. PICK t \in T : t \notin except /\ Essence(r) = Entry(t, ob[tr[t]])
      BY <1>3, <2>1
    <2>. QED
      BY <2>1, <2>2
  <1>7. Essences(J, except) = E
    <2>. HIDE DEF E
    <2>. QED
      BY <1>5, <1>6
  <1>. QED
    BY <1>7 DEF J

LEMMA EssenceLess ==
  ASSUME NEW js, NEW U, NEW V, U \subseteq V
  PROVE  Essences(js, V) = {e \in Essences(js, U) : e.tid \notin V}
  <1>1. \A r : Essence(r).tid = r.tid
    BY DEF Essence
  <1>. QED
    BY <1>1 DEF Essences

\* The ids, versions, part files and chunks of the table, and nothing else, are
\* what the journal is compared with.
LEMMA FreshKept ==
  ASSUME JournalFresh, UNCHANGED <<journal, journalDirty>>,
         Unprepared \subseteq Unprepared',
         \A t \in Tid : t \notin Unprepared' =>
           /\ transfers'[t] = transfers[t]
           /\ transfers[t] # NoObj =>
                LET x == obj[transfers[t]]  y == obj'[transfers[t]] IN
                /\ y.finalized <=> x.finalized
                /\ y.sig = x.sig /\ y.part = x.part /\ y.got = x.got
  PROVE  JournalFresh'
  <1>. SUFFICES ASSUME ~journalDirty'
                PROVE  Essences(journal', Unprepared')
                         = Essences(JournalOf(transfers', obj'), Unprepared')
    BY DEF JournalFresh
  <1>1. Essences(journal, Unprepared) = Essences(JournalOf(transfers, obj), Unprepared)
    BY DEF JournalFresh
  <1>2. Essences(journal, Unprepared') = Essences(JournalOf(transfers, obj), Unprepared')
    <2>1. \A js : Essences(js, Unprepared') = {e \in Essences(js, Unprepared) : e.tid \notin Unprepared'}
      <3>. TAKE js
      <3>. QED
        BY EssenceLess
    <2>. QED
      BY <1>1, <2>1
  <1>. DEFINE A == {u \in Tid : u \notin Unprepared' /\ transfers[u] # NoObj
                                  /\ ~obj[transfers[u]].finalized}
              B == {u \in Tid : u \notin Unprepared' /\ transfers'[u] # NoObj
                                  /\ ~obj'[transfers'[u]].finalized}
  <1>3. A = B
    OBVIOUS
  <1>4. \A t \in A : Entry(t, obj[transfers[t]]) = Entry(t, obj'[transfers'[t]])
    BY DEF Entry
  <1>5. /\ Essences(JournalOf(transfers, obj), Unprepared') = {Entry(t, obj[transfers[t]]) : t \in A}
        /\ Essences(JournalOf(transfers', obj'), Unprepared')
             = {Entry(t, obj'[transfers'[t]]) : t \in B}
    BY EssenceOfTable
  <1>. HIDE DEF A, B
  <1>6. {Entry(t, obj[transfers[t]]) : t \in A} = {Entry(t, obj'[transfers'[t]]) : t \in B}
    BY <1>3, <1>4
  <1>. QED
    BY <1>2, <1>5, <1>6

\* A handler is left to itself until it ends.
LEMMA UnpreparedStays ==
  ASSUME recv' = recv \/ recv.pc # "dead"
  PROVE  Unprepared \subseteq Unprepared'
  BY DEF Unprepared

\* An object that changes in none of the fields the journal keeps.
LEMMA FreshField ==
  ASSUME TypeInvariant, JournalFresh, UNCHANGED <<transfers, journal, journalDirty>>,
         Unprepared \subseteq Unprepared',
         NEW o \in Obj, obj[o] # NoObj, NEW y, obj' = [obj EXCEPT ![o] = y],
         y.finalized <=> obj[o].finalized,
         y.sig = obj[o].sig, y.part = obj[o].part, y.got = obj[o].got
  PROVE  JournalFresh'
  <1>1. \A q \in Obj : obj'[q] = IF q = o THEN y ELSE obj[q]
    BY DEF TypeInvariant, TypeOK
  <1>2. \A t \in Tid : transfers[t] \in Obj \cup {NoObj}
    BY DEF TypeInvariant, TypeOK
  <1>. QED
    BY <1>1, <1>2, FreshKept

LEMMA FreshData ==
  ASSUME TypeInvariant, JournalFresh, NEW t \in Tid, NEW v, NEW c, Data(t, c, v)
  PROVE  JournalFresh'
  <1>. DEFINE o == transfers[t]
              x == obj[o]
              i == Target(x)
              lost == IF x.map # NoInode /\ file[i].bytes[c] = Hole THEN {c} ELSE {}
              got == x.got \cup {c}
              w == x.unsynced \cup lost
              y == [x EXCEPT !.got = got, !.unsynced = w]
  <1>1. /\ o # NoObj /\ recv.pc = "idle" /\ UNCHANGED <<transfers, journal>>
        /\ journalDirty' = (journalDirty \/ c \notin x.got)
        /\ obj' = [obj EXCEPT ![o] = y]
    BY DEF Data, RecvReady
  <1>2. o \in Obj /\ x \in TransferRec /\ x # NoObj
    BY <1>1, NoneAssumption DEF TypeInvariant, TypeOK, ReferencesAllocated
  <1>3. CASE c \notin x.got
    BY <1>1, <1>3 DEF JournalFresh
  <1>4. CASE c \in x.got
    <2>1. got = x.got
      BY <1>4
    <2>. HIDE DEF got, w
    <2>2. y.finalized = x.finalized /\ y.sig = x.sig /\ y.part = x.part /\ y.got = x.got
      BY <1>2, <2>1 DEF TransferRec
    <2>. HIDE DEF y
    <2>3. journalDirty' = journalDirty
      BY <1>1, <1>4 DEF TypeInvariant, TypeOK
    <2>4. Unprepared \subseteq Unprepared'
      BY <1>1, UnpreparedStays
    <2>. HIDE DEF x, o
    <2>. QED
      BY <1>1, <1>2, <2>2, <2>3, <2>4, FreshField DEF x, o
  <1>. QED
    BY <1>3, <1>4

\* A preparation that fails leaves a transfer in the table of which the journal
\* does not know, and ends the receive thread.
LEMMA FreshCreate ==
  ASSUME TypeInvariant, JournalFresh, PrepareCreate
  PROVE  JournalFresh'
  <1>. DEFINE t == recv.tid
              s == recv.sig
              fits == part[t] = NoInode \/ Chunks(s) \subseteq DOMAIN file[part[t]].bytes
  <1>1. PICK o \in {x \in Obj : obj[x] = NoObj} :
          /\ transfers' = [transfers EXCEPT ![t] = o]
          /\ \E y : obj' = [obj EXCEPT ![o] = y]
    BY DEF PrepareCreate
  <1>2. /\ recv.pc = "map" /\ journal' = journal
        /\ journalDirty' = (journalDirty \/ fits)
        /\ ~fits => recv' = [recv EXCEPT !.pc = "dead"]
    <2>1. recv.pc = "map" /\ journal' = journal /\ journalDirty' = (journalDirty \/ fits)
      BY DEF PrepareCreate, disk
    <2>2. \E k : recv' = CASE ~fits -> [recv EXCEPT !.pc = "dead"]
                          [] fits /\ Chunks(s) = {} -> [IdleRecv EXCEPT !.pc = "full", !.o = k]
                          [] fits /\ Chunks(s) # {} -> IdleRecv
      BY DEF PrepareCreate
    <2>. HIDE DEF fits
    <2>. QED
      BY <2>1, <2>2
  <1>3. CASE fits
    BY <1>2, <1>3 DEF JournalFresh
  <1>4. CASE ~fits
    <2>1. recv'.pc = "dead" /\ recv'.tid = t
      BY <1>2, <1>4 DEF TypeInvariant, TypeOK, RecvRec
    <2>2. Unprepared' = {t} /\ Unprepared = {}
      BY <1>2, <2>1 DEF Unprepared
    <2>3. journalDirty' = journalDirty
      BY <1>2, <1>4 DEF TypeInvariant, TypeOK
    <2>4. /\ transfers \in [Tid -> Obj \cup {NoObj}] /\ obj \in [Obj -> TransferRec \cup {NoObj}]
          /\ \A u \in Tid : transfers[u] # NoObj => obj[transfers[u]] # NoObj
      BY DEF TypeInvariant, TypeOK, ReferencesAllocated
    <2>5. ASSUME NEW u \in Tid, u # t
          PROVE  /\ transfers'[u] = transfers[u]
                 /\ transfers[u] # NoObj => obj'[transfers[u]] = obj[transfers[u]]
      BY <1>1, <2>4, <2>5
    <2>. QED
      BY <1>2, <2>2, <2>3, <2>5, FreshKept
  <1>. QED
    BY <1>3, <1>4

\* A finalizing thread that ends takes with it only what nobody refers to.
LEMMA FreshEnded ==
  ASSUME TypeInvariant, JournalFresh, obj' = Referenced(obj, transfers, fin'),
         UNCHANGED <<transfers, recv, journal, journalDirty>>
  PROVE  JournalFresh'
  <1>1. \A t \in Tid : transfers[t] \in Obj \cup {NoObj}
    BY DEF TypeInvariant, TypeOK
  <1>2. \A u \in Tid : transfers[u] # NoObj => obj'[transfers[u]] = obj[transfers[u]]
    BY <1>1 DEF Referenced
  <1>. QED
    BY <1>2, UnpreparedStays, FreshKept

LEMMA FreshStep ==
  ASSUME JournalInvariant, [Next]_vars
  PROVE  JournalFresh'
  <1>. USE DEF JournalInvariant
  <1>1. ASSUME journal' = JournalOf(transfers', obj') \/ journalDirty'
        PROVE  JournalFresh'
    BY <1>1 DEF JournalFresh
  <1>2. ASSUME UNCHANGED <<transfers, obj, journal, journalDirty>>, recv' = recv \/ recv.pc # "dead"
        PROVE  JournalFresh'
    BY <1>2, UnpreparedStays, FreshKept
  <1>3. ASSUME NEW x \in Sessions, NEW c \in Chunks(x[2]), Data(x[1], c, x[2])
        PROVE  JournalFresh'
    BY <1>3, FreshData, ManifestAssumption
  <1>4. ASSUME NEW t \in Tid, transfers[t] # NoObj
        PROVE  transfers[t] \in Obj /\ obj[transfers[t]] \in TransferRec /\ obj[transfers[t]] # NoObj
    BY <1>4, NoneAssumption DEF TypeInvariant, TypeOK, ReferencesAllocated
  <1>5. ASSUME NEW t \in Tid, FlushMmap(t)
        PROVE  JournalFresh'
    <2>. DEFINE o == transfers[t]
                y == [obj[o] EXCEPT !.unsynced = {}]
    <2>1. /\ o # NoObj /\ obj' = [obj EXCEPT ![o] = y]
          /\ UNCHANGED <<transfers, journal, journalDirty, recv>>
      BY <1>5 DEF FlushMmap, disk
    <2>2. o \in Obj /\ obj[o] \in TransferRec /\ obj[o] # NoObj
      BY <1>4, <2>1
    <2>3. /\ y.finalized = obj[o].finalized /\ y.sig = obj[o].sig /\ y.part = obj[o].part
          /\ y.got = obj[o].got
      BY <2>2 DEF TransferRec
    <2>. HIDE DEF y
    <2>4. Unprepared \subseteq Unprepared'
      BY <2>1, UnpreparedStays
    <2>. QED
      BY <2>1, <2>2, <2>3, <2>4, FreshField
  <1>6. CASE PrepareKnown
    <2>. DEFINE o == transfers[recv.tid]
    <2>1. /\ recv.pc = "prepare" /\ o # NoObj
          /\ UNCHANGED <<transfers, journal, journalDirty>>
          /\ \/ obj' = obj
             \/ \E a \in Addr : obj' = [obj EXCEPT ![o].addr = a]
      BY <1>6 DEF PrepareKnown, disk
    <2>2. recv.tid \in Tid
      BY <2>1 DEF TypeInvariant, StationsFilled
    <2>3. o \in Obj /\ obj[o] \in TransferRec /\ obj[o] # NoObj
      BY <1>4, <2>1, <2>2
    <2>4. CASE obj' = obj
      BY <1>2, <2>1, <2>4
    <2>5. CASE \E a \in Addr : obj' = [obj EXCEPT ![o].addr = a]
      <3>1. PICK a \in Addr : obj' = [obj EXCEPT ![o].addr = a]
        BY <2>5
      <3>. DEFINE y == [obj[o] EXCEPT !.addr = a]
      <3>2. /\ y.finalized = obj[o].finalized /\ y.sig = obj[o].sig /\ y.part = obj[o].part
            /\ y.got = obj[o].got
        BY <2>3 DEF TransferRec
      <3>3. obj' = [obj EXCEPT ![o] = y]
        BY <3>1
      <3>. HIDE DEF y
      <3>4. Unprepared \subseteq Unprepared'
        BY <2>1, UnpreparedStays
      <3>. QED
        BY <2>1, <2>3, <3>2, <3>3, <3>4, FreshField
    <2>. QED
      BY <2>1, <2>4, <2>5
  <1>7. CASE PrepareResume \/ \E t \in Tid : Beacon(t)
    BY <1>1, <1>7 DEF PrepareResume, Beacon
  <1>8. CASE PrepareCreate
    BY <1>8, FreshCreate
  <1>9. CASE MarkFinalized
    <2>1. /\ recv.pc = "full" /\ transfers' = transfers
          /\ \/ UNCHANGED <<obj, journal, journalDirty>>
             \/ journal' = JournalOf(transfers, obj')
      BY <1>9 DEF MarkFinalized
    <2>. QED
      BY <1>1, <1>2, <2>1
  <1>10. CASE FlushJournal \/ Restart
    BY <1>1, <1>10 DEF FlushJournal, Restart
  <1>11. ASSUME NEW th \in Thread, Finish(th)
         PROVE  JournalFresh'
    <2>1. journal' = JournalOf(transfers', obj')
      BY <1>11 DEF Finish
    <2>. QED
      BY <1>1, <2>1
  <1>12. ASSUME NEW th \in Thread, PartMissing(th) \/ LinkToItself(th)
         PROVE  JournalFresh'
    BY <1>12, FreshEnded DEF PartMissing, LinkToItself, disk
  <1>13. ASSUME NEW th \in Thread, Hash(th) \/ Link(th) \/ OpenCopy(th) \/ Copy(th)
         PROVE  JournalFresh'
    BY <1>2, <1>13 DEF Hash, Link, OpenCopy, Copy, disk
  <1>14. ASSUME NEW th \in Thread, Place(th) \/ Utime(th) \/ Unlink(th) \/ Report(th)
         PROVE  JournalFresh'
    BY <1>2, <1>14 DEF Place, Utime, Unlink, Report, disk
  <1>15. ASSUME NEW x \in Sessions,
                MetadataOfPresentFile(x[1], x[2]) \/ MetadataOfOtherFile(x[1], x[2])
         PROVE  JournalFresh'
    BY <1>2, <1>15 DEF MetadataOfPresentFile, MetadataOfOtherFile, RecvReady, disk
  <1>16. ASSUME AnswerComplete \/ OpenPart \/ TruncatePart \/ PutFinalization \/ TakeFinalization
         PROVE  JournalFresh'
    BY <1>2, <1>16
    DEF AnswerComplete, OpenPart, TruncatePart, PutFinalization, TakeFinalization, disk
  <1>17. ASSUME NEW t \in Tid, DataWithoutFile(t) \/ StaleComplete(t)
         PROVE  JournalFresh'
    BY <1>2, <1>17 DEF DataWithoutFile, StaleComplete, RecvReady, disk
  <1>18. CASE UNCHANGED vars
    BY <1>2, <1>18 DEF vars
  <1>. QED
    BY <1>3, <1>5, <1>6, <1>7, <1>8, <1>9, <1>10, <1>11, <1>12, <1>13, <1>14, <1>15, <1>16,
       <1>17, <1>18
    DEF Next, ReceiveThread, Finalize, Maintenance

LEMMA FreshInit == Init => JournalInvariant
  <1>. SUFFICES ASSUME Init PROVE JournalInvariant
    OBVIOUS
  <1>1. TypeInvariant
    BY TypedInit
  <1>2. JournalOf(transfers, obj) = {} /\ journal = {}
    BY DEF Init, JournalOf
  <1>. QED
    BY <1>1, <1>2 DEF JournalInvariant, JournalFresh

LEMMA JournalStep ==
  ASSUME JournalInvariant, [Next]_vars
  PROVE  JournalInvariant'
  BY TypedStep, FreshStep DEF JournalInvariant

\* Whenever the dirty flag is clear the journal on disk names the transfers of the
\* table with their part files and chunks: no handler that changes one of these
\* forgets _mark_journal_dirty_locked or _write_journal_locked, and no flush clears
\* the flag for a table it did not write, whatever a power loss takes of the files
\* and whatever the senders do.  The exception, Unprepared, is the id at which the
\* receive thread ended between the two.
THEOREM JournalAlwaysFresh == Spec => []JournalFresh
  <1>1. Init => JournalInvariant
    BY FreshInit
  <1>2. JournalInvariant /\ [Next]_vars => JournalInvariant'
    BY JournalStep
  <1>3. JournalInvariant => JournalFresh
    BY DEF JournalInvariant
  <1>. QED
    BY <1>1, <1>2, <1>3, PTL DEF Spec

-----------------------------------------------------------------------------
(* Restart. *)

\* A power loss or a crash leaves the size of a file.
LEMMA SurvivingSize ==
  ASSUME NEW i \in Inode, file[i] # Free, NEW lost
  PROVE  DOMAIN Surviving(lost)[i].bytes = DOMAIN file[i].bytes
  BY DEF Surviving

\* A transfer still being received has its record in a current journal, and a
\* part file of the right size.
LEMMA RecordThere ==
  ASSUME SoundInvariant, JournalFresh, ~journalDirty, NEW t \in Tid,
         transfers[t] # NoObj, ~obj[transfers[t]].finalized, t \notin Unprepared
  PROVE  LET x == obj[transfers[t]] IN
         \E r \in journal :
           /\ r.tid = t /\ r.sig = x.sig /\ r.part = x.part /\ r.got = x.got
           /\ part[r.part] \in Inode
           /\ part[r.part] # NoInode /\ file[part[r.part]] # Free
           /\ DOMAIN file[part[r.part]].bytes = Chunks(r.sig)
  <1>. DEFINE x == obj[transfers[t]]
  <1>1. transfers[t] \in Obj /\ x # NoObj /\ x.tid = t
    BY TableFacts DEF SoundInvariant
  <1>2. x.sig \in Sig /\ x.part \in Tid
    BY <1>1, ObjectFacts DEF SoundInvariant
  <1>3. part[x.part] # NoInode /\ DOMAIN file[part[x.part]].bytes = Chunks(x.sig)
    BY <1>1 DEF SoundInvariant, Registered
  <1>4. part[x.part] \in Inode /\ file[part[x.part]] # Free
    BY <1>2, <1>3, PathFacts DEF SoundInvariant, TypeInvariant, HeldAllocated
  <1>5. Entry(t, x) \in Essences(JournalOf(transfers, obj), Unprepared)
    BY EssenceOfTable
  <1>6. PICK r \in journal : Essence(r) = Entry(t, x)
    BY <1>5 DEF JournalFresh, Essences
  <1>7. r.tid = t /\ r.sig = x.sig /\ r.part = x.part /\ r.got = x.got
    BY <1>6 DEF Essence, Entry
  <1>. QED
    BY <1>3, <1>4, <1>7

\* What a restart makes of a record it accepts.
LEMMA RecordRestored ==
  ASSUME SoundInvariant, Restart, NEW r \in journal, r.tid \in Tid,
         part[r.part] # NoInode, part[r.part] \in Inode, file[part[r.part]] # Free,
         DOMAIN file[part[r.part]].bytes = Chunks(r.sig)
  PROVE  /\ transfers'[r.tid] \in Obj /\ transfers'[r.tid] # NoObj
         /\ obj'[transfers'[r.tid]] = Restored(r)
         /\ Restored(r).sig = r.sig /\ Restored(r).part = r.part /\ Restored(r).got = r.got
  <1>1. PICK lost \in SUBSET (IF PowerLoss THEN Unsynced ELSE {}) :
          LET fl == Surviving(lost)
              good == {q \in journal : Restorable(q, fl)}
          IN  \E own \in [good -> Obj] :
                /\ \A p, q \in good : own[p] = own[q] => p = q
                /\ obj' = [o \in Obj |->
                             IF \E q \in good : own[q] = o
                             THEN Restored(CHOOSE q \in good : own[q] = o)
                             ELSE NoObj]
                /\ transfers' = [t \in Tid |->
                                   IF \E q \in good : q.tid = t
                                   THEN own[CHOOSE q \in good : q.tid = t]
                                   ELSE NoObj]
                /\ sigIndex' = [s \in Sig |->
                                  IF \E q \in good : q.sig = s
                                  THEN (CHOOSE q \in good : q.sig = s).tid
                                  ELSE NoTid]
                /\ file' = Reclaim(fl, Held(part, temp, final, obj'))
    BY DEF Restart
  <1>. DEFINE fl == Surviving(lost)
              good == {q \in journal : Restorable(q, fl)}
  <1>2. PICK own \in [good -> Obj] :
          /\ \A p, q \in good : own[p] = own[q] => p = q
          /\ obj' = [o \in Obj |->
                       IF \E q \in good : own[q] = o
                       THEN Restored(CHOOSE q \in good : own[q] = o)
                       ELSE NoObj]
          /\ transfers' = [t \in Tid |->
                             IF \E q \in good : q.tid = t
                             THEN own[CHOOSE q \in good : q.tid = t]
                             ELSE NoObj]
    BY <1>1
  <1>3. DOMAIN fl[part[r.part]].bytes = Chunks(r.sig)
    BY SurvivingSize
  <1>4. Restorable(r, fl) /\ r \in good
    BY <1>3 DEF Restorable
  <1>5. /\ Restored(r).sig = r.sig /\ Restored(r).part = r.part /\ Restored(r).got = r.got
    BY <1>4, RestoredTyped DEF SoundInvariant, TypeInvariant
  <1>6. \A p, q \in good : p.tid = q.tid => p = q
    BY DEF SoundInvariant, JournalKeys
  <1>. HIDE DEF good
  <1>7. (CHOOSE q \in good : q.tid = r.tid) = r /\ (CHOOSE q \in good : own[q] = own[r]) = r
    BY <1>2, <1>4, <1>6
  <1>8. own[r] \in Obj /\ own[r] # NoObj
    BY <1>2, <1>4, NoneAssumption
  <1>. QED
    BY <1>2, <1>4, <1>5, <1>7, <1>8

LEMMA OnlyRestart ==
  ASSUME [Next]_vars, restarts' # restarts
  PROVE  Restart
  <1>1. ReceiveThread => UNCHANGED restarts
    BY DEF ReceiveThread, MetadataOfPresentFile, AnswerComplete, MetadataOfOtherFile, Data,
       PrepareKnown, PrepareResume, OpenPart, TruncatePart, PrepareCreate, DataWithoutFile, Beacon,
       StaleComplete, MarkFinalized, PutFinalization
  <1>2. ASSUME NEW th \in Thread, Finalize(th) PROVE UNCHANGED restarts
    BY <1>2 DEF Finalize, PartMissing, Hash, Link, LinkToItself, OpenCopy, Copy, Place, Utime,
       Unlink, Finish, Report
  <1>3. TakeFinalization \/ Maintenance \/ UNCHANGED vars => UNCHANGED restarts
    BY DEF TakeFinalization, Maintenance, FlushJournal, FlushMmap, vars
  <1>. QED
    BY <1>1, <1>2, <1>3 DEF Next

LEMMA RestartStep ==
  ASSUME SoundInvariant, JournalFresh, [Next]_vars,
         restarts' # restarts, ~journalDirty,
         NEW t \in Tid \ Unprepared, transfers[t] # NoObj, ~obj[transfers[t]].finalized
  PROVE  LET o == transfers[t]  p == transfers'[t] IN
         /\ p # NoObj
         /\ obj'[p].sig = obj[o].sig /\ obj'[p].part = obj[o].part /\ obj'[p].got = obj[o].got
  <1>1. Restart
    BY OnlyRestart
  <1>2. PICK r \in journal :
          LET x == obj[transfers[t]] IN
          /\ r.tid = t /\ r.sig = x.sig /\ r.part = x.part /\ r.got = x.got
          /\ part[r.part] \in Inode
          /\ part[r.part] # NoInode /\ file[part[r.part]] # Free
          /\ DOMAIN file[part[r.part]].bytes = Chunks(r.sig)
    BY RecordThere
  <1>3. /\ transfers'[r.tid] # NoObj /\ obj'[transfers'[r.tid]] = Restored(r)
        /\ Restored(r).sig = r.sig /\ Restored(r).part = r.part /\ Restored(r).got = r.got
    BY <1>1, <1>2, RecordRestored
  <1>. QED
    BY <1>2, <1>3

\* A restored transfer is still being received.
LEMMA RestoredPlain ==
  ASSUME Restart, NEW q \in Obj, obj'[q] # NoObj
  PROVE  ~obj'[q].finalized /\ ~obj'[q].done
  <1>1. PICK r : obj'[q] = Restored(r)
    BY DEF Restart
  <1>. QED
    BY <1>1 DEF Restored, Transfer

\* A restart that finds nothing left to flush brings back every transfer that was
\* being received, with its part file and exactly its chunks, but for the one at
\* which the receive thread ended.
THEOREM RestartsAreExact ==
  ASSUME OneSigPerTid, ~PowerLoss
  PROVE  Spec => RestartExact
  <1>1. SoundInvariant /\ JournalFresh /\ [Next]_vars =>
          [restarts' # restarts /\ ~journalDirty =>
             \A t \in Tid \ Unprepared : LET o == transfers[t]
                                p == transfers'[t] IN
               o # NoObj /\ ~obj[o].finalized =>
                 /\ p # NoObj
                 /\ obj'[p].sig = obj[o].sig
                 /\ obj'[p].part = obj[o].part
                 /\ obj'[p].got = obj[o].got]_vars
    BY RestartStep
  <1>. QED
    BY <1>1, Sound, JournalAlwaysFresh, PTL DEF Spec, RestartExact

-----------------------------------------------------------------------------
(* Nobody forgets a finalized transfer. *)

\* What an exception has ended stays so until the process starts again.
LEMMA DeadStays ==
  ASSUME SoundInvariant, [Next]_vars, ~Restart, NEW u \in Thread, fin[u].pc = "dead"
  PROVE  fin'[u].pc = "dead"
  <1>1. fin \in [Thread -> FinRec]
    BY DEF SoundInvariant, TypeInvariant, TypeOK
  <1>2. ASSUME NEW th \in Thread, Finalize(th)
        PROVE  fin'[u] = fin[u]
    <2>1. fin[th].pc # "dead" /\ \A h \in Thread : h # th => fin'[h] = fin[h]
      BY <1>1, <1>2 DEF Finalize, PartMissing, Hash, Link, LinkToItself, OpenCopy, Copy, Place,
         Utime, Unlink, Finish, Report
    <2>. QED
      BY <2>1
  <1>3. CASE TakeFinalization
    BY <1>1, <1>3 DEF TakeFinalization, Thread
  <1>4. CASE PutFinalization
    <2>1. u # "recv"
      BY <1>4 DEF PutFinalization, SoundInvariant, OneFinalizer
    <2>. QED
      BY <1>1, <1>4, <2>1 DEF PutFinalization
  <1>5. ReceiveThread /\ ~PutFinalization => fin' = fin
    BY DEF ReceiveThread, MetadataOfPresentFile, AnswerComplete, MetadataOfOtherFile, Data,
       PrepareKnown, PrepareResume, OpenPart, TruncatePart, PrepareCreate, DataWithoutFile, Beacon,
       StaleComplete, MarkFinalized
  <1>6. Maintenance \/ UNCHANGED vars => fin' = fin
    BY DEF Maintenance, FlushJournal, FlushMmap, vars
  <1>. QED
    BY <1>2, <1>3, <1>4, <1>5, <1>6 DEF Next

\* Transfer o under id t is in somebody's hands.
AttendedTo(t, o) ==
  \/ recv.pc = "put" /\ recv.o = o
  \/ \E k \in 1 .. Len(queue) : queue[k] = o
  \/ \E th \in Thread : fin[th].o = o /\ fin[th].tid = t

\* No thread has ended: every finalized transfer is attended to.
AllAttended ==
  \A t \in Tid : LET o == transfers[t] IN
    o # NoObj /\ obj[o].finalized => AttendedTo(t, o)

LEMMA AttendedFrame ==
  ASSUME AllAttended,
         \A t \in Tid : transfers'[t] # NoObj /\ obj'[transfers'[t]].finalized =>
           transfers'[t] = transfers[t] /\ obj[transfers[t]].finalized,
         UNCHANGED queue, recv' = recv \/ recv.pc # "put",
         \A h \in Thread : fin'[h].o = fin[h].o /\ fin'[h].tid = fin[h].tid
  PROVE  AllAttended'
  BY DEF AllAttended, AttendedTo

\* A step that changes nothing the frame is about but fields of one object.
LEMMA AttendedField ==
  ASSUME SoundInvariant, AllAttended, NEW o \in Obj, NEW y,
         obj[o] # NoObj => (y.finalized => obj[o].finalized),
         obj' = [obj EXCEPT ![o] = y],
         UNCHANGED <<transfers, queue, fin>>, recv' = recv \/ recv.pc # "put"
  PROVE  AllAttended'
  <1>1. \A q \in Obj : obj'[q] = IF q = o THEN y ELSE obj[q]
    BY DEF SoundInvariant, TypeInvariant, TypeOK
  <1>2. \A t \in Tid : transfers[t] # NoObj => transfers[t] \in Obj /\ obj[transfers[t]] # NoObj
    BY DEF SoundInvariant, TypeInvariant, TypeOK, ReferencesAllocated
  <1>3. \A t \in Tid : transfers'[t] # NoObj /\ obj'[transfers'[t]].finalized =>
           transfers'[t] = transfers[t] /\ obj[transfers[t]].finalized
    BY <1>1, <1>2
  <1>. QED
    BY <1>3, AttendedFrame

\* Preparing, receiving and writing back finalize nothing.
LEMMA AttendedReceive ==
  ASSUME SoundInvariant, OneTidPerSig, AllAttended,
         \/ ReceiveThread /\ ~MarkFinalized /\ ~PutFinalization
         \/ Maintenance
         \/ UNCHANGED vars
  PROVE  AllAttended'
  <1>1. ASSUME NEW t \in Tid, transfers[t] # NoObj
        PROVE  /\ transfers[t] \in Obj /\ obj[transfers[t]] \in TransferRec
               /\ obj[transfers[t]] # NoObj /\ obj[transfers[t]].tid = t
    BY <1>1, NoneAssumption DEF SoundInvariant, TypeInvariant, TypeOK, ReferencesAllocated, Keyed
  <1>2. obj \in [Obj -> TransferRec \cup {NoObj}] /\ transfers \in [Tid -> Obj \cup {NoObj}]
    BY DEF SoundInvariant, TypeInvariant, TypeOK
  <1>3. ASSUME UNCHANGED <<transfers, obj, queue, fin>>, recv' = recv \/ recv.pc # "put"
        PROVE  AllAttended'
    BY <1>3, AttendedFrame
  <1>4. ASSUME NEW x \in Sessions, NEW c \in Chunks(x[2]), Data(x[1], c, x[2])
        PROVE  AllAttended'
    <2>. DEFINE o == transfers[x[1]]
                z == obj[o]
                i == Target(z)
                lost == IF z.map # NoInode /\ file[i].bytes[c] = Hole THEN {c} ELSE {}
                got == z.got \cup {c}
                w == z.unsynced \cup lost
                y == [z EXCEPT !.got = got, !.unsynced = w]
    <2>1. /\ o # NoObj /\ recv.pc = "idle" /\ UNCHANGED <<transfers, queue, fin>>
          /\ obj' = [obj EXCEPT ![o] = y]
      BY <1>4 DEF Data, RecvReady
    <2>2. o \in Obj /\ z \in TransferRec
      BY <1>1, <2>1, ManifestAssumption
    <2>. HIDE DEF got, w
    <2>3. y.finalized = z.finalized
      BY <2>2 DEF TransferRec
    <2>. HIDE DEF y
    <2>. QED
      BY <2>1, <2>2, <2>3, AttendedField
  <1>5. ASSUME NEW t \in Tid, FlushMmap(t)
        PROVE  AllAttended'
    <2>. DEFINE o == transfers[t]
                y == [obj[o] EXCEPT !.unsynced = {}]
    <2>1. /\ o # NoObj /\ obj' = [obj EXCEPT ![o] = y]
          /\ UNCHANGED <<transfers, queue, fin, recv>>
      BY <1>5 DEF FlushMmap
    <2>2. o \in Obj /\ obj[o] \in TransferRec
      BY <1>1, <2>1
    <2>3. y.finalized = obj[o].finalized
      BY <2>2 DEF TransferRec
    <2>. HIDE DEF y
    <2>. QED
      BY <2>1, <2>2, <2>3, AttendedField
  <1>6. ASSUME NEW t \in Tid, NEW a \in Addr, transfers[t] # NoObj,
               obj' = [obj EXCEPT ![transfers[t]].addr = a],
               UNCHANGED <<transfers, queue, fin>>, recv.pc # "put"
        PROVE  AllAttended'
    <2>. DEFINE o == transfers[t]
                y == [obj[o] EXCEPT !.addr = a]
    <2>1. o \in Obj /\ obj[o] \in TransferRec /\ obj' = [obj EXCEPT ![o] = y]
      BY <1>1, <1>6
    <2>2. y.finalized = obj[o].finalized
      BY <2>1 DEF TransferRec
    <2>. HIDE DEF y
    <2>. QED
      BY <1>6, <2>1, <2>2, AttendedField
  <1>7. CASE PrepareKnown
    <2>1. /\ recv.pc = "prepare" /\ transfers[recv.tid] # NoObj
          /\ UNCHANGED <<transfers, queue, fin>>
          /\ \/ obj' = obj
             \/ \E a \in Addr : obj' = [obj EXCEPT ![transfers[recv.tid]].addr = a]
      BY <1>7 DEF PrepareKnown
    <2>2. recv.tid \in Tid
      BY <2>1 DEF SoundInvariant, TypeInvariant, StationsFilled
    <2>. QED
      BY <1>3, <1>6, <2>1, <2>2
  <1>8. ASSUME NEW t \in Tid, Beacon(t)
        PROVE  AllAttended'
    BY <1>6, <1>8 DEF Beacon, RecvReady
  <1>9. CASE PrepareResume
    <2>. DEFINE s == recv.sig
                prev == ResumableId(s)
    <2>1. /\ recv.tid \in Tid /\ s \in Sig /\ <<recv.tid, s>> \in Sessions
          /\ transfers[recv.tid] = NoObj
      BY <1>9 DEF PrepareResume, SoundInvariant, TypeInvariant, StationsFilled, ReceiveStation
    <2>2. prev = sigIndex[s] /\ sigIndex[s] # NoTid /\ transfers[prev] # NoObj
      BY <1>9 DEF PrepareResume, ResumableId
    <2>3. <<prev, s>> \in Sessions
      BY <2>1, <2>2 DEF SoundInvariant, Keyed
    <2>4. prev = recv.tid
      BY <2>1, <2>3 DEF OneTidPerSig
    <2>. QED
      BY <2>1, <2>2, <2>4
  <1>10. CASE PrepareCreate
    <2>1. PICK o \in {x \in Obj : obj[x] = NoObj}, a \in Addr :
            LET t == recv.tid
                s == recv.sig
                i == part[t]
                fits == i = NoInode \/ Chunks(s) \subseteq DOMAIN file[i].bytes
                map == IF Chunks(s) # {} /\ fits THEN i ELSE NoInode
            IN  /\ transfers' = [transfers EXCEPT ![t] = o]
                /\ obj' = [obj EXCEPT ![o] = Transfer(t, s, t, a, {}, map)]
      BY <1>10 DEF PrepareCreate
    <2>2. recv.pc = "map" /\ UNCHANGED <<queue, fin>>
      BY <1>10 DEF PrepareCreate
    <2>3. recv.tid \in Tid
      BY <2>2 DEF SoundInvariant, TypeInvariant, StationsFilled
    <2>4. ~obj'[o].finalized /\ \A q \in Obj : q # o => obj'[q] = obj[q]
      BY <1>2, <2>1 DEF Transfer
    <2>5. \A t \in Tid : transfers'[t] = IF t = recv.tid THEN o ELSE transfers[t]
      BY <1>2, <2>1, <2>3
    <2>6. \A t \in Tid : transfers'[t] # NoObj /\ obj'[transfers'[t]].finalized =>
           transfers'[t] = transfers[t] /\ obj[transfers[t]].finalized
      BY <1>1, <2>4, <2>5
    <2>. QED
      BY <2>2, <2>6, AttendedFrame
  <1>11. ASSUME NEW x \in Sessions,
                MetadataOfPresentFile(x[1], x[2]) \/ MetadataOfOtherFile(x[1], x[2])
         PROVE  AllAttended'
    BY <1>3, <1>11 DEF MetadataOfPresentFile, MetadataOfOtherFile, RecvReady
  <1>12. ASSUME AnswerComplete \/ OpenPart \/ TruncatePart \/ FlushJournal \/ UNCHANGED vars
         PROVE  AllAttended'
    BY <1>3, <1>12 DEF AnswerComplete, OpenPart, TruncatePart, FlushJournal, vars
  <1>13. ASSUME NEW t \in Tid, DataWithoutFile(t) \/ StaleComplete(t)
         PROVE  AllAttended'
    BY <1>3, <1>13 DEF DataWithoutFile, StaleComplete, RecvReady
  <1>. QED
    BY <1>4, <1>5, <1>7, <1>8, <1>9, <1>10, <1>11, <1>12, <1>13 DEF ReceiveThread, Maintenance

LEMMA AttendedMark ==
  ASSUME SoundInvariant, AllAttended, MarkFinalized
  PROVE  AllAttended'
  <1>. DEFINE o == recv.o
              y == [obj[o] EXCEPT !.finalized = TRUE, !.map = NoInode, !.unsynced = {}]
  <1>1. o \in Obj /\ ~obj[o].finalized
    BY DEF MarkFinalized, SoundInvariant, TypeInvariant, StationsFilled, ReceiveStation
  <1>2. /\ obj' = [obj EXCEPT ![o] = y] /\ recv' = [recv EXCEPT !.pc = "put"]
        /\ UNCHANGED <<transfers, queue, fin>> /\ recv.pc = "full"
    BY <1>1 DEF MarkFinalized
  <1>. HIDE DEF y
  <1>3. \A q \in Obj : q # o => obj'[q] = obj[q]
    BY <1>1, <1>2 DEF SoundInvariant, TypeInvariant, TypeOK
  <1>4. recv'.pc = "put" /\ recv'.o = o
    BY <1>2 DEF SoundInvariant, TypeInvariant, TypeOK, RecvRec
  <1>5. \A t \in Tid : transfers[t] # NoObj => transfers[t] \in Obj
    BY DEF SoundInvariant, TypeInvariant, TypeOK
  <1>. QED
    BY <1>2, <1>3, <1>4, <1>5 DEF AllAttended, AttendedTo

LEMMA AttendedPut ==
  ASSUME SoundInvariant, AllAttended, PutFinalization, fin["worker"].pc # "dead"
  PROVE  AllAttended'
  <1>1. /\ queue' = Append(queue, recv.o) /\ recv.pc = "put"
        /\ UNCHANGED <<transfers, obj, fin>>
    BY DEF PutFinalization
  <1>2. queue \in Seq(Obj) /\ recv.o \in Obj
    BY <1>1 DEF SoundInvariant, TypeInvariant, TypeOK, StationsFilled
  <1>3. /\ Len(queue') = Len(queue) + 1 /\ queue'[Len(queue) + 1] = recv.o
        /\ \A k \in 1 .. Len(queue) : queue'[k] = queue[k]
    BY <1>1, <1>2
  <1>4. /\ \A k \in 1 .. Len(queue) : k \in 1 .. Len(queue')
        /\ Len(queue) + 1 \in 1 .. Len(queue')
    BY <1>2, <1>3
  <1>. QED
    BY <1>1, <1>3, <1>4 DEF AllAttended, AttendedTo

LEMMA AttendedTake ==
  ASSUME SoundInvariant, AllAttended, TakeFinalization
  PROVE  AllAttended'
  <1>1. /\ queue # <<>> /\ fin["worker"].pc = "idle" /\ queue' = Tail(queue)
        /\ fin' = [fin EXCEPT !["worker"] = Frame(Head(queue))]
        /\ UNCHANGED <<transfers, obj, recv>>
    BY DEF TakeFinalization
  <1>2. queue \in Seq(Obj) /\ "worker" \in Thread /\ fin \in [Thread -> FinRec]
    BY DEF SoundInvariant, TypeInvariant, TypeOK, Thread
  <1>3. \A k \in 1 .. Len(queue) : k = 1 \/ (k - 1 \in 1 .. Len(queue') /\ queue'[k - 1] = queue[k])
    BY <1>1, <1>2
  <1>4. /\ fin'["worker"].o = queue[1] /\ fin'["worker"].tid = obj[queue[1]].tid
        /\ \A h \in Thread : h # "worker" => fin'[h] = fin[h]
    BY <1>1, <1>2 DEF Frame
  <1>5. fin["worker"].o = NoObj
    BY <1>1, <1>2 DEF SoundInvariant, FinalizerStation, AtStation
  <1>6. ASSUME NEW t \in Tid, transfers'[t] # NoObj, obj'[transfers'[t]].finalized
        PROVE  AttendedTo(t, transfers[t])'
    <2>1. transfers[t] # NoObj /\ obj[transfers[t]].finalized /\ obj[transfers[t]].tid = t
      BY <1>1, <1>6 DEF SoundInvariant, Keyed
    <2>2. AttendedTo(t, transfers[t])
      BY <2>1 DEF AllAttended
    <2>3. CASE recv.pc = "put" /\ recv.o = transfers[t]
      BY <1>1, <2>3 DEF AttendedTo
    <2>4. ASSUME NEW k \in 1 .. Len(queue), queue[k] = transfers[t]
          PROVE  AttendedTo(t, transfers[t])'
      <3>1. CASE k = 1
        <4>1. fin'["worker"].o = transfers'[t] /\ fin'["worker"].tid = t
          BY <1>1, <1>4, <2>1, <2>4, <3>1
        <4>. QED
          BY <1>2, <4>1 DEF AttendedTo
      <3>2. CASE k # 1
        <4>1. k - 1 \in 1 .. Len(queue') /\ queue'[k - 1] = transfers'[t]
          BY <1>1, <1>3, <2>4, <3>2
        <4>. QED
          BY <4>1 DEF AttendedTo
      <3>. QED
        BY <3>1, <3>2
    <2>5. ASSUME NEW h \in Thread, fin[h].o = transfers[t], fin[h].tid = t
          PROVE  AttendedTo(t, transfers[t])'
      <3>1. h # "worker"
        BY <1>5, <2>1, <2>5
      <3>. QED
        BY <1>1, <1>4, <2>5, <3>1 DEF AttendedTo
    <2>. QED
      BY <2>2, <2>3, <2>4, <2>5 DEF AttendedTo
  <1>7. transfers' = transfers
    BY <1>1
  <1>. QED
    BY <1>6, <1>7 DEF AllAttended

LEMMA AttendedFinish ==
  ASSUME SoundInvariant, AllAttended, NEW th \in Thread, Finish(th)
  PROVE  AllAttended'
  <1>. DEFINE f == fin[th]
              marked == [obj EXCEPT ![f.o].done = (f.state = "COMPLETE")]
  <1>1. /\ transfers' = [transfers EXCEPT ![f.tid] = NoObj]
        /\ obj' = Referenced(marked, transfers', fin')
        /\ fin' = [fin EXCEPT ![th].pc = "report", ![th].o = NoObj]
        /\ UNCHANGED <<queue, recv>> /\ f.pc = "finish"
    BY DEF Finish
  <1>2. f.o \in Obj /\ f.tid \in Tid /\ obj[f.o] # NoObj
    BY <1>1, HeldObject
  <1>3. /\ \A h \in Thread : h # th => fin'[h] = fin[h]
        /\ transfers \in [Tid -> Obj \cup {NoObj}]
        /\ obj \in [Obj -> TransferRec \cup {NoObj}]
    BY <1>1 DEF SoundInvariant, TypeInvariant, TypeOK
  <1>4. ASSUME NEW q \in Obj, obj[q] # NoObj
        PROVE  marked[q].finalized = obj[q].finalized
    <2>1. obj[q] \in TransferRec /\ obj[f.o] \in TransferRec
      BY <1>2, <1>3, <1>4
    <2>. QED
      BY <1>2, <1>3, <2>1 DEF TransferRec
  <1>. HIDE DEF marked
  <1>5. ASSUME NEW t \in Tid, transfers'[t] # NoObj, obj'[transfers'[t]].finalized
        PROVE  AttendedTo(t, transfers[t])' /\ transfers'[t] = transfers[t]
    <2>1. t # f.tid /\ transfers'[t] = transfers[t]
      BY <1>1, <1>2, <1>3, <1>5
    <2>2. transfers[t] \in Obj /\ obj[transfers[t]] # NoObj
      BY <1>3, <1>5, <2>1, TableFacts DEF SoundInvariant
    <2>3. obj'[transfers[t]] = marked[transfers[t]]
      BY <1>1, <1>5, <2>1, <2>2 DEF Referenced
    <2>4. transfers[t] # NoObj /\ obj[transfers[t]].finalized
      BY <1>4, <1>5, <2>1, <2>2, <2>3
    <2>5. AttendedTo(t, transfers[t])
      BY <2>4 DEF AllAttended
    <2>6. ASSUME NEW h \in Thread, fin[h].o = transfers[t], fin[h].tid = t
          PROVE  fin'[h] = fin[h]
      BY <1>3, <2>1, <2>6
    <2>. QED
      BY <1>1, <2>1, <2>5, <2>6 DEF AttendedTo
  <1>. QED
    BY <1>5 DEF AllAttended

LEMMA AttendedFinalize ==
  ASSUME SoundInvariant, AllAttended, NEW th \in Thread, Finalize(th), ~Finish(th),
         fin'[th].pc # "dead"
  PROVE  AllAttended'
  <1>1. fin \in [Thread -> FinRec] /\ fin[th] \in FinRec
    BY DEF SoundInvariant, TypeInvariant, TypeOK
  <1>2. ~PartMissing(th) /\ ~Unlink(th)
    BY SoundMissing, SoundUnlink
  <1>3. ~LinkToItself(th)
    <2>1. LinkToItself(th) => fin'[th] = Ended(fin[th])
      BY <1>1 DEF LinkToItself
    <2>. QED
      BY <1>1, <2>1 DEF Ended, FinRec
  <1>4. CASE Report(th)
    <2>1. /\ UNCHANGED <<transfers, obj, queue, recv>>
          /\ fin' = [fin EXCEPT ![th] = IdleFin] /\ fin[th].o = NoObj
      BY <1>4 DEF Report, SoundInvariant, FinalizerStation, AtStation
    <2>2. \A h \in Thread : h # th => fin'[h] = fin[h]
      BY <1>1, <2>1
    <2>. QED
      BY <2>1, <2>2 DEF AllAttended, AttendedTo
  <1>5. CASE Hash(th) \/ Link(th) \/ OpenCopy(th) \/ Copy(th) \/ Place(th) \/ Utime(th)
    <2>1. UNCHANGED <<transfers, obj, queue, recv>>
      BY <1>5 DEF Hash, Link, OpenCopy, Copy, Place, Utime
    <2>2. \/ \E pc : fin' = [fin EXCEPT ![th].pc = pc]
          \/ \E pc, state : fin' = [fin EXCEPT ![th].pc = pc, ![th].state = state]
      BY <1>5 DEF Hash, Link, OpenCopy, Copy, Place, Utime
    <2>3. \A h \in Thread : fin'[h].o = fin[h].o /\ fin'[h].tid = fin[h].tid
      <3>1. CASE \E pc : fin' = [fin EXCEPT ![th].pc = pc]
        BY <1>1, <3>1 DEF FinRec
      <3>2. CASE \E pc, state : fin' = [fin EXCEPT ![th].pc = pc, ![th].state = state]
        <4>1. PICK pc, state : fin' = [fin EXCEPT ![th].pc = pc, ![th].state = state]
          BY <3>2
        <4>2. /\ [fin[th] EXCEPT !.pc = pc, !.state = state].o = fin[th].o
              /\ [fin[th] EXCEPT !.pc = pc, !.state = state].tid = fin[th].tid
          BY <1>1 DEF FinRec
        <4>3. fin' = [fin EXCEPT ![th] = [fin[th] EXCEPT !.pc = pc, !.state = state]]
          BY <4>1
        <4>. QED
          BY <1>1, <4>2, <4>3
      <3>. QED
        BY <2>2, <3>1, <3>2
    <2>. QED
      BY <2>1, <2>3, AttendedFrame
  <1>. QED
    BY <1>2, <1>3, <1>4, <1>5 DEF Finalize

LEMMA AttendedStep ==
  ASSUME SoundInvariant, SoundInvariant', OneTidPerSig, Attended, [Next]_vars
  PROVE  Attended'
  <1>. SUFFICES ASSUME \A th \in Thread : fin'[th].pc # "dead"
                PROVE  AllAttended'
    BY DEF Attended, AllAttended, AttendedTo
  <1>1. CASE Restart
    <2>1. \A q \in Obj : obj'[q] # NoObj => ~obj'[q].finalized
      BY <1>1, RestoredPlain
    <2>2. \A t \in Tid : transfers'[t] # NoObj =>
            transfers'[t] \in Obj /\ obj'[transfers'[t]] # NoObj
      BY DEF SoundInvariant, TypeInvariant, TypeOK, ReferencesAllocated
    <2>. QED
      BY <2>1, <2>2 DEF AllAttended
  <1>2. CASE ~Restart
    <2>1. \A th \in Thread : fin[th].pc # "dead"
      BY <1>2, DeadStays
    <2>2. AllAttended
      BY <2>1 DEF Attended, AllAttended, AttendedTo
    <2>3. CASE ReceiveThread
      BY <2>1, <2>2, <2>3, AttendedReceive, AttendedMark, AttendedPut DEF Thread
    <2>4. CASE TakeFinalization
      BY <2>2, <2>4, AttendedTake
    <2>5. CASE \E th \in Thread : Finalize(th)
      BY <2>2, <2>5, AttendedFinish, AttendedFinalize
    <2>6. CASE Maintenance \/ UNCHANGED vars
      BY <2>2, <2>6, AttendedReceive
    <2>. QED
      BY <1>2, <2>3, <2>4, <2>5, <2>6 DEF Next
  <1>. QED
    BY <1>1, <1>2

\* A finalized transfer in the table is in somebody's hands, when a version is
\* sent under one id and no finalizing thread has ended: the queue, the receive
\* thread or the thread that will take it out.  (Under a second id it may be stuck,
\* see the README.)
THEOREM FinalizedAreAttended ==
  ASSUME OneSigPerTid, OneTidPerSig, ~PowerLoss
  PROVE  Spec => []Attended
  <1>1. Init => Attended
    BY DEF Init, Attended
  <1>2. SoundInvariant /\ SoundInvariant' /\ Attended /\ [Next]_vars => Attended'
    BY AttendedStep
  <1>. QED
    BY <1>1, <1>2, Sound, PTL DEF Spec

-----------------------------------------------------------------------------
(* Which version a file is. *)

\* Two versions of one name differ in their bytes.
LEMMA WholeTold ==
  ASSUME VersionsTold, NEW r \in Sig, NEW s \in Sig, FileName[r] = FileName[s],
         Whole(r) = Whole(s)
  PROVE  r = s
  <1>1. DOMAIN Whole(r) = Chunks(r) /\ DOMAIN Whole(s) = Chunks(s)
    BY DEF Whole
  <1>2. SUFFICES ASSUME r # s PROVE FALSE
    OBVIOUS
  <1>3. Chunks(r) = Chunks(s)
    BY <1>1
  <1>4. PICK c \in Chunks(s) : TRUE
    BY <1>2, <1>3 DEF VersionsTold
  <1>5. Whole(r)[c] = r /\ Whole(s)[c] = s
    BY <1>3, <1>4 DEF Whole
  <1>. QED
    BY <1>2, <1>5

\* A reader of a name finds nothing, or the version in place.
LEMMA VisibleIs ==
  ASSUME VersionsTold
  PROVE  /\ \A n \in Name : final[n] = NoInode => VisibleVersion(n) = NoSig
         /\ \A s \in Sig : InPlace(s) => VisibleVersion(FileName[s]) = s
  <1>1. ASSUME NEW s \in Sig, InPlace(s)
        PROVE  VisibleVersion(FileName[s]) = s
    <2>. DEFINE P(v) == FileName[v] = FileName[s] /\ file[final[FileName[s]]].bytes = Whole(v)
    <2>1. P(s) /\ \A v \in Sig : P(v) => v = s
      BY <1>1, WholeTold DEF InPlace
    <2>2. (CHOOSE v \in Sig : P(v)) = s
      BY <2>1
    <2>. QED
      BY <1>1, <2>1, <2>2 DEF VisibleVersion, InPlace
  <1>. QED
    BY <1>1 DEF VisibleVersion

LEMMA VisibleWillBe ==
  ASSUME VersionsTold
  PROVE  /\ \A n \in Name : final'[n] = NoInode => VisibleVersion(n)' = NoSig
         /\ \A s \in Sig : InPlace(s)' => VisibleVersion(FileName[s])' = s
  <1>1. ASSUME NEW s \in Sig, InPlace(s)'
        PROVE  VisibleVersion(FileName[s])' = s
    <2>. DEFINE P(v) == FileName[v] = FileName[s] /\ file'[final'[FileName[s]]].bytes = Whole(v)
    <2>1. P(s) /\ \A v \in Sig : P(v) => v = s
      BY <1>1, WholeTold DEF InPlace
    <2>2. (CHOOSE v \in Sig : P(v)) = s
      BY <2>1
    <2>. QED
      BY <1>1, <2>1, <2>2 DEF VisibleVersion, InPlace
  <1>. QED
    BY <1>1 DEF VisibleVersion

\* What is in place under a name, when there is something.
LEMMA SomeInPlace ==
  ASSUME SoundInvariant, ~KeepPart, NEW n \in Name, final[n] # NoInode
  PROVE  \E s \in Sig : FileName[s] = n /\ InPlace(s)
  <1>1. PICK s \in Sig : FileName[s] = n /\ file[final[n]].bytes = Whole(s)
    BY DEF SoundInvariant, FilesSound, FinalWhole
  <1>. QED
    BY <1>1 DEF InPlace

\* Size and modification time tell the version: what the match check accepts is
\* the version in place.
LEMMA MatchInPlace ==
  ASSUME SoundInvariant, ~KeepPart, Dated, VersionsTold, NEW s \in Sig, Matches(s)
  PROVE  InPlace(s)
  <1>. DEFINE n == FileName[s]
              i == final[n]
  <1>1. /\ n \in Name /\ i # NoInode /\ DOMAIN file[i].bytes = Chunks(s)
        /\ file[i].mtime = SourceMtime[s] /\ SourceMtime[s] \in Mtime
    BY ManifestAssumption DEF Matches
  <1>2. PICK v \in Sig : FileName[v] = n /\ InPlace(v)
    BY <1>1, SomeInPlace
  <1>3. file[i].bytes = Whole(v)
    BY <1>2 DEF InPlace
  <1>4. Chunks(v) = Chunks(s)
    BY <1>1, <1>3 DEF Whole
  <1>5. file[i].mtime \in {Now, SourceMtime[v]}
    BY <1>1, <1>2, <1>3 DEF Dated
  <1>6. SourceMtime[s] = SourceMtime[v]
    BY <1>1, <1>5, NoneAssumption
  <1>7. v = s
    BY <1>2, <1>4, <1>6 DEF VersionsTold
  <1>. QED
    BY <1>2, <1>7

-----------------------------------------------------------------------------
(* Without --keep-part-files only the worker finalizes, and no temporary name *)
(* is used.                                                                  *)

LEMMA WorkerOnly ==
  ASSUME SoundInvariant, ~KeepPart, NEW th \in Thread, fin[th].pc # "idle"
  PROVE  th = "worker"
  <1>1. fin["worker"].pc # "dead"
    BY DEF SoundInvariant, FinalizerEnded, EndedAt, Thread
  <1>2. fin["recv"].pc = "idle"
    BY <1>1 DEF SoundInvariant, OneFinalizer
  <1>. QED
    BY <1>2 DEF Thread

LEMMA NoCopies ==
  ASSUME SoundInvariant, ~KeepPart, NEW th \in Thread,
         Link(th) \/ LinkToItself(th) \/ OpenCopy(th) \/ Copy(th)
  PROVE  FALSE
  <1>1. fin[th].pc \in {"link", "copy"}
    BY DEF Link, LinkToItself, OpenCopy, Copy
  <1>. QED
    BY <1>1 DEF SoundInvariant, FinalizerStation, AtStation

\* The steps of the worker.
LEMMA WorkerSteps ==
  ASSUME SoundInvariant, ~KeepPart, NEW th \in Thread, Finalize(th)
  PROVE  th = "worker" /\ (Hash(th) \/ Place(th) \/ Utime(th) \/ Finish(th) \/ Report(th))
  <1>1. Hash(th) \/ Place(th) \/ Utime(th) \/ Finish(th) \/ Report(th)
    BY SoundMissing, SoundUnlink, NoCopies DEF Finalize
  <1>2. fin[th].pc # "idle"
    BY <1>1 DEF Hash, Place, Utime, Finish, Report
  <1>. QED
    BY <1>1, <1>2, WorkerOnly

-----------------------------------------------------------------------------
(* Destination files. *)

\* No destination file is replaced or loses its bytes.
FinalsKept ==
  /\ final' = final
  /\ \A n \in Name : final[n] # NoInode => file'[final[n]].bytes = file[final[n]].bytes

\* A step that leaves the destination files keeps what is said of them.
FilesKept == FinalsKept /\ Apart' /\ Dated'

LEMMA InPlaceKept ==
  ASSUME FinalsKept, NEW s \in Sig, InPlace(s)
  PROVE  InPlace(s)'
  BY ManifestAssumption DEF FinalsKept, InPlace

LEMMA ReclaimSame ==
  ASSUME NEW fl, NEW held, file' = Reclaim(fl, held), NEW i \in Inode, file'[i] # Free
  PROVE  file'[i] = fl[i]
  BY DEF Reclaim

\* A crash and the reclaiming of inodes leave the files under a path.
LEMMA QuietFiles ==
  ASSUME SoundInvariant, SoundInvariant', Apart, Dated, UNCHANGED <<part, final>>,
         NEW fl, NEW held, file' = Reclaim(fl, held),
         \A i \in Inode : file[i] # Free =>
           fl[i].bytes = file[i].bytes /\ fl[i].mtime = file[i].mtime
  PROVE  FilesKept
  <1>1. /\ \A t \in Tid : part[t] # NoInode =>
             part[t] \in Inode /\ file[part[t]] # Free /\ file'[part[t]] # Free
        /\ \A n \in Name : final[n] # NoInode =>
             final[n] \in Inode /\ file[final[n]] # Free /\ file'[final[n]] # Free
    BY DEF SoundInvariant, TypeInvariant, TypeOK, HeldAllocated
  <1>2. \A i \in Inode : file'[i] # Free => file'[i] = fl[i]
    BY ReclaimSame
  <1>3. /\ \A t \in Tid : part[t] # NoInode => file'[part[t]].mtime = file[part[t]].mtime
        /\ \A n \in Name : final[n] # NoInode =>
             /\ file'[final[n]].bytes = file[final[n]].bytes
             /\ file'[final[n]].mtime = file[final[n]].mtime
    BY <1>1, <1>2
  <1>4. Dated'
    <2>1. \A s \in Sig : FileName[s] \in Name
      BY ManifestAssumption
    <2>. QED
      BY <1>3, <2>1 DEF Dated
  <1>. QED
    BY <1>3, <1>4 DEF FilesKept, FinalsKept, Apart

LEMMA SameFilesKept ==
  ASSUME Apart, Dated, UNCHANGED <<part, final, file>>
  PROVE  FilesKept
  BY DEF FilesKept, FinalsKept, Apart, Dated

\* A write to a file that is not a destination file.
LEMMA WriteKeeps ==
  ASSUME SoundInvariant, Apart, Dated, final' = final, NEW i \in Inode,
         \A n \in Name : final[n] # i, file'[i].mtime = Now,
         \A j \in Inode : j # i => file'[j] = file[j],
         \A t \in Tid : part'[t] \in {part[t], i}
  PROVE  FilesKept
  <1>1. /\ \A t \in Tid : part[t] # NoInode => part[t] \in Inode
        /\ \A n \in Name : final[n] # NoInode => final[n] \in Inode
    BY PathFacts DEF SoundInvariant
  <1>2. \A n \in Name : final[n] # NoInode => file'[final[n]] = file[final[n]]
    BY <1>1
  <1>3. Apart'
    BY DEF Apart
  <1>4. Dated'
    <2>1. \A s \in Sig : FileName[s] \in Name
      BY ManifestAssumption
    <2>2. ASSUME NEW t \in Tid, part'[t] # NoInode PROVE file'[part'[t]].mtime = Now
      BY <1>1, <2>2 DEF Dated
    <2>. QED
      BY <1>2, <2>1, <2>2 DEF Dated
  <1>. QED
    BY <1>2, <1>3, <1>4 DEF FilesKept, FinalsKept

\* A new part file is not yet a destination file.
LEMMA OpenKeeps ==
  ASSUME SoundInvariant, Apart, Dated, OpenPart
  PROVE  FilesKept
  <1>1. final' = final /\ recv.tid \in Tid
    BY DEF OpenPart, SoundInvariant, TypeInvariant, StationsFilled
  <1>2. CASE UNCHANGED <<part, file>>
    BY <1>1, <1>2, SameFilesKept
  <1>3. ASSUME NEW i \in Inode, file[i] = Free, part' = [part EXCEPT ![recv.tid] = i],
               file' = [file EXCEPT ![i] = [bytes |-> NoBytes, mtime |-> Now]]
        PROVE  FilesKept
    <2>1. /\ part \in [Tid -> Inode \cup {NoInode}] /\ file \in [Inode -> File \cup {Free}]
          /\ \A n \in Name : final[n] # i
      BY <1>3, NoneAssumption DEF SoundInvariant, TypeInvariant, TypeOK, HeldAllocated
    <2>2. /\ file'[i].mtime = Now /\ \A j \in Inode : j # i => file'[j] = file[j]
          /\ \A t \in Tid : part'[t] \in {part[t], i}
      BY <1>3, <2>1
    <2>. QED
      BY <1>1, <2>1, <2>2, WriteKeeps
  <1>. QED
    BY <1>2, <1>3 DEF OpenPart

LEMMA TruncateKeeps ==
  ASSUME SoundInvariant, Apart, Dated, TruncatePart
  PROVE  FilesKept
  <1>. DEFINE i == part[recv.tid]
  <1>1. UNCHANGED <<part, final>> /\ recv.tid \in Tid /\ i # NoInode
    BY DEF TruncatePart, SoundInvariant, TypeInvariant, StationsFilled, ReceiveStation
  <1>2. file' = [file EXCEPT ![i] = EmptyFile(recv.sig)]
    BY <1>1 DEF TruncatePart
  <1>3. i \in Inode /\ \A n \in Name : final[n] # i
    BY <1>1, PathFacts DEF SoundInvariant, Apart
  <1>4. file'[i] = EmptyFile(recv.sig) /\ \A j \in Inode : j # i => file'[j] = file[j]
    BY <1>2, <1>3 DEF SoundInvariant, TypeInvariant, TypeOK
  <1>5. file'[i].mtime = Now
    BY <1>4 DEF EmptyFile
  <1>. HIDE DEF i
  <1>. QED
    BY <1>1, <1>3, <1>4, <1>5, WriteKeeps

\* Chunks go to the part file.
LEMMA DataKeeps ==
  ASSUME SoundInvariant, Apart, Dated, NEW t \in Tid, NEW c, NEW v, Data(t, c, v)
  PROVE  FilesKept
  <1>. DEFINE o == transfers[t]
              x == obj[o]
              i == Target(x)
  <1>1. /\ recv.pc = "idle" /\ o # NoObj /\ ~x.finalized /\ i # NoInode
        /\ file' = [file EXCEPT ![i].bytes[c] = v, ![i].mtime = Now]
        /\ UNCHANGED <<part, final>>
    BY DEF Data, RecvReady
  <1>2. o \in Obj /\ x # NoObj /\ x.tid = t /\ x.part \in Tid
    BY <1>1, TableFacts, ObjectTyped DEF SoundInvariant
  <1>3. Unprepared = {}
    BY <1>1 DEF Unprepared
  <1>4. i = part[x.part]
    BY <1>1, <1>2, <1>3 DEF SoundInvariant, Registered, Target
  <1>. HIDE DEF x
  <1>5. i \in Inode /\ file[i] \in File /\ \A n \in Name : final[n] # i
    BY <1>1, <1>2, <1>4, PathFacts DEF SoundInvariant, Apart
  <1>. HIDE DEF i
  <1>6. \A j \in Inode : j # i => file'[j] = file[j]
    BY <1>1, <1>5 DEF SoundInvariant, TypeInvariant, TypeOK
  <1>7. file'[i].mtime = Now
    <2>1. file[i] = [bytes |-> file[i].bytes, mtime |-> file[i].mtime]
      BY <1>5 DEF File
    <2>2. file'[i] = [file[i] EXCEPT !.bytes[c] = v, !.mtime = Now]
      BY <1>1, <1>5 DEF SoundInvariant, TypeInvariant, TypeOK
    <2>. QED
      BY <2>1, <2>2
  <1>. QED
    BY <1>1, <1>5, <1>6, <1>7, WriteKeeps

\* os.utime on the file in place.
LEMMA UtimeKeeps ==
  ASSUME SoundInvariant, ~KeepPart, Apart, Dated, VersionsTold, NEW th \in Thread, Utime(th)
  PROVE  FilesKept
  <1>. DEFINE s == fin[th].sig
              i == final[FileName[s]]
  <1>1. fin[th].pc = "utime"
    BY DEF Utime
  <1>2. s \in Sig /\ FileName[s] \in Name
    BY <1>1, HeldObject
  <1>3. i # NoInode /\ file[i].bytes = Whole(s)
    BY <1>1 DEF SoundInvariant, FinalizerStation, AtStation
  <1>4. /\ UNCHANGED <<part, final>>
        /\ file' = [file EXCEPT ![i] = [file[i] EXCEPT !.mtime = SourceMtime[s]]]
    BY <1>1 DEF Utime
  <1>5. i \in Inode /\ file[i] \in File /\ file \in [Inode -> File \cup {Free}]
    BY <1>2, <1>3, PathFacts DEF SoundInvariant, TypeInvariant, TypeOK
  <1>6. /\ file'[i].bytes = file[i].bytes /\ file'[i].mtime = SourceMtime[s]
        /\ \A j \in Inode : j # i => file'[j] = file[j]
    BY <1>4, <1>5 DEF File
  <1>. HIDE DEF s, i
  <1>7. /\ \A u \in Tid : part[u] # NoInode => part[u] \in Inode /\ part[u] # i
        /\ \A n \in Name : final[n] # NoInode => final[n] \in Inode
    BY <1>2, PathFacts DEF SoundInvariant, Apart, i
  <1>8. FinalsKept
    BY <1>4, <1>6, <1>7 DEF FinalsKept
  <1>9. \A u \in Tid : part'[u] # NoInode => file'[part'[u]].mtime = Now
    BY <1>4, <1>6, <1>7 DEF Dated
  <1>10. ASSUME NEW v \in Sig, final'[FileName[v]] # NoInode,
                file'[final'[FileName[v]]].bytes = Whole(v)
         PROVE  file'[final'[FileName[v]]].mtime \in {Now, SourceMtime[v]}
    <2>1. FileName[v] \in Name
      BY ManifestAssumption
    <2>2. CASE final[FileName[v]] = i
      <3>1. FileName[v] = FileName[s]
        BY <1>2, <1>3, <2>1, <2>2 DEF Apart, i
      <3>2. v = s
        BY <1>2, <1>3, <1>4, <1>6, <1>10, <2>2, <3>1, WholeTold
      <3>. QED
        BY <1>4, <1>6, <2>2, <3>2
    <2>3. CASE final[FileName[v]] # i
      BY <1>4, <1>6, <1>7, <1>10, <2>1, <2>3 DEF Dated
    <2>. QED
      BY <2>2, <2>3
  <1>. QED
    BY <1>4, <1>8, <1>9, <1>10 DEF Dated, FilesKept, Apart

\* What Place does: one name gets the verified version, the others keep theirs.
LEMMA PlaceKeeps ==
  ASSUME SoundInvariant, SoundInvariant', ~KeepPart, Apart, Dated, OneSigPerTid, VersionsTold,
         NEW th \in Thread, Place(th), NEW s, s = fin[th].sig
  PROVE  /\ s \in Sig /\ FileName[s] \in Name /\ Apart' /\ Dated' /\ InPlace(s)'
         /\ \A n \in Name : n # FileName[s] => final'[n] = final[n]
         /\ \A v \in Sig : InPlace(v) /\ FileName[v] # FileName[s] => InPlace(v)'
  <1>. DEFINE p == fin[th].part
              j == part[p]
              m == FileName[s]
  <1>1. /\ s \in Sig /\ m \in Name /\ p \in Tid /\ j \in Inode /\ j # NoInode
        /\ file[j].bytes = Whole(s) /\ fin[th].pc = "place"
    BY HeldObject, HeldFile DEF Place
  <1>2. /\ final' = [final EXCEPT ![m] = j] /\ part' = [part EXCEPT ![p] = NoInode]
        /\ \E held : file' = Reclaim(file, held)
    BY DEF Place
  <1>3. /\ \A t \in Tid : part'[t] # NoInode => part'[t] \in Inode /\ file'[part'[t]] # Free
        /\ \A n \in Name : final'[n] # NoInode => final'[n] \in Inode /\ file'[final'[n]] # Free
        /\ part \in [Tid -> Inode \cup {NoInode}] /\ final \in [Name -> Inode \cup {NoInode}]
    BY DEF SoundInvariant, TypeInvariant, TypeOK, HeldAllocated
  <1>4. \A i \in Inode : file'[i] # Free => file'[i] = file[i]
    BY <1>2, ReclaimSame
  <1>5. file[j].mtime = Now /\ \A n \in Name : final[n] # j
    BY <1>1 DEF Dated, Apart
  <1>6. \A t \in Tid : part[t] = j => t = p
    BY <1>1 DEF SoundInvariant, FilesSound, PartsSound
  <1>. HIDE DEF p, j, m
  <1>7. final'[m] = j /\ \A n \in Name : n # m => final'[n] = final[n]
    BY <1>1, <1>2, <1>3
  <1>8. \A t \in Tid : part'[t] # NoInode => part'[t] = part[t] /\ t # p
    BY <1>1, <1>2, <1>3
  <1>9. /\ file'[j] = file[j]
        /\ \A t \in Tid : part'[t] # NoInode => file'[part[t]] = file[part[t]]
        /\ \A n \in Name : n # m /\ final[n] # NoInode => file'[final[n]] = file[final[n]]
    BY <1>1, <1>3, <1>4, <1>7, <1>8
  <1>10. Apart'
    <2>1. \A n, k \in Name : final'[n] = final'[k] /\ final'[n] # NoInode => n = k
      BY <1>5, <1>7 DEF Apart
    <2>2. \A t \in Tid, n \in Name : part'[t] # NoInode => part'[t] # final'[n]
      BY <1>6, <1>7, <1>8 DEF Apart
    <2>. QED
      BY <2>1, <2>2 DEF Apart
  <1>11. Dated'
    <2>1. \A t \in Tid : part'[t] # NoInode => file'[part'[t]].mtime = Now
      BY <1>8, <1>9 DEF Dated
    <2>2. ASSUME NEW v \in Sig, final'[FileName[v]] # NoInode,
                 file'[final'[FileName[v]]].bytes = Whole(v)
          PROVE  file'[final'[FileName[v]]].mtime \in {Now, SourceMtime[v]}
      <3>1. FileName[v] \in Name
        BY ManifestAssumption
      <3>2. CASE FileName[v] = m
        BY <1>5, <1>7, <1>9, <3>2
      <3>3. CASE FileName[v] # m
        BY <1>7, <1>9, <2>2, <3>1, <3>3 DEF Dated
      <3>. QED
        BY <3>2, <3>3
    <2>. QED
      BY <2>1, <2>2 DEF Dated
  <1>12. InPlace(s)'
    BY <1>1, <1>7, <1>9 DEF InPlace, m
  <1>13. ASSUME NEW v \in Sig, InPlace(v), FileName[v] # m
         PROVE  InPlace(v)'
    BY <1>7, <1>9, <1>13, ManifestAssumption DEF InPlace
  <1>. QED
    BY <1>1, <1>7, <1>10, <1>11, <1>12, <1>13 DEF m

\* Only Place replaces a destination file.
LEMMA FilesStep ==
  ASSUME SoundInvariant, SoundInvariant', Apart, Dated, OneSigPerTid, ~PowerLoss, ~KeepPart,
         VersionsTold, [Next]_vars, ~ \E th \in Thread : Place(th)
  PROVE  FilesKept
  <1>1. ASSUME NEW x \in Sessions, NEW c \in Chunks(x[2]), Data(x[1], c, x[2])
        PROVE  FilesKept
    BY <1>1, DataKeeps, ManifestAssumption
  <1>2. CASE OpenPart \/ TruncatePart
    BY <1>2, OpenKeeps, TruncateKeeps
  <1>3. CASE MarkFinalized
    BY <1>3, QuietFiles DEF MarkFinalized
  <1>4. ASSUME NEW th \in Thread, Finish(th)
        PROVE  FilesKept
    <2>1. UNCHANGED <<part, final>> /\ \E held : file' = Reclaim(file, held)
      BY <1>4 DEF Finish
    <2>. QED
      BY <2>1, QuietFiles
  <1>5. CASE Restart
    <2>1. PICK lost \in SUBSET (IF PowerLoss THEN Unsynced ELSE {}) : \E held :
            file' = Reclaim(Surviving(lost), held)
      BY <1>5 DEF Restart
    <2>2. lost = {}
      BY <2>1
    <2>3. UNCHANGED <<part, final>>
      BY <1>5 DEF Restart
    <2>4. ASSUME NEW i \in Inode, file[i] # Free
          PROVE  /\ Surviving(lost)[i].bytes = file[i].bytes
                 /\ Surviving(lost)[i].mtime = file[i].mtime
      <3>1. Surviving(lost)[i].bytes = file[i].bytes
        BY <2>2, <2>4, SurvivingAll DEF SoundInvariant, TypeInvariant
      <3>2. Surviving(lost)[i].mtime = file[i].mtime
        BY <2>4 DEF Surviving
      <3>. QED
        BY <3>1, <3>2
    <2>. QED
      BY <2>1, <2>3, <2>4, QuietFiles
  <1>6. ASSUME NEW th \in Thread, Utime(th)
        PROVE  FilesKept
    BY <1>6, UtimeKeeps
  <1>7. ASSUME NEW th \in Thread, Hash(th) \/ Report(th)
        PROVE  UNCHANGED <<part, final, file>>
    BY <1>7 DEF Hash, Report, disk
  <1>8. ASSUME NEW x \in Sessions,
               MetadataOfPresentFile(x[1], x[2]) \/ MetadataOfOtherFile(x[1], x[2])
        PROVE  UNCHANGED <<part, final, file>>
    BY <1>8 DEF MetadataOfPresentFile, MetadataOfOtherFile, disk
  <1>9. ASSUME AnswerComplete \/ PrepareKnown \/ PrepareResume \/ PrepareCreate
                 \/ PutFinalization \/ TakeFinalization
                 \/ \E u \in Tid : DataWithoutFile(u) \/ Beacon(u) \/ StaleComplete(u)
        PROVE  UNCHANGED <<part, final, file>>
    BY <1>9 DEF AnswerComplete, PrepareKnown, PrepareResume, PrepareCreate, PutFinalization,
       TakeFinalization, DataWithoutFile, Beacon, StaleComplete, disk
  <1>10. ASSUME Maintenance \/ UNCHANGED vars
         PROVE  UNCHANGED <<part, final, file>>
    BY <1>10 DEF Maintenance, FlushJournal, FlushMmap, vars, disk
  <1>. QED
    BY <1>1, <1>2, <1>3, <1>4, <1>5, <1>6, <1>7, <1>8, <1>9, <1>10, SameFilesKept, WorkerSteps
    DEF Next, ReceiveThread

-----------------------------------------------------------------------------
(* The invariant of the refinement. *)

\* Only Place brings the worker to a version it has placed.
LEMMA StillPlaced ==
  ASSUME SoundInvariant, ~KeepPart, [Next]_vars, ~ \E th \in Thread : Place(th),
         fin'["worker"].pc \in {"utime", "finish", "report"}
  PROVE  /\ fin["worker"].pc \in {"utime", "finish", "report"}
         /\ fin'["worker"].sig = fin["worker"].sig
  <1>. DEFINE Goal == /\ fin["worker"].pc \in {"utime", "finish", "report"}
                      /\ fin'["worker"].sig = fin["worker"].sig
  <1>1. /\ fin \in [Thread -> FinRec] /\ "worker" \in Thread /\ fin["worker"] \in FinRec
        /\ "recv" \in Thread
    BY DEF SoundInvariant, TypeInvariant, TypeOK, Thread
  <1>2. CASE fin' = fin
    BY <1>2
  <1>3. CASE TakeFinalization
    <2>1. fin'["worker"] = Frame(Head(queue))
      BY <1>1, <1>3 DEF TakeFinalization
    <2>. QED
      BY <2>1 DEF Frame
  <1>4. CASE PutFinalization
    <2>1. fin'["worker"] = fin["worker"]
      BY <1>1, <1>4 DEF PutFinalization
    <2>. QED
      BY <2>1
  <1>5. CASE Restart
    BY <1>1, <1>5 DEF Restart, IdleFin
  <1>6. ASSUME NEW th \in Thread, Finalize(th)
        PROVE  Goal
    <2>1. /\ th = "worker"
          /\ Hash("worker") \/ Utime("worker") \/ Finish("worker") \/ Report("worker")
      BY <1>6, WorkerSteps
    <2>2. CASE Hash("worker")
      <3>1. \E pc : fin' = [fin EXCEPT !["worker"].pc = pc] /\ pc \in {"unlink", "link", "place"}
        BY <2>2 DEF Hash
      <3>2. fin'["worker"].pc \in {"unlink", "link", "place"}
        BY <1>1, <3>1 DEF FinRec
      <3>. QED
        BY <3>2
    <2>3. CASE Utime("worker")
      <3>1. /\ fin' = [fin EXCEPT !["worker"].pc = "finish", !["worker"].state = "COMPLETE"]
            /\ fin["worker"].pc = "utime"
        BY <2>3 DEF Utime
      <3>2. fin'["worker"].sig = fin["worker"].sig
        BY <1>1, <3>1 DEF FinRec
      <3>. QED
        BY <3>1, <3>2
    <2>4. CASE Finish("worker")
      <3>1. /\ fin' = [fin EXCEPT !["worker"].pc = "report", !["worker"].o = NoObj]
            /\ fin["worker"].pc = "finish"
        BY <2>4 DEF Finish
      <3>2. fin'["worker"].sig = fin["worker"].sig
        BY <1>1, <3>1 DEF FinRec
      <3>. QED
        BY <3>1, <3>2
    <2>5. CASE Report("worker")
      BY <1>1, <2>5 DEF Report, IdleFin
    <2>. QED
      BY <2>1, <2>2, <2>3, <2>4, <2>5
  <1>7. ASSUME NEW x \in Sessions,
               \/ MetadataOfPresentFile(x[1], x[2]) \/ MetadataOfOtherFile(x[1], x[2])
               \/ \E c \in Chunks(x[2]) : Data(x[1], c, x[2])
        PROVE  fin' = fin
    BY <1>7 DEF MetadataOfPresentFile, MetadataOfOtherFile, Data
  <1>8. ASSUME \/ AnswerComplete \/ PrepareKnown \/ PrepareResume \/ OpenPart \/ TruncatePart
               \/ PrepareCreate \/ MarkFinalized
               \/ \E u \in Tid : DataWithoutFile(u) \/ Beacon(u) \/ StaleComplete(u)
        PROVE  fin' = fin
    BY <1>8 DEF AnswerComplete, PrepareKnown, PrepareResume, OpenPart, TruncatePart,
       PrepareCreate, MarkFinalized, DataWithoutFile, Beacon, StaleComplete
  <1>9. ASSUME Maintenance \/ UNCHANGED vars
        PROVE  fin' = fin
    BY <1>9 DEF Maintenance, FlushJournal, FlushMmap, vars
  <1>. QED
    BY <1>2, <1>3, <1>4, <1>5, <1>6, <1>7, <1>8, <1>9 DEF Next, ReceiveThread

\* ObjectFacts of the next state.
LEMMA ObjectFactsNext ==
  ASSUME SoundInvariant', NEW o \in Obj, obj'[o] # NoObj
  PROVE  /\ obj'[o].tid \in Tid /\ obj'[o].sig \in Sig
         /\ transfers'[obj'[o].tid] = o /\ o # NoObj
         /\ <<obj'[o].tid, obj'[o].sig>> \in Sessions
  <1>1. obj'[o] \in TransferRec /\ o # NoObj
    BY NoneAssumption DEF SoundInvariant, TypeInvariant, TypeOK
  <1>2. obj'[o].tid \in Tid /\ obj'[o].sig \in Sig
    BY <1>1 DEF TransferRec
  <1>3. transfers'[obj'[o].tid] = o
    BY DEF SoundInvariant, Registered
  <1>. QED
    BY <1>1, <1>2, <1>3 DEF SoundInvariant, Keyed

\* An object that is done was done before, or has just been finished and is in
\* the table under an id other than the one it was finished under.
LEMMA DoneFrom ==
  ASSUME SoundInvariant, SoundInvariant', ~KeepPart, [Next]_vars,
         NEW q \in Obj, obj'[q] # NoObj, obj'[q].done
  PROVE  \/ obj[q] # NoObj /\ obj[q].done /\ obj[q].sig = obj'[q].sig
         \/ /\ fin["worker"].pc = "finish" /\ fin["worker"].sig = obj'[q].sig
            /\ fin["worker"].tid # obj'[q].tid /\ ~ \E th \in Thread : Place(th)
  <1>. DEFINE Before == obj[q] # NoObj /\ obj[q].done /\ obj[q].sig = obj'[q].sig
              Finished == /\ fin["worker"].pc = "finish" /\ fin["worker"].sig = obj'[q].sig
                          /\ fin["worker"].tid # obj'[q].tid /\ ~ \E h \in Thread : Place(h)
  <1>1. obj \in [Obj -> TransferRec \cup {NoObj}]
    BY DEF SoundInvariant, TypeInvariant, TypeOK
  <1>2. ASSUME UNCHANGED obj
        PROVE  Before
    BY <1>2
  <1>3. ASSUME NEW o \in Obj, NEW y, obj[o] # NoObj, obj' = [obj EXCEPT ![o] = y],
               y.done = obj[o].done, y.sig = obj[o].sig
        PROVE  Before
    BY <1>1, <1>3
  <1>4. ASSUME NEW o \in Obj, obj[o] # NoObj
        PROVE  obj[o] \in TransferRec
    BY <1>1, <1>4
  <1>5. ASSUME NEW t \in Tid, transfers[t] # NoObj
        PROVE  transfers[t] \in Obj /\ obj[transfers[t]] # NoObj
               /\ obj[transfers[t]] \in TransferRec
    BY <1>4, <1>5, TableFacts DEF SoundInvariant
  <1>6. ASSUME NEW x \in Sessions, NEW c \in Chunks(x[2]), Data(x[1], c, x[2])
        PROVE  Before
    <2>. DEFINE o == transfers[x[1]]
                z == obj[o]
                i == Target(z)
                lost == IF z.map # NoInode /\ file[i].bytes[c] = Hole THEN {c} ELSE {}
                got == z.got \cup {c}
                w == z.unsynced \cup lost
    <2>1. o # NoObj /\ obj' = [obj EXCEPT ![o] = [z EXCEPT !.got = got, !.unsynced = w]]
      BY <1>6 DEF Data
    <2>2. o \in Obj /\ z # NoObj /\ z \in TransferRec
      BY <1>5, <2>1, ManifestAssumption
    <2>. HIDE DEF got, w
    <2>. DEFINE y == [z EXCEPT !.got = got, !.unsynced = w]
    <2>3. y.done = z.done /\ y.sig = z.sig
      BY <2>2 DEF TransferRec
    <2>. HIDE DEF y, o
    <2>. QED
      BY <1>3, <2>1, <2>2, <2>3 DEF y
  <1>7. ASSUME NEW t \in Tid, FlushMmap(t)
        PROVE  Before
    <2>. DEFINE o == transfers[t]
                y == [obj[o] EXCEPT !.unsynced = {}]
    <2>1. o # NoObj /\ obj' = [obj EXCEPT ![o] = y]
      BY <1>7 DEF FlushMmap
    <2>2. o \in Obj /\ obj[o] # NoObj /\ obj[o] \in TransferRec
      BY <1>5, <2>1
    <2>3. y.done = obj[o].done /\ y.sig = obj[o].sig
      BY <2>2 DEF TransferRec
    <2>. HIDE DEF y, o
    <2>. QED
      BY <1>3, <2>1, <2>2, <2>3
  <1>8. ASSUME NEW t \in Tid, NEW a, transfers[t] # NoObj,
               obj' = [obj EXCEPT ![transfers[t]].addr = a]
        PROVE  Before
    <2>. DEFINE o == transfers[t]
                y == [obj[o] EXCEPT !.addr = a]
    <2>1. obj' = [obj EXCEPT ![o] = y]
      BY <1>8
    <2>2. o \in Obj /\ obj[o] # NoObj /\ obj[o] \in TransferRec
      BY <1>5, <1>8
    <2>3. y.done = obj[o].done /\ y.sig = obj[o].sig
      BY <2>2 DEF TransferRec
    <2>. HIDE DEF y, o
    <2>. QED
      BY <1>3, <2>1, <2>2, <2>3
  <1>9. CASE PrepareKnown
    <2>1. /\ recv.pc = "prepare" /\ transfers[recv.tid] # NoObj
          /\ \/ obj' = obj
             \/ \E a \in Addr : obj' = [obj EXCEPT ![transfers[recv.tid]].addr = a]
      BY <1>9 DEF PrepareKnown
    <2>2. recv.tid \in Tid
      BY <2>1 DEF SoundInvariant, TypeInvariant, StationsFilled
    <2>. QED
      BY <1>2, <1>8, <2>1, <2>2
  <1>10. ASSUME NEW t \in Tid, Beacon(t)
         PROVE  Before
    BY <1>8, <1>10 DEF Beacon
  <1>11. CASE PrepareResume
    <2>1. PICK a \in Addr :
            LET o == transfers[ResumableId(recv.sig)] IN
            obj' = [obj EXCEPT ![o].tid = recv.tid, ![o].addr = a]
      BY <1>11 DEF PrepareResume
    <2>. DEFINE prev == ResumableId(recv.sig)
                o == transfers[prev]
                y == [obj[o] EXCEPT !.tid = recv.tid, !.addr = a]
    <2>2. recv.sig \in Sig /\ prev # NoTid /\ obj' = [obj EXCEPT ![o] = y]
      BY <1>11, <2>1 DEF PrepareResume, SoundInvariant, TypeInvariant, StationsFilled
    <2>3. prev = sigIndex[recv.sig] /\ o # NoObj
      BY <2>2 DEF ResumableId
    <2>4. prev \in Tid
      BY <2>2, <2>3 DEF SoundInvariant, TypeInvariant, TypeOK
    <2>5. o \in Obj /\ obj[o] # NoObj /\ obj[o] \in TransferRec
      BY <1>5, <2>3, <2>4
    <2>6. y.done = obj[o].done /\ y.sig = obj[o].sig
      BY <2>5 DEF TransferRec
    <2>. HIDE DEF y, o
    <2>. QED
      BY <1>3, <2>2, <2>5, <2>6
  <1>12. CASE PrepareCreate
    <2>1. PICK o \in Obj : \E a, map :
            obj' = [obj EXCEPT ![o] = Transfer(recv.tid, recv.sig, recv.tid, a, {}, map)]
      BY <1>12 DEF PrepareCreate
    <2>2. q # o
      BY <1>1, <2>1 DEF Transfer
    <2>3. obj'[q] = obj[q]
      BY <1>1, <2>1, <2>2
    <2>. QED
      BY <2>3
  <1>13. CASE MarkFinalized
    <2>. DEFINE o == recv.o
                y == [obj[o] EXCEPT !.finalized = TRUE, !.map = NoInode, !.unsynced = {}]
    <2>1. o \in Obj /\ obj[o] # NoObj /\ obj[o] \in TransferRec
      BY <1>13, NoneAssumption
      DEF MarkFinalized, SoundInvariant, TypeInvariant, TypeOK, StationsFilled, ReferencesAllocated
    <2>2. obj' = obj \/ obj' = [obj EXCEPT ![o] = y]
      BY <1>13 DEF MarkFinalized
    <2>3. y.done = obj[o].done /\ y.sig = obj[o].sig
      BY <2>1 DEF TransferRec
    <2>. HIDE DEF y, o
    <2>. QED
      BY <1>2, <1>3, <2>1, <2>2, <2>3
  <1>14. CASE Restart
    BY <1>14, RestoredPlain
  <1>15. CASE Finish("worker")
    <2>. DEFINE f == fin["worker"]
                y == [obj[f.o] EXCEPT !.done = (f.state = "COMPLETE")]
                marked == [obj EXCEPT ![f.o] = y]
    <2>1. /\ transfers' = [transfers EXCEPT ![f.tid] = NoObj] /\ f.pc = "finish"
          /\ obj' = Referenced(marked, transfers', fin')
      BY <1>15 DEF Finish
    <2>2. f.o \in Obj /\ obj[f.o] # NoObj /\ f.tid \in Tid /\ obj[f.o].sig = f.sig
      BY <2>1, HeldObject DEF Thread
    <2>3. y.sig = f.sig
      BY <1>4, <2>2 DEF TransferRec
    <2>. HIDE DEF y
    <2>4. \A p \in Obj : marked[p] = IF p = f.o THEN y ELSE obj[p]
      BY <1>1, <2>2
    <2>. HIDE DEF marked
    <2>5. obj'[q] = marked[q]
      BY <2>1 DEF Referenced
    <2>6. CASE q # f.o
      BY <2>4, <2>5, <2>6
    <2>7. CASE q = f.o
      <3>1. obj'[q].tid \in Tid /\ transfers'[obj'[q].tid] = q /\ q # NoObj
        BY ObjectFactsNext
      <3>2. transfers'[f.tid] = NoObj
        BY <2>1, <2>2 DEF SoundInvariant, TypeInvariant, TypeOK
      <3>3. obj'[q].sig = f.sig
        BY <2>3, <2>4, <2>5, <2>7
      <3>4. ASSUME NEW h \in Thread, Place(h) PROVE FALSE
        BY <2>1, <3>4, WorkerOnly DEF Place
      <3>. QED
        BY <2>1, <3>1, <3>2, <3>3, <3>4
    <2>. QED
      BY <2>6, <2>7
  <1>16. ASSUME NEW th \in Thread, Hash(th) \/ Place(th) \/ Utime(th) \/ Report(th)
         PROVE  Before
    BY <1>2, <1>16 DEF Hash, Place, Utime, Report
  <1>17. ASSUME NEW x \in Sessions,
                MetadataOfPresentFile(x[1], x[2]) \/ MetadataOfOtherFile(x[1], x[2])
         PROVE  Before
    BY <1>2, <1>17 DEF MetadataOfPresentFile, MetadataOfOtherFile
  <1>18. ASSUME \/ AnswerComplete \/ OpenPart \/ TruncatePart \/ PutFinalization
                \/ TakeFinalization \/ FlushJournal \/ UNCHANGED vars
                \/ \E u \in Tid : DataWithoutFile(u) \/ StaleComplete(u)
         PROVE  Before
    BY <1>2, <1>18 DEF AnswerComplete, OpenPart, TruncatePart, PutFinalization, TakeFinalization,
       FlushJournal, DataWithoutFile, StaleComplete, vars
  <1>. QED
    BY <1>6, <1>7, <1>9, <1>10, <1>11, <1>12, <1>13, <1>14, <1>15, <1>16, <1>17, <1>18, WorkerSteps
    DEF Next, ReceiveThread, Maintenance

LEMMA DeliveryStep ==
  ASSUME DeliveryInvariant, OneSigPerTid, ~PowerLoss, ~KeepPart, VersionsTold, ResentAlone,
         [Next]_vars
  PROVE  DeliveryInvariant'
  <1>1. SoundInvariant /\ SoundInvariant' /\ Apart /\ Dated
    BY SoundStep DEF DeliveryInvariant
  <1>2. CASE \E th \in Thread : Place(th)
    <2>1. PICK th \in Thread : Place(th)
      BY <1>2
    <2>2. PICK s : s = fin[th].sig
      OBVIOUS
    <2>3. /\ fin[th].pc = "place" /\ UNCHANGED obj
          /\ fin' = [fin EXCEPT ![th].pc = "utime"]
      BY <2>1 DEF Place
    <2>4. th = "worker"
      BY <1>1, <2>3, WorkerOnly
    <2>5. /\ s \in Sig /\ Apart' /\ Dated' /\ InPlace(s)'
          /\ \A v \in Sig : InPlace(v) /\ FileName[v] # FileName[s] => InPlace(v)'
      BY <1>1, <2>1, <2>2, PlaceKeeps
    <2>6. fin'["worker"].sig = s
      BY <1>1, <2>2, <2>3, <2>4 DEF SoundInvariant, TypeInvariant, TypeOK, Thread, FinRec
    <2>7. Placed'
      BY <2>5, <2>6 DEF Placed, InPlace
    <2>8. <<fin[th].part, s>> \in Sessions
      BY <1>1, <2>2, <2>3, HeldObject
    <2>9. ASSUME NEW q \in Obj, obj'[q] # NoObj, obj'[q].done
          PROVE  InPlace(obj[q].sig)' /\ Alone(obj'[q].sig)
      <3>1. PICK v : v = obj[q].sig
        OBVIOUS
      <3>2. v \in Sig /\ InPlace(v) /\ Alone(v) /\ obj'[q].sig = v
        BY <1>1, <2>3, <2>9, <3>1, ObjectFacts DEF DeliveryInvariant, SoundInvariant, DoneInPlace
      <3>3. InPlace(v)'
        <4>1. CASE FileName[v] # FileName[s]
          BY <2>5, <3>2, <4>1
        <4>2. CASE FileName[v] = FileName[s]
          <5>1. \E x \in Sessions : x[2] = s
            BY <2>8
          <5>2. s = v
            BY <3>2, <4>2, <5>1 DEF Alone
          <5>. QED
            BY <2>5, <5>2
        <4>. QED
          BY <4>1, <4>2
      <3>. QED
        BY <3>1, <3>2, <3>3 DEF InPlace
    <2>10. DoneInPlace'
      BY <2>3, <2>9 DEF DoneInPlace, InPlace, Alone
    <2>. QED
      BY <1>1, <2>5, <2>7, <2>10 DEF DeliveryInvariant
  <1>3. CASE ~ \E th \in Thread : Place(th)
    <2>1. FinalsKept /\ Apart' /\ Dated'
      BY <1>1, <1>3, FilesStep DEF FilesKept
    <2>2. ASSUME fin'["worker"].pc \in {"utime", "finish", "report"}
          PROVE  InPlace(fin["worker"].sig)'
      <3>1. PICK s : s = fin["worker"].sig
        OBVIOUS
      <3>2. s \in Sig /\ InPlace(s) /\ fin'["worker"].sig = s
        BY <1>1, <1>3, <2>2, <3>1, StillPlaced
        DEF DeliveryInvariant, SoundInvariant, TypeInvariant, StationsFilled, Placed, Thread
      <3>3. InPlace(s)'
        BY <2>1, <3>2, InPlaceKept
      <3>. QED
        BY <3>2, <3>3 DEF InPlace
    <2>3. ASSUME NEW q \in Obj, obj'[q] # NoObj, obj'[q].done
          PROVE  InPlace(obj[q].sig)' /\ Alone(obj'[q].sig)
      <3>1. PICK s : s = obj'[q].sig
        OBVIOUS
      <3>2. /\ s \in Sig /\ obj'[q].tid \in Tid /\ <<obj'[q].tid, s>> \in Sessions
        BY <1>1, <2>3, <3>1, ObjectFactsNext
      <3>3. InPlace(s) /\ Alone(s)
        <4>1. CASE obj[q] # NoObj /\ obj[q].done /\ obj[q].sig = s
          BY <4>1 DEF DeliveryInvariant, DoneInPlace
        <4>2. CASE /\ fin["worker"].pc = "finish" /\ fin["worker"].sig = s
                   /\ fin["worker"].tid # obj'[q].tid
          <5>1. InPlace(s)
            BY <4>2 DEF DeliveryInvariant, Placed
          <5>2. <<fin["worker"].tid, s>> \in Sessions
            BY <1>1, <4>2, HeldObject DEF Thread
          <5>3. Alone(s)
            BY <3>2, <4>2, <5>2 DEF ResentAlone
          <5>. QED
            BY <5>1, <5>3
        <4>. QED
          BY <1>1, <2>3, <3>1, <4>1, <4>2, DoneFrom
      <3>4. InPlace(s)'
        BY <2>1, <3>2, <3>3, InPlaceKept
      <3>. QED
        BY <3>1, <3>3, <3>4 DEF InPlace
    <2>4. Placed'
      BY <2>2 DEF Placed, InPlace
    <2>5. DoneInPlace'
      BY <2>3 DEF DoneInPlace, InPlace, Alone
    <2>. QED
      BY <1>1, <2>1, <2>4, <2>5 DEF DeliveryInvariant
  <1>. QED
    BY <1>2, <1>3

-----------------------------------------------------------------------------
(* The refinement. *)

\* The version found in place for an answer not yet given.
Found == IF recv.pc = "answer" THEN recv.sig ELSE NoSig

\* A step that answers COMPLETE finds the version in place, or found it so.
Answers ==
  \/ told' = told
  \/ \E t \in Tid, s \in Sig, state \in State :
       /\ told' = Tell(t, s, state)
       /\ \/ state = "COMPLETE" => InPlace(s)
          \/ Found = s /\ Found' = NoSig

\* What is found is in place; it is forgotten, or kept until the answer.
Finds ==
  \/ Found' = Found
  \/ told' = told /\ \E s \in Sig : Found' = s /\ InPlace(s)
  \/ told' = told /\ Found' = NoSig
  \/ Found' = NoSig /\ \E t \in Tid, state \in State : told' = Tell(t, Found, state)

LEMMA AdvertiseAnswers ==
  ASSUME DeliveryInvariant, NEW t \in Tid, NEW o \in Obj, obj[o] # NoObj, Advertise(t, o)
  PROVE  Answers
  <1>1. obj[o].sig \in Sig
    BY ObjectFacts DEF DeliveryInvariant, SoundInvariant
  <1>2. "COMPLETE" \in State /\ "INCOMPLETE" \in State
    BY DEF State
  <1>3. CASE told' = told
    BY <1>3 DEF Answers
  <1>4. CASE told' = Tell(t, obj[o].sig, "COMPLETE") /\ obj[o].done
    BY <1>1, <1>2, <1>4 DEF Answers, DeliveryInvariant, DoneInPlace
  <1>5. CASE told' = Tell(t, obj[o].sig, "INCOMPLETE")
    BY <1>1, <1>2, <1>5 DEF Answers
  <1>. QED
    BY <1>3, <1>4, <1>5 DEF Advertise

\* Where the receive thread says something, and where it looks.
LEMMA AnswersStep ==
  ASSUME DeliveryInvariant, OneSigPerTid, ~KeepPart, VersionsTold, [Next]_vars
  PROVE  Answers /\ Finds
  <1>. USE DEF DeliveryInvariant
  <1>1. recv \in RecvRec
    BY DEF SoundInvariant, TypeInvariant, TypeOK
  <1>2. ASSUME told' = told, recv' = recv \/ recv'.pc # "answer"
        PROVE  Answers /\ Finds
    BY <1>2 DEF Answers, Finds, Found
  <1>3. "COMPLETE" \in State
    BY DEF State
  <1>4. ASSUME NEW x \in Sessions, MetadataOfPresentFile(x[1], x[2])
        PROVE  Answers /\ Finds
    <2>1. x[1] \in Tid /\ x[2] \in Sig
      BY ManifestAssumption
    <2>2. told' = told /\ Matches(x[2]) /\ recv'.pc = "answer" /\ recv'.sig = x[2]
      BY <1>4 DEF MetadataOfPresentFile
    <2>3. InPlace(x[2])
      BY <2>1, <2>2, MatchInPlace
    <2>. QED
      BY <2>1, <2>2, <2>3 DEF Answers, Finds, Found
  <1>5. CASE AnswerComplete
    <2>1. /\ recv.pc = "answer" /\ recv'.pc = "idle"
          /\ told' = Tell(recv.tid, recv.sig, "COMPLETE")
      BY <1>5 DEF AnswerComplete, IdleRecv
    <2>2. recv.tid \in Tid /\ recv.sig \in Sig
      BY <2>1 DEF SoundInvariant, TypeInvariant, StationsFilled
    <2>3. Found = recv.sig /\ Found' = NoSig
      BY <2>1 DEF Found
    <2>. QED
      BY <1>3, <2>1, <2>2, <2>3 DEF Answers, Finds
  <1>6. CASE PrepareKnown
    <2>. DEFINE o == transfers[recv.tid]
    <2>1. /\ recv.pc = "prepare" /\ recv'.pc = "idle"
          /\ o # NoObj /\ (told' = told \/ Advertise(recv.tid, o)) /\ recv.tid \in Tid
      BY <1>6 DEF PrepareKnown, IdleRecv, SoundInvariant, TypeInvariant, StationsFilled
    <2>2. o \in Obj /\ obj[o] # NoObj
      BY <2>1, TableFacts DEF SoundInvariant
    <2>3. Answers
      BY <1>2, <2>1, <2>2, AdvertiseAnswers
    <2>. QED
      BY <2>1, <2>3 DEF Finds, Found
  <1>7. CASE PrepareResume
    <2>. DEFINE prev == ResumableId(recv.sig)
                o == transfers[prev]
    <2>1. /\ recv.pc = "prepare" /\ recv'.pc = "idle"
          /\ recv.sig \in Sig /\ prev # NoTid /\ Advertise(recv.tid, o) /\ recv.tid \in Tid
      BY <1>7 DEF PrepareResume, IdleRecv, SoundInvariant, TypeInvariant, StationsFilled
    <2>2. prev = sigIndex[recv.sig] /\ o # NoObj
      BY <2>1 DEF ResumableId
    <2>3. prev \in Tid
      BY <2>1, <2>2 DEF SoundInvariant, TypeInvariant, TypeOK
    <2>4. o \in Obj /\ obj[o] # NoObj
      BY <2>2, <2>3, TableFacts DEF SoundInvariant
    <2>5. Answers
      BY <2>1, <2>4, AdvertiseAnswers
    <2>. QED
      BY <2>1, <2>5 DEF Finds, Found
  <1>8. ASSUME NEW th \in Thread, Finalize(th)
        PROVE  Answers /\ Finds
    <2>. DEFINE f == fin["worker"]
    <2>1. /\ th = "worker"
          /\ \/ Hash("worker") \/ Place("worker") \/ Utime("worker") \/ Finish("worker")
             \/ Report("worker")
      BY <1>8, WorkerSteps
    <2>2. recv' = recv
      BY <2>1 DEF Hash, Place, Utime, Finish, Report
    <2>3. CASE Report("worker")
      <3>1. f.pc = "report" /\ told' = Tell(f.tid, f.sig, f.state)
        BY <2>3 DEF Report
      <3>2. f.tid \in Tid /\ f.sig \in Sig /\ f.state \in State
        BY <3>1 DEF SoundInvariant, TypeInvariant, TypeOK, StationsFilled, Thread, FinRec
      <3>3. InPlace(f.sig)
        BY <3>1 DEF Placed
      <3>. QED
        BY <2>2, <3>1, <3>2, <3>3 DEF Answers, Finds, Found
    <2>4. CASE ~Report("worker")
      BY <1>2, <2>1, <2>2, <2>4 DEF Hash, Place, Utime, Finish
    <2>. QED
      BY <2>3, <2>4
  <1>9. ASSUME NEW x \in Sessions, MetadataOfOtherFile(x[1], x[2])
        PROVE  Answers /\ Finds
    BY <1>2, <1>9 DEF MetadataOfOtherFile
  <1>10. ASSUME NEW x \in Sessions, NEW c \in Chunks(x[2]), Data(x[1], c, x[2])
         PROVE  Answers /\ Finds
    <2>1. told' = told /\ (recv' = recv \/ \E o : recv' = [IdleRecv EXCEPT !.pc = "full", !.o = o])
      BY <1>10 DEF Data
    <2>. QED
      BY <1>2, <2>1 DEF IdleRecv
  <1>11. CASE OpenPart \/ TruncatePart
    <2>1. told' = told /\ \E pc \in {"truncate", "map"} : recv' = [recv EXCEPT !.pc = pc]
      BY <1>11 DEF OpenPart, TruncatePart
    <2>. QED
      BY <1>1, <1>2, <2>1 DEF RecvRec
  <1>12. CASE PrepareCreate
    <2>1. /\ told' = told
          /\ \/ recv' = [recv EXCEPT !.pc = "dead"] \/ recv' = IdleRecv
             \/ \E o : recv' = [IdleRecv EXCEPT !.pc = "full", !.o = o]
      BY <1>12 DEF PrepareCreate
    <2>2. CASE recv' = [recv EXCEPT !.pc = "dead"]
      <3>1. recv'.pc = "dead"
        BY <1>1, <2>2 DEF RecvRec
      <3>. QED
        BY <1>2, <2>1, <3>1
    <2>3. CASE recv' = IdleRecv
      BY <1>2, <2>1, <2>3 DEF IdleRecv
    <2>4. CASE \E o : recv' = [IdleRecv EXCEPT !.pc = "full", !.o = o]
      BY <1>2, <2>1, <2>4 DEF IdleRecv
    <2>. QED
      BY <2>1, <2>2, <2>3, <2>4
  <1>13. CASE MarkFinalized
    <2>1. told' = told /\ (recv' = IdleRecv \/ recv' = [recv EXCEPT !.pc = "put"])
      BY <1>13 DEF MarkFinalized
    <2>. QED
      BY <1>1, <1>2, <2>1 DEF RecvRec, IdleRecv
  <1>14. CASE PutFinalization \/ TakeFinalization \/ Restart
    BY <1>2, <1>14 DEF PutFinalization, TakeFinalization, Restart, IdleRecv
  <1>15. ASSUME NEW u \in Tid, DataWithoutFile(u) \/ Beacon(u) \/ StaleComplete(u)
         PROVE  Answers /\ Finds
    <2>1. CASE DataWithoutFile(u)
      BY <1>2, <2>1 DEF DataWithoutFile
    <2>2. CASE Beacon(u)
      BY <1>2, <2>2 DEF Beacon
    <2>3. CASE StaleComplete(u)
      <3>1. told' = told /\ \E o : recv' = [IdleRecv EXCEPT !.pc = "full", !.o = o]
        BY <2>3 DEF StaleComplete
      <3>. QED
        BY <1>2, <3>1 DEF IdleRecv
    <2>. QED
      BY <1>15, <2>1, <2>2, <2>3
  <1>16. CASE Maintenance \/ UNCHANGED vars
    BY <1>2, <1>16 DEF Maintenance, FlushJournal, FlushMmap, vars
  <1>. QED
    BY <1>4, <1>5, <1>6, <1>7, <1>8, <1>9, <1>10, <1>11, <1>12, <1>13, <1>14, <1>15, <1>16
    DEF Next, ReceiveThread

\* What a reader sees, as Delivery has it.
Visible == [n \in Name |-> VisibleVersion(n)]

LEMMA VisibleKept ==
  ASSUME SoundInvariant, ~KeepPart, VersionsTold, FinalsKept
  PROVE  Visible' = Visible
  <1>1. ASSUME NEW n \in Name
        PROVE  VisibleVersion(n)' = VisibleVersion(n)
    <2>1. CASE final[n] = NoInode
      BY <2>1, VisibleIs, VisibleWillBe DEF FinalsKept
    <2>2. CASE final[n] # NoInode
      <3>1. PICK s \in Sig : FileName[s] = n /\ InPlace(s)
        BY <2>2, SomeInPlace
      <3>2. InPlace(s)'
        BY <3>1, InPlaceKept
      <3>3. VisibleVersion(FileName[s]) = s /\ VisibleVersion(FileName[s])' = s
        BY <3>1, <3>2, VisibleIs, VisibleWillBe
      <3>. QED
        BY <3>1, <3>3
    <2>. QED
      BY <2>1, <2>2
  <1>. QED
    BY <1>1 DEF Visible

LEMMA VisiblePlaced ==
  ASSUME SoundInvariant, SoundInvariant', ~KeepPart, Apart, Dated, OneSigPerTid, VersionsTold,
         NEW th \in Thread, Place(th)
  PROVE  /\ \E s \in Sig : Visible' = [Visible EXCEPT ![FileName[s]] = s]
         /\ told' = told /\ Found' = Found
  <1>1. PICK s : s = fin[th].sig
    OBVIOUS
  <1>2. /\ s \in Sig /\ FileName[s] \in Name /\ InPlace(s)'
        /\ \A n \in Name : n # FileName[s] => final'[n] = final[n]
        /\ \A v \in Sig : InPlace(v) /\ FileName[v] # FileName[s] => InPlace(v)'
    BY <1>1, PlaceKeeps
  <1>3. VisibleVersion(FileName[s])' = s
    BY <1>2, VisibleWillBe
  <1>4. ASSUME NEW n \in Name, n # FileName[s]
        PROVE  VisibleVersion(n)' = VisibleVersion(n)
    <2>1. CASE final[n] = NoInode
      BY <1>2, <1>4, <2>1, VisibleIs, VisibleWillBe
    <2>2. CASE final[n] # NoInode
      <3>1. PICK v \in Sig : FileName[v] = n /\ InPlace(v)
        BY <2>2, SomeInPlace
      <3>2. InPlace(v)'
        BY <1>2, <1>4, <3>1
      <3>3. VisibleVersion(FileName[v]) = v /\ VisibleVersion(FileName[v])' = v
        BY <3>1, <3>2, VisibleIs, VisibleWillBe
      <3>. QED
        BY <3>1, <3>3
    <2>. QED
      BY <2>1, <2>2
  <1>5. Visible' = [n \in Name |-> IF n = FileName[s] THEN s ELSE VisibleVersion(n)]
    BY <1>3, <1>4 DEF Visible
  <1>6. Visible' = [Visible EXCEPT ![FileName[s]] = s]
    BY <1>2, <1>5 DEF Visible
  <1>7. told' = told /\ recv' = recv
    BY DEF Place
  <1>. QED
    BY <1>2, <1>6, <1>7 DEF Found

LEMMA FoundTyped ==
  ASSUME SoundInvariant
  PROVE  Found \in Sig \cup {NoSig}
  BY DEF Found, SoundInvariant, TypeInvariant, StationsFilled

\* Each step of the receiver is a delivery, a look, a truthful answer or invisible.
LEMMA PromiseStep ==
  ASSUME DeliveryInvariant, OneSigPerTid, ~PowerLoss, ~KeepPart, VersionsTold, [Next]_vars
  PROVE  [Promise!Next]_(Promise!vars)
  <1>1. SoundInvariant /\ SoundInvariant' /\ Apart /\ Dated
    BY SoundStep DEF DeliveryInvariant
  <1>2. CASE \E th \in Thread : Place(th)
    <2>1. /\ \E s \in Sig : Visible' = [Visible EXCEPT ![FileName[s]] = s]
          /\ told' = told /\ Found' = Found
      BY <1>1, <1>2, VisiblePlaced
    <2>2. PICK s \in Sig : Visible' = [Visible EXCEPT ![FileName[s]] = s]
      BY <2>1
    <2>3. Promise!Deliver(s)
      BY <2>1, <2>2 DEF Promise!Deliver, Visible, Found
    <2>. QED
      BY <2>3 DEF Promise!Next
  <1>3. CASE ~ \E th \in Thread : Place(th)
    <2>1. Visible' = Visible
      BY <1>1, <1>3, FilesStep, VisibleKept DEF FilesKept
    <2>2. Answers /\ Finds
      BY AnswersStep
    <2>3. ASSUME NEW s \in Sig, InPlace(s)
          PROVE  Visible[FileName[s]] = s
      BY <2>3, VisibleIs, ManifestAssumption DEF Visible
    <2>4. CASE told' = told
      <3>1. CASE Found' = Found
        BY <2>1, <2>4, <3>1 DEF Promise!vars, Visible, Found
      <3>2. ASSUME NEW s \in Sig, Found' = s, InPlace(s)
            PROVE  Promise!Find(s)
        BY <2>1, <2>3, <2>4, <3>2 DEF Promise!Find, Visible, Found
      <3>3. CASE Found' = NoSig
        <4>1. Promise!Forget
          BY <2>1, <2>4, <3>3 DEF Promise!Forget, Visible, Found
        <4>. QED
          BY <4>1 DEF Promise!Next
      <3>. QED
        BY <2>2, <3>1, <3>2, <3>3 DEF Finds, Promise!Next
    <2>5. CASE told' # told
      <3>1. PICK t \in Tid, s \in Sig, state \in State :
              /\ told' = Tell(t, s, state)
              /\ \/ state = "COMPLETE" => InPlace(s)
                 \/ Found = s /\ Found' = NoSig
        BY <2>2, <2>5 DEF Answers
      <3>2. told' = [told EXCEPT ![t] = [sig |-> s, state |-> state]]
        BY <2>5, <3>1 DEF Tell
      <3>3. CASE Found' = Found
        <4>1. \/ state # "COMPLETE" /\ Found' = Found
              \/ Visible[FileName[s]] = s /\ Found' = Found
              \/ Found = s /\ Found' = NoSig
          BY <2>3, <3>1, <3>3
        <4>2. Promise!Respond(t, s, state)
          BY <2>1, <3>2, <4>1 DEF Promise!Respond, Visible, Found
        <4>. QED
          BY <4>2 DEF Promise!Next, State
      <3>4. CASE Found' # Found
        <4>1. Found' = NoSig /\ Found \in Sig
          BY <2>2, <2>5, <3>4, FoundTyped DEF Finds, DeliveryInvariant
        <4>2. PICK u \in Tid, st \in State : told' = Tell(u, Found, st)
          BY <2>2, <2>5, <3>4 DEF Finds
        <4>3. told' = [told EXCEPT ![u] = [sig |-> Found, state |-> st]]
          BY <2>5, <4>2 DEF Tell
        <4>4. Promise!Respond(u, Found, st)
          BY <2>1, <4>1, <4>3 DEF Promise!Respond, Visible, Found
        <4>. QED
          BY <4>1, <4>4 DEF Promise!Next, State
      <3>. QED
        BY <3>3, <3>4
    <2>. QED
      BY <2>4, <2>5
  <1>. QED
    BY <1>2, <1>3

LEMMA PromiseInit == Init => Promise!Init
  BY DEF Init, Promise!Init, VisibleVersion, IdleRecv

LEMMA DeliveryInit == Init => DeliveryInvariant
  <1>. SUFFICES ASSUME Init PROVE DeliveryInvariant
    OBVIOUS
  <1>1. SoundInvariant
    BY SoundInit
  <1>2. Apart /\ Dated
    BY ManifestAssumption DEF Init, Apart, Dated
  <1>3. Placed /\ DoneInPlace
    BY DEF Init, Placed, DoneInPlace, IdleFin, Thread
  <1>. QED
    BY <1>1, <1>2, <1>3 DEF DeliveryInvariant

\* The receiver implements Delivery: a destination name goes from one whole
\* version to another in one step, and COMPLETE is answered for a version that is
\* in place, or was when the METADATA now answered was looked at.  Versions of a
\* name must be told by size and modification time, which is all the match check of
\* METADATA compares; a version sent again under a second id must be the only one
\* of its name; and part files are not kept.
THEOREM DeliveryImplemented ==
  ASSUME OneSigPerTid, ~PowerLoss, ~KeepPart, VersionsTold, ResentAlone
  PROVE  Spec => DeliversTruthfully
  <1>1. Init => DeliveryInvariant /\ Promise!Init
    BY DeliveryInit, PromiseInit
  <1>2. DeliveryInvariant /\ [Next]_vars => DeliveryInvariant' /\ [Promise!Next]_(Promise!vars)
    BY DeliveryStep, PromiseStep
  <1>. QED
    BY <1>1, <1>2, PTL DEF Spec, DeliversTruthfully, Promise!Spec
=============================================================================
