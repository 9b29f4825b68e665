--------------------------- MODULE SahPoolProofs ---------------------------
(***************************************************************************)
(* Proofs about the OPFS pool of SahPool, for any number of names, slots   *)
(* and open files and any capacities.                                      *)
(***************************************************************************)
EXTENDS SahPool, FiniteSetTheorems, TLAPS

-----------------------------------------------------------------------------
(* Stacks of slots *)

\* Pushing a new element on a stack without repetitions.
LEMMA PushFacts ==
    ASSUME NEW S, NEW q \in Seq(S), NEW x \in S
    PROVE  /\ Append(q, x) \in Seq(S)
           /\ Range(Append(q, x)) = Range(q) \cup {x}
           /\ IsInjective(q) /\ x \notin Range(q) => IsInjective(Append(q, x))
           /\ Append(q, x) # <<>>
           /\ Last(Append(q, x)) = x
  BY DEF Range, IsInjective, Last

\* Popping the top of a stack without repetitions.
LEMMA PopFacts ==
    ASSUME NEW S, NEW q \in Seq(S), q # <<>>
    PROVE  /\ Front(q) \in Seq(S)
           /\ Last(q) \in S
           /\ Last(q) \in Range(q)
           /\ Len(Front(q)) = Len(q) - 1
           /\ IsInjective(q) => /\ IsInjective(Front(q))
                                /\ Range(Front(q)) = Range(q) \ {Last(q)}
  <1>1. /\ Len(q) \in Nat \ {0}
        /\ DOMAIN q = 1..Len(q)
        /\ Front(q) = [i \in 1..(Len(q) - 1) |-> q[i]]
    BY DEF Front
  <1>2. /\ Front(q) \in Seq(S)
        /\ Last(q) \in S
        /\ Last(q) \in Range(q)
        /\ Len(Front(q)) = Len(q) - 1
    BY <1>1 DEF Range, Last, Front
  <1>3. ASSUME IsInjective(q)
        PROVE  IsInjective(Front(q))
    BY <1>1, <1>3 DEF IsInjective
  <1>4. ASSUME IsInjective(q)
        PROVE  Range(Front(q)) = Range(q) \ {Last(q)}
    <2>1. \A i \in 1..(Len(q) - 1) : q[i] # q[Len(q)]
      BY <1>1, <1>4 DEF IsInjective
    <2>. QED  BY <1>1, <2>1 DEF Range, Last
  <1>. QED  BY <1>2, <1>3, <1>4

\* Pushing all of another stack.
LEMMA PushAllFacts ==
    ASSUME NEW S, NEW q \in Seq(S), NEW r \in Seq(S)
    PROVE  /\ q \o r \in Seq(S)
           /\ Len(q \o r) = Len(q) + Len(r)
           /\ Range(q \o r) = Range(q) \cup Range(r)
           /\ IsInjective(q) /\ IsInjective(r) /\ Range(q) \cap Range(r) = {}
                => IsInjective(q \o r)
  <1>1. /\ DOMAIN q = 1..Len(q) /\ DOMAIN r = 1..Len(r)
        /\ DOMAIN (q \o r) = 1..(Len(q) + Len(r))
        /\ Len(q) \in Nat /\ Len(r) \in Nat
        /\ \A i \in 1..Len(q) : (q \o r)[i] = q[i]
        /\ \A i \in 1..Len(r) : (q \o r)[Len(q) + i] = r[i]
        /\ \A i \in (Len(q) + 1)..(Len(q) + Len(r)) :
              i - Len(q) \in 1..Len(r) /\ (q \o r)[i] = r[i - Len(q)]
    OBVIOUS
  <1>2. q \o r \in Seq(S) /\ Len(q \o r) = Len(q) + Len(r)
    OBVIOUS
  <1>3. Range(q \o r) = Range(q) \cup Range(r)
    <2>1. Range(q \o r) \subseteq Range(q) \cup Range(r)
      BY <1>1 DEF Range
    <2>2. Range(q) \subseteq Range(q \o r)
      BY <1>1 DEF Range
    <2>3. Range(r) \subseteq Range(q \o r)
      BY <1>1 DEF Range
    <2>. QED  BY <2>1, <2>2, <2>3
  <1>4. ASSUME IsInjective(q), IsInjective(r), Range(q) \cap Range(r) = {},
               NEW i \in DOMAIN (q \o r), NEW j \in DOMAIN (q \o r),
               (q \o r)[i] = (q \o r)[j]
        PROVE  i = j
    <2>1. i \in 1..(Len(q) + Len(r)) /\ j \in 1..(Len(q) + Len(r))
      BY <1>1
    <2>2. \A k \in 1..Len(q), l \in 1..Len(r) : q[k] # r[l]
      BY <1>1, <1>4 DEF Range
    <2>3. CASE i <= Len(q) /\ j <= Len(q)
      BY <1>1, <1>4, <2>1, <2>3 DEF IsInjective
    <2>4. CASE i > Len(q) /\ j > Len(q)
      <3>1. i - Len(q) = j - Len(q)
        BY <1>1, <1>4, <2>1, <2>4 DEF IsInjective
      <3>. QED  BY <1>1, <2>1, <3>1
    <2>5. CASE i <= Len(q) /\ j > Len(q)
      BY <1>1, <1>4, <2>1, <2>2, <2>5
    <2>6. CASE i > Len(q) /\ j <= Len(q)
      BY <1>1, <1>4, <2>1, <2>2, <2>6
    <2>. QED  BY <1>1, <2>1, <2>3, <2>4, <2>5, <2>6
  <1>. QED  BY <1>2, <1>3, <1>4 DEF IsInjective

\* Any order of a finite set of slots is a stack of exactly its members.
LEMMA OrderFacts ==
    ASSUME NEW T, T \subseteq Slots, NEW q \in Orders(T)
    PROVE  q \in Seq(Slots) /\ Range(q) = T /\ IsInjective(q)
  <1>1. Cardinality(T) \in Nat
    BY SlotAssumption, FS_Subset, FS_CardinalityType
  <1>. QED  BY <1>1 DEF Orders, Bijection, Injection, Surjection, Range

\* The empty stack.
LEMMA EmptyFacts ==
    <<>> \in Seq(Slots) /\ Range(<<>>) = {} /\ IsInjective(<<>>) /\ Len(<<>>) = 0
  BY DEF Range, IsInjective


-----------------------------------------------------------------------------
(* The map *)

\* A new name takes a slot no other name has.
LEMMA AssignFacts ==
    ASSUME NEW m \in Assignments, NEW n \in Names, NEW s \in Slots, m[n] = NoSlot
    PROVE  /\ [m EXCEPT ![n] = s] \in Assignments
           /\ AssignedBy([m EXCEPT ![n] = s]) = AssignedBy(m) \cup {s}
  BY SlotAssumption DEF Assignments, AssignedBy

\* Distinct names have distinct slots.
OneNamePerSlot(m) == \A i, j \in Names : m[i] # NoSlot /\ m[i] = m[j] => i = j

\* Names whose slots are in D lose them; the other names keep theirs.
LEMMA UnassignFacts ==
    ASSUME NEW m \in Assignments, NEW D
    PROVE  LET k == [n \in Names |-> IF m[n] \in D THEN NoSlot ELSE m[n]]
           IN  /\ k \in Assignments
               /\ AssignedBy(k) = AssignedBy(m) \ D
               /\ OneNamePerSlot(m) => OneNamePerSlot(k)
  BY DEF Assignments, AssignedBy, OneNamePerSlot

\* One name loses its slot.
LEMMA UnassignOneFacts ==
    ASSUME NEW m \in Assignments, OneNamePerSlot(m), NEW n \in Names, m[n] # NoSlot
    PROVE  /\ [m EXCEPT ![n] = NoSlot] \in Assignments
           /\ AssignedBy([m EXCEPT ![n] = NoSlot]) = AssignedBy(m) \ {m[n]}
           /\ OneNamePerSlot([m EXCEPT ![n] = NoSlot])
  BY DEF Assignments, AssignedBy, OneNamePerSlot

\* The empty map.
LEMMA NoFilesFacts ==
    NoFiles \in Assignments /\ AssignedBy(NoFiles) = {} /\ OneNamePerSlot(NoFiles)
  BY DEF NoFiles, Assignments, AssignedBy, OneNamePerSlot

-----------------------------------------------------------------------------
(* Images *)

\* Every update of a slot leaves well-formed images.
LEMMA ImageFacts ==
    ASSUME NEW f \in Images, NEW d \in Images
    PROVE  /\ Flush(f, d) \subseteq Outcomes
           /\ Initialize(f, d) \subseteq Outcomes
           /\ Unnaming(f, d) \subseteq Outcomes
           /\ \A h \in Headers : Naming(f, d, h) \subseteq Outcomes
  <1>1. Blank \in Images /\ Created \in Images /\ Free \in Headers /\ Torn \in Headers
    BY DEF Blank, Created, Images, Contents, Headers, Free, Short, Torn
  <1>2. \A g \in Images, h \in Headers : WithHeader(g, h) \in Images
    BY DEF Images, WithHeader
  <1>3. \A h, e \in Headers : TornWrite(h, e) \in Headers
    BY <1>1 DEF TornWrite
  <1>4. f.hdr \in Headers /\ d.hdr \in Headers /\ f.data \in Contents /\ d.data \in Contents
    BY DEF Images
  <1>5. \A g, e \in Images, b \in BOOLEAN : Outcome(g, e, b) \in Outcomes
    BY DEF Outcome, Outcomes
  <1>6. Flush(f, d) \subseteq Outcomes
    BY <1>5 DEF Flush
  <1>7. Initialize(f, d) \subseteq Outcomes
    BY <1>1, <1>5 DEF Initialize
  <1>8. Unnaming(f, d) \subseteq Outcomes
    BY <1>1, <1>2, <1>3, <1>4, <1>5 DEF Unnaming
  <1>9. \A h \in Headers : Naming(f, d, h) \subseteq Outcomes
    BY <1>1, <1>2, <1>3, <1>4, <1>5 DEF Naming
  <1>. QED  BY <1>6, <1>7, <1>8, <1>9

\* Blanking, and creating, slots.
LEMMA BlankFacts ==
    /\ Blank \in Images /\ Created \in Images
    /\ \A g \in [Slots -> Images] : \A S : Blanked(g, S) \in [Slots -> Images]
  BY DEF Blank, Created, Images, Contents, Headers, Free, Short, Torn, Blanked

-----------------------------------------------------------------------------
(* The inductive invariant: where every slot, handle and operation is *)

PoolInv ==
    /\ TypeOK
    /\ OwnedOnce
    /\ ReservationsHold
    /\ QuarantineNeedsRecovery
    /\ OpenFilesStayPut
    /\ OperationShape

\* A step that touches only images, the registry and the answers.
LEMMA MemoryUnchanged ==
    ASSUME PoolInv, TypeOK', UNCHANGED <<present, dying, state, pool, handle, op>>
    PROVE  PoolInv'
  BY DEF PoolInv, OwnedOnce, ReservationsHold, QuarantineNeedsRecovery, OpenFilesStayPut,
         OperationShape, pool, Held, Owned, Assigned, HasFilename

\* Both images stay well-formed under an update of one slot.
LEMMA SetImagesFacts ==
    ASSUME TypeOK, NEW s \in Slots, NEW o \in Outcomes, SetImages(s, o)
    PROVE  file' \in [Slots -> Images] /\ durable' \in [Slots -> Images]
  BY DEF TypeOK, SetImages, Outcomes

\* xWrite, xTruncate and xSync.
LEMMA FileStep ==
    ASSUME PoolInv, NEW h \in Handles, Write(h) \/ Truncate(h) \/ Sync(h)
    PROVE  PoolInv'
  <1>1. handle[h] # Closed
    BY DEF Write, Truncate, Sync
  <1>2. handle[h].slot \in Slots
    BY <1>1 DEF PoolInv, TypeOK, OpenFilesStayPut, Assignments
  <1>3. CASE Write(h) \/ Truncate(h)
    <2>1. file' \in [Slots -> Images]
      BY <1>2, <1>3 DEF Write, Truncate, PoolInv, TypeOK, Images, Contents
    <2>. QED  BY <1>3, <2>1, MemoryUnchanged DEF Write, Truncate, PoolInv, TypeOK, pool
  <1>4. CASE Sync(h)
    <2>. DEFINE s == handle[h].slot
    <2>1. PICK o \in Flush(file[s], durable[s]) : SetImages(s, o)
      BY <1>4 DEF Sync
    <2>2. o \in Outcomes
      BY <1>2, ImageFacts DEF PoolInv, TypeOK
    <2>3. TypeOK'
      BY <1>2, <1>4, <2>1, <2>2, SetImagesFacts DEF Sync, PoolInv, TypeOK, pool
    <2>. QED  BY <1>4, <2>3, MemoryUnchanged DEF Sync, pool
  <1>. QED  BY <1>3, <1>4

\* Foreign code registers and unregisters its VFS.
LEMMA ForeignStep ==
    ASSUME PoolInv, ForeignVfs
    PROVE  PoolInv'
  BY MemoryUnchanged DEF ForeignVfs, PoolInv, TypeOK, pool, disk

\* xOpen of an existing file.
LEMMA OpenExistingStep ==
    ASSUME PoolInv, NEW h \in Handles, NEW n \in Names, NEW d \in BOOLEAN,
           OpenExisting(h, n, d)
    PROVE  PoolInv'
  BY DEF OpenExisting, PoolInv, TypeOK, OwnedOnce, ReservationsHold, QuarantineNeedsRecovery,
         OpenFilesStayPut, OperationShape, pool, disk, Held, Owned, Assigned, HasFilename,
         HandleRecords, Assignments, CheckActive, Closed

\* What a caller who passes check_active may rely on.
LEMMA ActiveFacts ==
    ASSUME PoolInv, CheckActive
    PROVE  /\ state = "Active" /\ ~needs_recovery
           /\ op = Idle /\ op.got = {} /\ op.kind = "none" /\ op.pc = "idle"
           /\ quarantined = {}
  BY DEF PoolInv, CheckActive, Busy, QuarantineNeedsRecovery, OperationShape, Idle, Operation, TypeOK

\* The types and the disjointness that every step starts from.
LEMMA StackFacts ==
    ASSUME PoolInv
    PROVE  /\ available \in Seq(Slots) /\ IsInjective(available)
           /\ map \in Assignments /\ OneNamePerSlot(map) /\ Assigned = AssignedBy(map)
           /\ Range(available) \cap Assigned = {}
           /\ quarantined \cap (Range(available) \cup Assigned) = {}
           /\ op.got \cap Owned = {} /\ Held \subseteq present /\ present \subseteq Slots
           /\ Owned = Range(available) \cup Assigned \cup quarantined
           /\ Held = Owned \cup op.got
  BY DEF PoolInv, TypeOK, OwnedOnce, OneNamePerSlot, Assigned, HasFilename, Owned, Held

\* What to show of a step for OwnedOnce to hold after it.
LEMMA OwnedOnceNext ==
    ASSUME IsInjective(available'), OneNamePerSlot(map'),
           Range(available') \cap AssignedBy(map') = {},
           quarantined' \cap (Range(available') \cup AssignedBy(map')) = {},
           op'.got \cap (Range(available') \cup AssignedBy(map') \cup quarantined') = {},
           Range(available') \cup AssignedBy(map') \cup quarantined' \cup op'.got
               \subseteq present'
    PROVE  OwnedOnce' /\ Held' = Range(available') \cup AssignedBy(map')
                                    \cup quarantined' \cup op'.got
  BY DEF OwnedOnce, OneNamePerSlot, HasFilename, Assigned, Owned, Held

\* with_new_file followed by xOpen's handle.
LEMMA OpenNewStep ==
    ASSUME PoolInv, NEW h \in Handles, NEW n \in Names, NEW k \in FileKinds,
           OpenNew(h, n, k)
    PROVE  PoolInv'
  <1>. DEFINE s == Last(available)
  <1>1. /\ CheckActive /\ map[n] = NoSlot /\ available # <<>>
        /\ handle[h] = Closed /\ k \in {"keep", "temp"}
        /\ available' = Front(available)
        /\ map' = [map EXCEPT ![n] = s]
        /\ handle' = [handle EXCEPT ![h] =
                        [slot |-> s, name |-> n, delete_on_close |-> k = "temp"]]
        /\ answered' = [answered EXCEPT ![n] = IF k = "keep" THEN "present" ELSE "unknown"]
        /\ UNCHANGED <<present, dying, registry, state, quarantined, needs_recovery, op>>
    BY DEF OpenNew, CanCreate, HasFilename, Answer
  <1>2. PICK o \in Naming(file[s], durable[s], Named(n, k)) : o.ok /\ SetImages(s, o)
    BY DEF OpenNew
  <1>3. /\ s \in Slots /\ s \in Range(available)
        /\ Front(available) \in Seq(Slots) /\ IsInjective(Front(available))
        /\ Range(Front(available)) = Range(available) \ {s}
    BY <1>1, StackFacts, PopFacts
  <1>4. map' \in Assignments /\ AssignedBy(map') = AssignedBy(map) \cup {s}
    BY <1>1, <1>3, StackFacts, AssignFacts
  <1>5. file' \in [Slots -> Images] /\ durable' \in [Slots -> Images]
    <2>1. file[s] \in Images /\ durable[s] \in Images /\ Named(n, k) \in Headers
      BY <1>3 DEF PoolInv, TypeOK, Headers, FileKinds
    <2>. QED  BY <1>2, <1>3, <2>1, ImageFacts, SetImagesFacts DEF PoolInv
  <1>6. TypeOK'
    BY <1>1, <1>3, <1>4, <1>5 DEF PoolInv, TypeOK, HandleRecords, Answers
  <1>7. OwnedOnce'
    <2>1. OneNamePerSlot(map')
      BY <1>1, <1>3, StackFacts DEF OneNamePerSlot, AssignedBy, Assignments
    <2>2. Range(available') = Range(available) \ {s} /\ IsInjective(available')
      BY <1>1, <1>3
    <2>3. op'.got = {} /\ quarantined' = {}
      BY <1>1, ActiveFacts
    <2>. QED  BY <1>1, <1>3, <1>4, <2>1, <2>2, <2>3, StackFacts, OwnedOnceNext
  <1>8. ReservationsHold' /\ QuarantineNeedsRecovery'
    BY <1>1, ActiveFacts DEF ReservationsHold, QuarantineNeedsRecovery
  <1>9. OpenFilesStayPut'
    BY <1>1, <1>3, StackFacts, SlotAssumption, ActiveFacts
       DEF OpenFilesStayPut, PoolInv, TypeOK, Assignments, Closed
  <1>10. OperationShape'
    <2>1. Held' = Held
      BY <1>1, <1>3, <1>4 DEF Held, Owned, Assigned
    <2>. QED  BY <1>1, <2>1, ActiveFacts DEF OperationShape, PoolInv, Idle, Operation
  <1>. QED  BY <1>6, <1>7, <1>8, <1>9, <1>10 DEF PoolInv

\* A failed create, commit or abort gives the top slot back or quarantines it.
LEMMA CleanUpStep ==
    ASSUME PoolInv, NEW s \in Slots, NEW f \in Images, NEW d \in Images,
           CleanUp(s, f, d), available # <<>>, state = "Active",
           quarantined = {}, op.got = {}, op' = Idle, answered' \in [Names -> Answers],
           UNCHANGED <<present, dying, registry, state, handle>>
    PROVE  PoolInv'
  <1>1. PICK c \in Unnaming(f, d) :
            /\ SetImages(s, c)
            /\ IF c.ok
               THEN UNCHANGED <<available, quarantined, needs_recovery>>
               ELSE /\ available' = Front(available)
                    /\ quarantined' = quarantined \cup {Last(available)}
                    /\ needs_recovery' = TRUE
            /\ map' = map
    BY DEF CleanUp
  <1>2. file' \in [Slots -> Images] /\ durable' \in [Slots -> Images]
    BY <1>1, ImageFacts, SetImagesFacts DEF PoolInv
  <1>3. /\ Last(available) \in Slots /\ Last(available) \in Range(available)
        /\ Front(available) \in Seq(Slots) /\ IsInjective(Front(available))
        /\ Range(Front(available)) = Range(available) \ {Last(available)}
    BY StackFacts, PopFacts
  <1>4. /\ available' \in Seq(Slots) /\ IsInjective(available')
        /\ Range(available') \cup quarantined' = Range(available)
        /\ Range(available') \cap quarantined' = {}
    <2>1. CASE c.ok
      BY <1>1, <2>1, StackFacts
    <2>2. CASE ~c.ok
      BY <1>1, <1>3, <2>2, StackFacts
    <2>. QED  BY <2>1, <2>2
  <1>5. Idle \in Operations /\ op'.got = {}
    BY DEF Idle, Operation, Operations, OpKinds, Phases
  <1>6. TypeOK'
    BY <1>1, <1>2, <1>3, <1>4, <1>5 DEF PoolInv, TypeOK
  <1>7. OwnedOnce' /\ Held' = Owned
    BY <1>1, <1>4, <1>5, StackFacts, OwnedOnceNext
  <1>8. ReservationsHold'
    BY DEF ReservationsHold, Idle, Operation
  <1>9. QuarantineNeedsRecovery'
    BY <1>1 DEF QuarantineNeedsRecovery
  <1>10. OpenFilesStayPut'
    BY <1>1 DEF OpenFilesStayPut, PoolInv
  <1>11. OperationShape'
    BY <1>7, StackFacts DEF OperationShape, PoolInv, Idle, Operation
  <1>. QED  BY <1>6, <1>7, <1>8, <1>9, <1>10, <1>11 DEF PoolInv

\* A step that keeps every slot where it is and changes only the operation.
LEMMA OperationStep ==
    ASSUME PoolInv, TypeOK', UNCHANGED <<pool, state, handle>>,
           op'.got \cap Owned = {}, Owned \cup op'.got \subseteq present',
           Held' = Owned \cup op'.got => ReservationsHold' /\ OperationShape'
    PROVE  PoolInv'
  BY StackFacts, OwnedOnceNext
     DEF PoolInv, QuarantineNeedsRecovery, OpenFilesStayPut, pool, Assigned

\* Opens that fail.
LEMMA OpenNewFailsStep ==
    ASSUME PoolInv, NEW n \in Names, NEW k \in FileKinds, OpenNewFails(n, k)
    PROVE  PoolInv'
  <1>. DEFINE s == Last(available)
  <1>1. PICK o \in Naming(file[s], durable[s], Named(n, k)) :
            CleanUp(s, o.file, o.durable)
    BY DEF OpenNewFails
  <1>2. /\ CheckActive /\ available # <<>>
        /\ answered' = [answered EXCEPT ![n] = "unknown"]
        /\ UNCHANGED <<present, dying, registry, state, handle, op>>
    BY DEF OpenNewFails, CanCreate, Answer
  <1>3. s \in Slots
    BY <1>2, StackFacts, PopFacts
  <1>4. o.file \in Images /\ o.durable \in Images
    <2>1. file[s] \in Images /\ durable[s] \in Images /\ Named(n, k) \in Headers
      BY <1>3 DEF PoolInv, TypeOK, Headers, FileKinds
    <2>2. o \in Outcomes
      BY <1>1, <2>1, ImageFacts
    <2>. QED  BY <2>2 DEF Outcomes
  <1>5. answered' \in [Names -> Answers]
    BY <1>2 DEF PoolInv, TypeOK, Answers
  <1>. QED  BY <1>1, <1>2, <1>3, <1>4, <1>5, ActiveFacts, CleanUpStep

-----------------------------------------------------------------------------
(* Deleting *)

\* delete_file, from remove or from the xClose of a DELETEONCLOSE file, whose
\* handle is gone by then: the slot moves to the stack or stays under its name.
LEMMA RemoveFileStep ==
    ASSUME PoolInv, CheckActive, NEW n \in Names, map[n] # NoSlot,
           NEW d \in [Slots -> Images], RemoveFile(n, d),
           handle' \in [Handles -> HandleRecords],
           \A h \in Handles : handle'[h] # Closed =>
               handle'[h] = handle[h] /\ handle[h].slot # map[n],
           UNCHANGED <<present, dying, registry, state, op>>
    PROVE  PoolInv'
  <1>. DEFINE s == map[n]
  <1>1. s \in Slots /\ s \in AssignedBy(map) /\ s \notin Range(available)
    BY StackFacts DEF Assignments, AssignedBy
  <1>2. PICK o \in Unnaming(file[s], d[s]) :
            /\ file' = [file EXCEPT ![s] = o.file]
            /\ durable' = [d EXCEPT ![s] = o.durable]
            /\ IF o.ok
               THEN /\ available' = Append(available, s)
                    /\ map' = [map EXCEPT ![n] = NoSlot]
                    /\ needs_recovery' = needs_recovery
                    /\ answered' = [answered EXCEPT ![n] = "absent"]
               ELSE /\ needs_recovery' = TRUE
                    /\ available' = available /\ map' = map
                    /\ answered' = [answered EXCEPT ![n] = "unknown"]
            /\ quarantined' = quarantined
    BY DEF RemoveFile, Answer
  <1>3. file' \in [Slots -> Images] /\ durable' \in [Slots -> Images]
    <2>1. o \in Outcomes
      BY <1>1, <1>2, ImageFacts DEF PoolInv, TypeOK
    <2>. QED  BY <1>1, <1>2, <2>1 DEF PoolInv, TypeOK, Outcomes
  <1>4. /\ available' \in Seq(Slots) /\ IsInjective(available')
        /\ map' \in Assignments /\ OneNamePerSlot(map')
        /\ Range(available') \cup AssignedBy(map') = Range(available) \cup AssignedBy(map)
        /\ Range(available') \cap AssignedBy(map') = {}
    <2>1. CASE o.ok
      <3>1. /\ available' \in Seq(Slots) /\ IsInjective(available')
            /\ Range(available') = Range(available) \cup {s}
        <4>1. available \in Seq(Slots) /\ IsInjective(available)
          BY StackFacts
        <4>2. available' = Append(available, s)
          BY <1>2, <2>1
        <4>. QED  BY <1>1, <4>1, <4>2, PushFacts
      <3>2. /\ map' \in Assignments /\ OneNamePerSlot(map')
            /\ AssignedBy(map') = AssignedBy(map) \ {s}
        <4>1. map \in Assignments /\ OneNamePerSlot(map)
          BY StackFacts
        <4>2. map' = [map EXCEPT ![n] = NoSlot]
          BY <1>2, <2>1
        <4>. QED  BY <4>1, <4>2, UnassignOneFacts
      <3>3. Range(available) \cap AssignedBy(map) = {}
        BY StackFacts
      <3>. QED  BY <1>1, <3>1, <3>2, <3>3
    <2>2. CASE ~o.ok
      BY <1>2, <2>2, StackFacts
    <2>. QED  BY <2>1, <2>2
  <1>5. TypeOK'
    <2>1. answered' \in [Names -> Answers] /\ needs_recovery' \in BOOLEAN
      BY <1>2 DEF PoolInv, TypeOK, Answers
    <2>. QED  BY <1>2, <1>3, <1>4, <2>1 DEF PoolInv, TypeOK
  <1>6. OwnedOnce' /\ Held' = Held
    BY <1>2, <1>4, StackFacts, ActiveFacts, OwnedOnceNext
  <1>7. ReservationsHold' /\ QuarantineNeedsRecovery'
    BY <1>2, ActiveFacts DEF ReservationsHold, QuarantineNeedsRecovery
  <1>8. OpenFilesStayPut'
    BY <1>2 DEF OpenFilesStayPut, PoolInv, TypeOK, Assignments
  <1>9. OperationShape'
    BY <1>6, ActiveFacts DEF OperationShape, PoolInv, Idle, Operation
  <1>. QED  BY <1>5, <1>6, <1>7, <1>8, <1>9 DEF PoolInv

\* remove of the management interface, and xDelete.
LEMMA DeleteFileStep ==
    ASSUME PoolInv, NEW n \in Names, DeleteFile(n)
    PROVE  PoolInv'
  <1>1. /\ CheckActive /\ map[n] # NoSlot /\ RemoveFile(n, durable)
        /\ \A h \in Handles : handle[h].slot # map[n]
        /\ UNCHANGED <<present, dying, registry, state, handle, op>>
    BY DEF DeleteFile, HasFilename, OpenOn
  <1>. QED  BY <1>1, RemoveFileStep DEF PoolInv, TypeOK

\* xClose.
LEMMA CloseFileStep ==
    ASSUME PoolInv, NEW h \in Handles, CloseFile(h)
    PROVE  PoolInv'
  <1>. DEFINE s == handle[h].slot
              n == handle[h].name
  <1>1. /\ handle[h] # Closed /\ handle' = [handle EXCEPT ![h] = Closed]
        /\ UNCHANGED <<present, dying, registry, state, op>>
    BY DEF CloseFile
  <1>2. PICK o \in Flush(file[s], durable[s]) :
            \/ /\ CheckActive /\ map[n] # NoSlot
               /\ \A g \in Handles \ {h} : handle[g].slot # map[n]
               /\ RemoveFile(n, [durable EXCEPT ![s] = o.durable])
            \/ SetImages(s, o) /\ UNCHANGED <<pool, answered>>
    BY DEF CloseFile, HasFilename
  <1>3. s \in Slots /\ n \in Names
    BY <1>1 DEF PoolInv, TypeOK, OpenFilesStayPut, Assignments
  <1>4. o \in Outcomes
    BY <1>2, <1>3, ImageFacts DEF PoolInv, TypeOK
  <1>5. handle' \in [Handles -> HandleRecords]
    BY <1>1 DEF PoolInv, TypeOK, HandleRecords, Closed
  <1>6. CASE RemoveFile(n, [durable EXCEPT ![s] = o.durable]) /\ CheckActive
             /\ map[n] # NoSlot /\ \A g \in Handles \ {h} : handle[g].slot # map[n]
    <2>1. [durable EXCEPT ![s] = o.durable] \in [Slots -> Images]
      BY <1>3, <1>4 DEF PoolInv, TypeOK, Outcomes
    <2>2. \A g \in Handles : handle'[g] # Closed =>
              handle'[g] = handle[g] /\ handle[g].slot # map[n]
      BY <1>1, <1>6 DEF PoolInv, TypeOK
    <2>. QED  BY <1>1, <1>3, <1>5, <1>6, <2>1, <2>2, RemoveFileStep
  <1>7. CASE SetImages(s, o) /\ UNCHANGED <<pool, answered>>
    <2>1. TypeOK'
      BY <1>1, <1>3, <1>4, <1>5, <1>7, SetImagesFacts DEF PoolInv, TypeOK, pool
    <2>2. OpenFilesStayPut'
      BY <1>1, <1>7 DEF PoolInv, TypeOK, OpenFilesStayPut, pool
    <2>3. OwnedOnce' /\ ReservationsHold' /\ QuarantineNeedsRecovery' /\ OperationShape'
      BY <1>1, <1>7 DEF PoolInv, OwnedOnce, ReservationsHold, QuarantineNeedsRecovery,
         OperationShape, pool, Held, Owned, Assigned, HasFilename
    <2>. QED  BY <2>1, <2>2, <2>3 DEF PoolInv
  <1>. QED  BY <1>2, <1>6, <1>7

-----------------------------------------------------------------------------
(* Clearing *)

\* check_closed sees every open file, because open files are in the map.
LEMMA ClosedFacts ==
    ASSUME PoolInv, CheckClosed \/ state # "Active"
    PROVE  \A h \in Handles : handle[h] = Closed
  BY DEF PoolInv, OpenFilesStayPut, CheckClosed, HasFilename, OpenOn

\* clear, whether it empties every slot or stops after those of done.
LEMMA ClearStep ==
    ASSUME PoolInv, CanClear, NEW done, done \subseteq Assigned \cup quarantined,
           NEW q \in Orders(done), available' = available \o q,
           map' = [n \in Names |-> IF map[n] \in done THEN NoSlot ELSE map[n]],
           quarantined' = quarantined \ done,
           needs_recovery' = TRUE \/ (needs_recovery' = FALSE /\ quarantined' = {}),
           file' \in [Slots -> Images], durable' \in [Slots -> Images],
           answered' \in [Names -> Answers],
           UNCHANGED <<present, dying, registry, state, handle, op>>
    PROVE  PoolInv'
  <1>1. /\ state = "Active" /\ op = Idle /\ op.kind = "none" /\ op.got = {}
        /\ \A h \in Handles : handle[h] = Closed
    BY ClosedFacts DEF CanClear, Busy, PoolInv, OperationShape, Idle, Operation
  <1>2. done \subseteq Slots /\ Range(available) \cap done = {}
    BY StackFacts DEF PoolInv, TypeOK, Assigned, AssignedBy, Assignments
  <1>3. q \in Seq(Slots) /\ Range(q) = done /\ IsInjective(q)
    BY <1>2, OrderFacts
  <1>4. /\ available' \in Seq(Slots) /\ IsInjective(available')
        /\ Range(available') = Range(available) \cup done
    <2>1. available \in Seq(Slots) /\ IsInjective(available)
      BY StackFacts
    <2>. QED  BY <1>2, <1>3, <2>1, PushAllFacts
  <1>5. /\ map' \in Assignments /\ OneNamePerSlot(map')
        /\ AssignedBy(map') = AssignedBy(map) \ done
    <2>1. map \in Assignments /\ OneNamePerSlot(map)
      BY StackFacts
    <2>. QED  BY <2>1, UnassignFacts
  <1>6. TypeOK'
    BY <1>4, <1>5 DEF PoolInv, TypeOK
  <1>7. OwnedOnce' /\ Held' = Held
    BY <1>1, <1>4, <1>5, StackFacts, OwnedOnceNext
  <1>8. ReservationsHold' /\ OpenFilesStayPut'
    BY <1>1 DEF ReservationsHold, OpenFilesStayPut
  <1>9. QuarantineNeedsRecovery'
    BY <1>1 DEF QuarantineNeedsRecovery, PoolInv
  <1>10. OperationShape'
    BY <1>1, <1>7 DEF OperationShape, PoolInv, Idle, Operation
  <1>. QED  BY <1>6, <1>7, <1>8, <1>9, <1>10 DEF PoolInv

\* clear that succeeds.
LEMMA ClearAllStep ==
    ASSUME PoolInv, ClearAll
    PROVE  PoolInv'
  <1>. DEFINE S == Assigned \cup quarantined
  <1>1. /\ CanClear /\ map' = NoFiles /\ quarantined' = {} /\ needs_recovery' = FALSE
        /\ file' = Blanked(file, S) /\ durable' = Blanked(durable, S)
        /\ answered' = [n \in Names |-> IF HasFilename(n) THEN "absent" ELSE answered[n]]
        /\ UNCHANGED <<present, dying, registry, state, handle, op>>
    BY DEF ClearAll
  <1>2. PICK q \in Orders(S) : available' = available \o q
    BY DEF ClearAll
  <1>3. map' = [n \in Names |-> IF map[n] \in S THEN NoSlot ELSE map[n]]
    BY <1>1, StackFacts DEF NoFiles, AssignedBy
  <1>4. quarantined' = quarantined \ S
    BY <1>1
  <1>5. file' \in [Slots -> Images] /\ durable' \in [Slots -> Images]
    BY <1>1, BlankFacts DEF PoolInv, TypeOK
  <1>6. answered' \in [Names -> Answers]
    BY <1>1 DEF PoolInv, TypeOK, Answers
  <1>. QED  BY <1>1, <1>2, <1>3, <1>4, <1>5, <1>6, ClearStep

\* clear that fails at a slot.
LEMMA ClearFailsStep ==
    ASSUME PoolInv, NEW done \in SUBSET Slots, NEW bad \in Slots, ClearFails(done, bad)
    PROVE  PoolInv'
  <1>1. /\ CanClear /\ done \subseteq Assigned \cup quarantined
        /\ map' = [n \in Names |-> IF map[n] \in done THEN NoSlot ELSE map[n]]
        /\ quarantined' = quarantined \ done /\ needs_recovery' = TRUE
        /\ answered' = [n \in Names |-> IF HasFilename(n) THEN "unknown" ELSE answered[n]]
        /\ UNCHANGED <<present, dying, registry, state, handle, op>>
    BY DEF ClearFails
  <1>2. PICK o \in Unnaming(file[bad], durable[bad]) :
            /\ file' = [Blanked(file, done) EXCEPT ![bad] = o.file]
            /\ durable' = [Blanked(durable, done) EXCEPT ![bad] = o.durable]
    BY DEF ClearFails
  <1>3. PICK q \in Orders(done) : available' = available \o q
    BY DEF ClearFails
  <1>4. file' \in [Slots -> Images] /\ durable' \in [Slots -> Images]
    <2>1. o \in Outcomes
      BY <1>2, ImageFacts DEF PoolInv, TypeOK
    <2>2. Blanked(file, done) \in [Slots -> Images] /\ Blanked(durable, done) \in [Slots -> Images]
      BY BlankFacts DEF PoolInv, TypeOK
    <2>. QED  BY <1>2, <2>1, <2>2 DEF Outcomes
  <1>5. answered' \in [Names -> Answers]
    BY <1>1 DEF PoolInv, TypeOK, Answers
  <1>. QED  BY <1>1, <1>3, <1>4, <1>5, ClearStep

-----------------------------------------------------------------------------
(* Giving every slot up *)

\* Idle is an operation, and holds no slot.
LEMMA IdleFacts ==
    /\ Idle \in Operations /\ Idle.kind = "none" /\ Idle.got = {} /\ Idle.pc = "idle"
    /\ Idle.slot = NoSlot /\ Idle.name = NoName /\ Idle.left = 0 /\ Idle.clear = FALSE
  BY DEF Idle, Operation, Operations, OpKinds, Phases

\* Pausing, uninstalling, crashing, and conflicts: nothing is owned afterwards.
LEMMA ReleaseStep ==
    ASSUME PoolInv, ReleaseSlots, op' = Idle,
           present' \subseteq Slots, dying' \subseteq present',
           file' \in [Slots -> Images], durable' \in [Slots -> Images],
           registry' \in {"free", "pool", "foreign"},
           state' \in {"none", "Active", "Paused"},
           needs_recovery' \in BOOLEAN, state' = "none" => needs_recovery' = FALSE,
           handle' \in [Handles -> HandleRecords], \A h \in Handles : handle'[h] = Closed,
           answered' \in [Names -> Answers]
    PROVE  PoolInv'
  <1>1. available' = <<>> /\ map' = NoFiles /\ quarantined' = {}
    BY DEF ReleaseSlots
  <1>2. TypeOK'
    BY <1>1, EmptyFacts, NoFilesFacts, IdleFacts DEF TypeOK
  <1>3. OwnedOnce' /\ Held' = {}
    BY <1>1, EmptyFacts, NoFilesFacts, IdleFacts, OwnedOnceNext
  <1>4. ReservationsHold' /\ QuarantineNeedsRecovery' /\ OpenFilesStayPut'
    BY <1>1, IdleFacts DEF ReservationsHold, QuarantineNeedsRecovery, OpenFilesStayPut
  <1>5. OperationShape'
    BY <1>1, <1>3, IdleFacts DEF OperationShape
  <1>. QED  BY <1>2, <1>3, <1>4, <1>5 DEF PoolInv

\* pause and uninstall.
LEMMA PauseStep ==
    ASSUME PoolInv, Pause \/ Uninstall
    PROVE  PoolInv'
  <1>1. /\ ~Busy /\ CheckClosed /\ ReleaseSlots
        /\ state' \in {"none", "Paused"} /\ registry' \in {"free", "pool", "foreign"}
        /\ needs_recovery' \in BOOLEAN /\ (state' = "none" => needs_recovery' = FALSE)
        /\ UNCHANGED <<disk, dying, handle, op, answered>>
    BY DEF Pause, Uninstall, PoolInv, TypeOK
  <1>2. op' = Idle /\ \A h \in Handles : handle'[h] = Closed
    BY <1>1, ClosedFacts DEF Busy, PoolInv, OperationShape
  <1>3. dying \subseteq present
    BY DEF PoolInv, OperationShape
  <1>. QED  BY <1>1, <1>2, <1>3, ReleaseStep DEF PoolInv, TypeOK, disk

\* Termination of the worker, and loss of power.
LEMMA CrashStep ==
    ASSUME PoolInv,
           WorkerDies \/ \E hs, ds \in SUBSET Slots : LosePower(hs, ds)
    PROVE  PoolInv'
  <1>1. ForgetMemory /\ dying' \subseteq dying
    BY DEF WorkerDies, LosePower
  <1>2. file' \in [Slots -> Images] /\ durable' \in [Slots -> Images]
    <2>1. CASE WorkerDies
      BY <2>1 DEF WorkerDies, PoolInv, TypeOK
    <2>2. CASE \E hs, ds \in SUBSET Slots : LosePower(hs, ds)
      <3>1. PICK hs, ds \in SUBSET Slots : LosePower(hs, ds)
        BY <2>2
      <3>2. \A s \in Slots :
                Surviving(file[s], durable[s], s \in hs, s \in ds) \in Images
        BY DEF Surviving, Images, PoolInv, TypeOK
      <3>. QED  BY <3>1, <3>2 DEF LosePower
    <2>. QED  BY <2>1, <2>2
  <1>3. /\ ReleaseSlots /\ op' = Idle /\ handle' = [h \in Handles |-> Closed]
        /\ state' = "none" /\ registry' = "free" /\ needs_recovery' = FALSE
        /\ UNCHANGED <<present, answered>>
    BY <1>1 DEF ForgetMemory
  <1>4. handle' \in [Handles -> HandleRecords] /\ \A h \in Handles : handle'[h] = Closed
    BY <1>3 DEF HandleRecords, Closed
  <1>5. dying' \subseteq present' /\ present' \subseteq Slots /\ answered' \in [Names -> Answers]
    BY <1>1, <1>3 DEF PoolInv, OperationShape, TypeOK
  <1>. QED  BY <1>2, <1>3, <1>4, <1>5, ReleaseStep

\* Where install and resume run no file is open.
LEMMA AcquiringFacts ==
    ASSUME PoolInv, op.kind \in {"resume", "install"}
    PROVE  /\ \A h \in Handles : handle[h] = Closed
           /\ quarantined = {}
           /\ op.kind = "install" => state = "none" /\ needs_recovery = FALSE
           /\ op.kind = "resume" => state = "Paused"
  BY ClosedFacts DEF PoolInv, OperationShape, QuarantineNeedsRecovery, TypeOK

\* Settling leaves well-formed images.
LEMMA SettleFacts ==
    ASSUME PoolInv, Settle
    PROVE  /\ file' \in [Slots -> Images] /\ durable' \in [Slots -> Images]
           /\ answered' \in [Names -> Answers] /\ needs_recovery' = FALSE
           /\ UNCHANGED <<present, dying>> /\ op.got = present /\ op.pc = "slots"
  <1>1. Blanked(file, present \ Kept) \in [Slots -> Images]
    BY BlankFacts DEF PoolInv, TypeOK
  <1>2. Blanked(durable, present \ Kept) \in [Slots -> Images]
    BY BlankFacts DEF PoolInv, TypeOK
  <1>. QED  BY <1>1, <1>2 DEF Settle, CanSettle, PoolInv, TypeOK, Answers

\* So does initializing a new slot.
LEMMA InitializedFacts ==
    ASSUME PoolInv, AddInitialized
    PROVE  /\ file' \in [Slots -> Images] /\ durable' \in [Slots -> Images]
           /\ op.pc = "acquire" /\ op.slot \in present \ Held /\ op.slot \in Slots
  <1>1. op.pc = "acquire" /\ op.slot \in present \ Held /\ op.slot \in Slots
    BY DEF AddInitialized, AddEmptyFile, AddAcquirable, PoolInv, TypeOK
  <1>2. PICK o \in Initialize(file[op.slot], durable[op.slot]) : SetImages(op.slot, o)
    BY DEF AddInitialized
  <1>3. o \in Outcomes
    BY <1>1, <1>2, ImageFacts DEF PoolInv, TypeOK
  <1>. QED  BY <1>1, <1>2, <1>3, SetImagesFacts DEF PoolInv

\* Foreign code took the name while resume or install awaited.
LEMMA ConflictStep ==
    ASSUME PoolInv, ResumeConflicts \/ InstallConflicts \/ InstallFinishConflicts
    PROVE  PoolInv'
  <1>1. /\ op.kind \in {"resume", "install"} /\ ReleaseSlots /\ op' = Idle
        /\ UNCHANGED <<registry, state, handle>>
    BY DEF ResumeConflicts, InstallConflicts, InstallFinishConflicts, EndOperation
  <1>2. /\ file' \in [Slots -> Images] /\ durable' \in [Slots -> Images]
        /\ answered' \in [Names -> Answers] /\ needs_recovery' \in BOOLEAN
        /\ state = "none" => needs_recovery' = FALSE
        /\ UNCHANGED <<present, dying>>
    <2>1. CASE Settle
      BY <2>1, SettleFacts
    <2>2. CASE InstallFinishConflicts
      BY <2>2, InitializedFacts DEF InstallFinishConflicts, PoolInv, TypeOK, OperationShape
    <2>. QED  BY <2>1, <2>2 DEF ResumeConflicts, InstallConflicts
  <1>3. dying' \subseteq present' /\ present' \subseteq Slots
    BY <1>2 DEF PoolInv, OperationShape, TypeOK
  <1>. QED  BY <1>1, <1>2, <1>3, AcquiringFacts, ReleaseStep DEF PoolInv, TypeOK

-----------------------------------------------------------------------------
(* Steps of an operation that move no slot of the pool *)

\* The reservations of imports and exports begin and end.
LEMMA TransferStep ==
    ASSUME PoolInv, ExportDrop \/ \E n \in Names : CreateImport(n) \/ OpenExport(n)
    PROVE  PoolInv'
  <1>1. UNCHANGED <<disk, dying, registry, state, pool, handle, answered>>
    BY DEF CreateImport, OpenExport, ExportDrop
  <1>2. ASSUME NEW n \in Names, CreateImport(n)
        PROVE  PoolInv'
    <2>1. /\ CheckActive /\ map[n] = NoSlot /\ available # <<>>
          /\ op' = Operation("import", "open", Last(available), n, 0, FALSE)
      BY <1>2 DEF CreateImport, BeginTransfer, HasFilename
    <2>2. Last(available) \in Slots
      BY <2>1, StackFacts, PopFacts
    <2>3. op' \in Operations /\ op'.got = {} /\ op'.kind = "import" /\ op'.pc = "open"
          /\ op'.slot = Last(available) /\ op'.name = n
      BY <2>1, <2>2 DEF Operation, Operations, OpKinds, Phases
    <2>4. TypeOK'
      BY <1>1, <2>3 DEF PoolInv, TypeOK, disk, pool
    <2>5. ASSUME Held' = Owned \cup op'.got
          PROVE  ReservationsHold' /\ OperationShape'
      BY <1>1, <2>1, <2>2, <2>3, <2>5, ActiveFacts, StackFacts
         DEF ReservationsHold, OperationShape, PoolInv, disk, pool, HasFilename
    <2>. QED  BY <1>1, <2>3, <2>4, <2>5, StackFacts, OperationStep DEF disk
  <1>3. ASSUME NEW n \in Names, OpenExport(n)
        PROVE  PoolInv'
    <2>1. /\ CheckActive /\ map[n] # NoSlot
          /\ op' = Operation("export", "open", map[n], n, 0, FALSE)
      BY <1>3 DEF OpenExport, BeginTransfer, HasFilename
    <2>2. map[n] \in Slots
      BY <2>1, StackFacts DEF Assignments
    <2>3. op' \in Operations /\ op'.got = {} /\ op'.kind = "export" /\ op'.pc = "open"
          /\ op'.slot = map[n] /\ op'.name = n
      BY <2>1, <2>2 DEF Operation, Operations, OpKinds, Phases
    <2>4. TypeOK'
      BY <1>1, <2>3 DEF PoolInv, TypeOK, disk, pool
    <2>5. ASSUME Held' = Owned \cup op'.got
          PROVE  ReservationsHold' /\ OperationShape'
      BY <1>1, <2>1, <2>2, <2>3, <2>5, ActiveFacts, StackFacts
         DEF ReservationsHold, OperationShape, PoolInv, disk, pool, HasFilename
    <2>. QED  BY <1>1, <2>3, <2>4, <2>5, StackFacts, OperationStep DEF disk
  <1>4. CASE ExportDrop
    <2>1. op.kind = "export" /\ op' = Idle
      BY <1>4 DEF ExportDrop, EndOperation
    <2>2. TypeOK'
      BY <1>1, <2>1, IdleFacts DEF PoolInv, TypeOK, disk, pool
    <2>3. ASSUME Held' = Owned \cup op'.got
          PROVE  ReservationsHold' /\ OperationShape'
      BY <1>1, <2>1, <2>3, IdleFacts, StackFacts
         DEF ReservationsHold, OperationShape, PoolInv, disk, pool
    <2>. QED  BY <1>1, <2>1, <2>2, <2>3, IdleFacts, StackFacts, OperationStep DEF disk
  <1>. QED  BY <1>2, <1>3, <1>4

\* DbImport::write.
LEMMA ImportWriteStep ==
    ASSUME PoolInv, NEW x \in Contents, ImportWrite(x)
    PROVE  PoolInv'
  <1>1. op.kind = "import" /\ file' = [file EXCEPT ![op.slot].data = x]
        /\ UNCHANGED <<present, durable, dying, registry, state, pool, handle, op, answered>>
    BY DEF ImportWrite
  <1>2. file' \in [Slots -> Images]
    BY <1>1 DEF PoolInv, TypeOK, Images
  <1>. QED  BY <1>1, <1>2, MemoryUnchanged DEF PoolInv, TypeOK, pool

\* resume and install begin, and take the lease.
LEMMA AcquireBeginStep ==
    ASSUME PoolInv,
           \/ ResumeBegin
           \/ \E clear \in BOOLEAN : InstallBegin(clear)
           \/ AcquireLease
    PROVE  PoolInv'
  <1>1. UNCHANGED <<disk, dying, registry, state, pool, handle, answered>>
    BY DEF ResumeBegin, InstallBegin, AcquireLease
  <1>2. /\ op' \in Operations /\ op'.got = op.got /\ op.pc \in {"idle", "lease"}
        /\ op'.pc \in {"lease", "slots"} /\ op'.kind \in {"resume", "install"}
        /\ op'.kind = "resume" => state = "Paused"
        /\ op'.kind = "install" => state = "none"
    <2>1. CASE ResumeBegin
      <3>1. /\ op = Idle /\ state = "Paused"
            /\ op' = Operation("resume", "lease", NoSlot, NoName, 0, FALSE)
        BY <2>1 DEF ResumeBegin, BeginAcquiring, Busy, PoolInv, OperationShape
      <3>. QED  BY <3>1, IdleFacts DEF Operation, Operations, OpKinds, Phases
    <2>2. CASE \E clear \in BOOLEAN : InstallBegin(clear)
      <3>1. PICK clear \in BOOLEAN : InstallBegin(clear)
        BY <2>2
      <3>2. /\ op = Idle /\ state = "none"
            /\ op' = Operation("install", "lease", NoSlot, NoName, 0, clear)
        BY <3>1 DEF InstallBegin, BeginAcquiring, Busy, PoolInv, OperationShape
      <3>. QED  BY <3>2, IdleFacts DEF Operation, Operations, OpKinds, Phases
    <2>3. CASE AcquireLease
      <3>1. op.pc = "lease" /\ op' = [op EXCEPT !.pc = "slots"]
        BY <2>3 DEF AcquireLease
      <3>2. op.kind \in {"resume", "install"}
        BY <3>1 DEF PoolInv, OperationShape, TypeOK, Operations, OpKinds, Idle, Operation
      <3>. QED  BY <3>1, <3>2 DEF PoolInv, OperationShape, TypeOK, Operations, Phases
    <2>. QED  BY <2>1, <2>2, <2>3
  <1>3. TypeOK'
    BY <1>1, <1>2 DEF PoolInv, TypeOK, disk, pool
  <1>4. ASSUME Held' = Owned \cup op'.got
        PROVE  ReservationsHold' /\ OperationShape'
    <2>1. Held' = Held
      BY <1>2, <1>4, StackFacts
    <2>. QED  BY <1>1, <1>2, <2>1 DEF ReservationsHold, OperationShape, PoolInv, disk, pool
  <1>. QED  BY <1>1, <1>2, <1>3, <1>4, StackFacts, OperationStep DEF disk

\* acquire_access_handles gains one more slot.
LEMMA AcquireSlotStep ==
    ASSUME PoolInv, NEW s \in Slots, AcquireSlot(s)
    PROVE  PoolInv'
  <1>1. /\ op.pc = "slots" /\ s \in present /\ s \notin dying
        /\ op' = [op EXCEPT !.got = op.got \cup {s}]
        /\ UNCHANGED <<disk, dying, registry, state, pool, handle, answered>>
    BY DEF AcquireSlot
  <1>2. op.kind \in {"resume", "install"}
    BY <1>1 DEF PoolInv, OperationShape, TypeOK, Operations, OpKinds, Idle, Operation
  <1>3. Owned = {}
    <2>1. available = <<>> /\ map = NoFiles /\ quarantined = {}
      BY <1>1, <1>2, AcquiringFacts DEF PoolInv, OperationShape
    <2>. QED  BY <2>1, EmptyFacts, NoFilesFacts DEF Owned, Assigned
  <1>4. op' \in Operations /\ op'.got = op.got \cup {s} /\ op'.kind = op.kind /\ op'.pc = op.pc
    BY <1>1 DEF PoolInv, TypeOK, Operations
  <1>5. TypeOK'
    BY <1>1, <1>4 DEF PoolInv, TypeOK, disk, pool
  <1>6. ASSUME Held' = Owned \cup op'.got
        PROVE  ReservationsHold' /\ OperationShape'
    BY <1>1, <1>2, <1>3, <1>4, <1>6, StackFacts
       DEF ReservationsHold, OperationShape, PoolInv, disk, pool
  <1>7. op'.got \subseteq present'
    BY <1>1, <1>4, StackFacts DEF disk
  <1>. QED  BY <1>1, <1>3, <1>4, <1>5, <1>6, <1>7, OperationStep

-----------------------------------------------------------------------------
(* Growing the pool *)

\* The awaits of add_capacity, called by itself or by install.
LEMMA GrowingFacts ==
    ASSUME PoolInv, op.pc \in {"create", "acquire"}
    PROVE  /\ op.kind \in {"add", "install"} /\ op.left > 0 /\ op.left \in Nat
           /\ op.kind = "add" => state = "Active" /\ needs_recovery = FALSE
           /\ op.kind = "install" => state = "none"
           /\ quarantined = {} /\ Held = Range(available) \cup AssignedBy(map) \cup op.got
           /\ dying \subseteq present \ Held
           /\ op.pc = "acquire" => op.slot \in present \ (Held \cup dying)
  <1>1. op.kind \in {"add", "install"}
    BY IdleFacts DEF PoolInv, OperationShape, TypeOK, Operations, OpKinds
  <1>2. quarantined = {}
    BY <1>1 DEF PoolInv, OperationShape, QuarantineNeedsRecovery
  <1>3. Held = Range(available) \cup AssignedBy(map) \cup op.got
    BY <1>2, StackFacts
  <1>. QED  BY <1>1, <1>2, <1>3 DEF PoolInv, OperationShape, TypeOK, Operations

\* add_capacity passes check_active.
LEMMA AddBeginStep ==
    ASSUME PoolInv, NEW n \in 1..MaxChange, AddBegin(n)
    PROVE  PoolInv'
  <1>1. /\ CheckActive /\ op' = Operation("add", "create", NoSlot, NoName, n, FALSE)
        /\ UNCHANGED <<disk, dying, registry, state, pool, handle, answered>>
    BY DEF AddBegin
  <1>2. n \in Nat /\ n > 0
    BY CapacityAssumption
  <1>3. op' \in Operations /\ op'.got = {} /\ op'.kind = "add" /\ op'.pc = "create"
        /\ op'.left = n
    BY <1>1, <1>2 DEF Operation, Operations, OpKinds, Phases
  <1>4. TypeOK'
    BY <1>1, <1>3 DEF PoolInv, TypeOK, disk, pool
  <1>5. ASSUME Held' = Owned \cup op'.got
        PROVE  ReservationsHold' /\ OperationShape'
    BY <1>1, <1>2, <1>3, <1>5, ActiveFacts, StackFacts
       DEF ReservationsHold, OperationShape, PoolInv, disk, pool
  <1>. QED  BY <1>1, <1>3, <1>4, <1>5, StackFacts, OperationStep DEF disk

\* get_file_handle creates the entry of the new slot.
LEMMA AddCreateStep ==
    ASSUME PoolInv, NEW s \in Slots, AddCreate(s)
    PROVE  PoolInv'
  <1>1. /\ op.pc = "create" /\ s \notin Range(available) \cup Assigned \cup op.got
        /\ s \notin dying /\ present' = present \cup {s}
        /\ op' = [op EXCEPT !.pc = "acquire", !.slot = s]
        /\ UNCHANGED <<file, durable, dying, registry, state, pool, handle, answered>>
    BY DEF AddCreate
  <1>2. /\ op' \in Operations /\ op'.got = op.got /\ op'.kind = op.kind
        /\ op'.pc = "acquire" /\ op'.slot = s /\ op'.left = op.left
    BY <1>1 DEF PoolInv, TypeOK, Operations, Phases
  <1>3. TypeOK'
    BY <1>1, <1>2 DEF PoolInv, TypeOK, pool
  <1>4. s \notin Held
    BY <1>1, GrowingFacts, StackFacts
  <1>5. ASSUME Held' = Owned \cup op'.got
        PROVE  ReservationsHold' /\ OperationShape'
    <2>1. Held' = Held
      BY <1>2, <1>5, StackFacts
    <2>2. op'.slot \in present' \ (Held' \cup dying') /\ dying' \subseteq present' \ Held'
      BY <1>1, <1>2, <1>4, <2>1, GrowingFacts
    <2>. QED  BY <1>1, <1>2, <2>2, GrowingFacts
              DEF ReservationsHold, OperationShape, PoolInv, pool
  <1>. QED  BY <1>1, <1>2, <1>3, <1>5, StackFacts, OperationStep

\* The name collided, or the new slot could not be initialized.
LEMMA AddRetriesStep ==
    ASSUME PoolInv, AddCollides \/ AddInitializeFails
    PROVE  PoolInv'
  <1>1. /\ op.pc = "acquire" /\ op.slot \in present \ Held /\ op.slot \in Slots
        /\ UNCHANGED <<present, dying, registry, state, pool, handle, answered>>
    BY DEF AddCollides, AddInitializeFails, AddEmptyFile, AddAcquirable, PoolInv, TypeOK, disk
  <1>2. /\ op' \in Operations /\ op'.got = op.got /\ op'.kind = op.kind
        /\ op'.left = op.left
        /\ \/ op'.pc = "create"
           \/ op'.pc = "remove" /\ op'.slot = op.slot
    <2>1. CASE AddCollides
      BY <2>1 DEF AddCollides, PoolInv, TypeOK, Operations, Phases
    <2>2. CASE AddInitializeFails
      BY <2>2 DEF AddInitializeFails, PoolInv, TypeOK, Operations, Phases
    <2>. QED  BY <2>1, <2>2
  <1>3. file' \in [Slots -> Images] /\ durable' \in [Slots -> Images]
    <2>1. CASE AddCollides
      BY <2>1 DEF AddCollides, PoolInv, TypeOK, disk
    <2>2. CASE AddInitializeFails
      <3>1. PICK o \in Initialize(file[op.slot], durable[op.slot]) : SetImages(op.slot, o)
        BY <2>2 DEF AddInitializeFails
      <3>2. o \in Outcomes
        BY <1>1, <3>1, ImageFacts DEF PoolInv, TypeOK
      <3>. QED  BY <1>1, <3>1, <3>2, SetImagesFacts DEF PoolInv
    <2>. QED  BY <2>1, <2>2
  <1>4. TypeOK'
    BY <1>1, <1>2, <1>3 DEF PoolInv, TypeOK, pool
  <1>5. ASSUME Held' = Owned \cup op'.got
        PROVE  ReservationsHold' /\ OperationShape'
    <2>1. Held' = Held
      BY <1>2, <1>5, StackFacts
    <2>. QED  BY <1>1, <1>2, <2>1, GrowingFacts
              DEF ReservationsHold, OperationShape, PoolInv, pool
  <1>. QED  BY <1>1, <1>2, <1>4, <1>5, StackFacts, OperationStep

\* One more slot initialized, others to come.
LEMMA AddContinuesStep ==
    ASSUME PoolInv, AddContinues
    PROVE  PoolInv'
  <1>1. /\ op.left > 1 /\ AddInitialized
        /\ op' = [op EXCEPT !.pc = "create", !.slot = NoSlot,
                            !.left = op.left - 1, !.got = op.got \cup {op.slot}]
        /\ UNCHANGED <<present, dying, registry, state, pool, handle, answered>>
    BY DEF AddContinues
  <1>2. /\ file' \in [Slots -> Images] /\ durable' \in [Slots -> Images]
        /\ op.pc = "acquire" /\ op.slot \in present \ Held /\ op.slot \in Slots
    BY <1>1, InitializedFacts
  <1>3. /\ op' \in Operations /\ op'.got = op.got \cup {op.slot} /\ op'.kind = op.kind
        /\ op'.pc = "create" /\ op'.left = op.left - 1 /\ op'.left > 0
    <2>1. op \in Operations
      BY DEF PoolInv, TypeOK
    <2>2. op.left - 1 \in Nat /\ op.left - 1 > 0
      BY <1>1, <2>1 DEF Operations
    <2>3. op' \in Operations
      BY <1>1, <1>2, <2>1, <2>2 DEF Operations, Phases
    <2>4. /\ op'.got = op.got \cup {op.slot} /\ op'.kind = op.kind
          /\ op'.pc = "create" /\ op'.left = op.left - 1
      BY <1>1, <2>1 DEF Operations
    <2>. QED  BY <2>2, <2>3, <2>4
  <1>4. TypeOK'
    BY <1>1, <1>2, <1>3 DEF PoolInv, TypeOK, pool
  <1>5. ASSUME Held' = Owned \cup op'.got
        PROVE  ReservationsHold' /\ OperationShape'
    <2>1. Held' = Held \cup {op.slot}
      BY <1>3, <1>5, StackFacts
    <2>. QED  BY <1>1, <1>2, <1>3, <2>1, GrowingFacts
              DEF ReservationsHold, OperationShape, PoolInv, pool
  <1>. QED  BY <1>1, <1>2, <1>3, <1>4, <1>5, StackFacts, OperationStep

-----------------------------------------------------------------------------
(* Publishing what was acquired *)

\* The stack and the map that acquire_access_handles builds.
LEMMA AdoptFacts ==
    ASSUME PoolInv, CanSettle, Adopt
    PROVE  /\ available' \in Seq(Slots) /\ IsInjective(available')
           /\ Range(available') \cup AssignedBy(map') \subseteq present
           /\ Range(available') \cap AssignedBy(map') = {}
           /\ map' \in Assignments /\ OneNamePerSlot(map')
  <1>1. PICK q \in Orders(present \ Kept) : available' = q
    BY DEF Adopt
  <1>2. available' \in Seq(Slots) /\ IsInjective(available') /\ Range(available') = present \ Kept
    <2>1. present \ Kept \subseteq Slots
      BY DEF PoolInv, TypeOK
    <2>. QED  BY <1>1, <2>1, OrderFacts
  <1>3. \A n \in Names :
            \/ map'[n] = NoSlot
            \/ map'[n] \in Kept /\ file[map'[n]].hdr.name = n
    <2>. SUFFICES ASSUME NEW n \in Names, map'[n] # NoSlot
                  PROVE  map'[n] \in Kept /\ file[map'[n]].hdr.name = n
      OBVIOUS
    <2>1. /\ \E s \in Kept : file[s].hdr.name = n
          /\ map'[n] = CHOOSE s \in Kept : file[s].hdr.name = n
      BY DEF Adopt
    <2>. QED  BY <2>1
  <1>4. Kept \subseteq present /\ present \subseteq Slots
    BY DEF Kept, PoolInv, TypeOK
  <1>5. map' \in Assignments
    <2>1. map' = [n \in Names |-> map'[n]]
      BY DEF Adopt
    <2>. QED  BY <1>3, <1>4, <2>1 DEF Assignments
  <1>6. OneNamePerSlot(map') /\ AssignedBy(map') \subseteq Kept
    BY <1>3 DEF OneNamePerSlot, AssignedBy
  <1>. QED  BY <1>2, <1>4, <1>5, <1>6

\* A pool begins to own what it acquired.
LEMMA PublishStep ==
    ASSUME PoolInv, op.kind \in {"resume", "install"}, Settle, Adopt,
           registry' \in {"free", "pool", "foreign"}, UNCHANGED <<quarantined, handle>>,
           op' \in Operations, op'.got = {},
           \/ state' = "Active" /\ op' = Idle
           \/ state' = "none" /\ op'.kind = "install" /\ op'.pc = "create" /\ op'.left > 0
    PROVE  PoolInv'
  <1>1. /\ file' \in [Slots -> Images] /\ durable' \in [Slots -> Images]
        /\ answered' \in [Names -> Answers] /\ needs_recovery' = FALSE
        /\ UNCHANGED <<present, dying>> /\ op.got = present
    BY SettleFacts
  <1>2. /\ available' \in Seq(Slots) /\ IsInjective(available')
        /\ Range(available') \cup AssignedBy(map') \subseteq present
        /\ Range(available') \cap AssignedBy(map') = {}
        /\ map' \in Assignments /\ OneNamePerSlot(map')
    BY AdoptFacts DEF Settle
  <1>3. quarantined' = {} /\ \A h \in Handles : handle'[h] = Closed
    BY AcquiringFacts
  <1>4. TypeOK'
    BY <1>1, <1>2, <1>3 DEF PoolInv, TypeOK
  <1>5. OwnedOnce' /\ Held' = Range(available') \cup AssignedBy(map')
    BY <1>1, <1>2, <1>3, OwnedOnceNext
  <1>6. QuarantineNeedsRecovery' /\ OpenFilesStayPut'
    BY <1>3 DEF QuarantineNeedsRecovery, OpenFilesStayPut
  <1>7. dying' = {}
    BY <1>1, StackFacts DEF PoolInv, OperationShape
  <1>8. ReservationsHold' /\ OperationShape'
    BY <1>1, <1>7, IdleFacts DEF ReservationsHold, OperationShape
  <1>. QED  BY <1>4, <1>5, <1>6, <1>8 DEF PoolInv

\* resume and install publish the pool; install may grow it first.
LEMMA PublishesStep ==
    ASSUME PoolInv, ResumePublishes \/ InstallPublishes \/ InstallGrows
    PROVE  PoolInv'
  <1>1. CASE ResumePublishes \/ InstallPublishes
    <2>1. /\ op.kind \in {"resume", "install"} /\ Settle /\ Adopt
          /\ state' = "Active" /\ registry' = "pool" /\ op' = Idle
          /\ UNCHANGED <<quarantined, handle>>
      BY <1>1 DEF ResumePublishes, InstallPublishes, EndOperation
    <2>. QED  BY <2>1, IdleFacts, PublishStep
  <1>2. CASE InstallGrows
    <2>1. /\ op.kind = "install" /\ Missing > 0 /\ Settle /\ Adopt
          /\ op' = [op EXCEPT !.pc = "create", !.left = Missing, !.got = {}]
          /\ UNCHANGED <<registry, state, quarantined, handle>>
      BY <1>2 DEF InstallGrows
    <2>2. Missing \in Nat
      <3>1. Cardinality(present) \in Nat
        BY SlotAssumption, FS_Subset, FS_CardinalityType DEF PoolInv, TypeOK
      <3>. QED  BY <3>1, CapacityAssumption DEF Missing
    <2>3. op \in Operations
      BY DEF PoolInv, TypeOK
    <2>4. op' \in Operations
      BY <2>1, <2>2, <2>3 DEF Operations, Phases
    <2>5. op'.got = {} /\ op'.kind = "install" /\ op'.pc = "create" /\ op'.left = Missing
      BY <2>1, <2>3 DEF Operations
    <2>6. state' = "none" /\ registry' \in {"free", "pool", "foreign"}
      BY <2>1, AcquiringFacts DEF PoolInv, TypeOK
    <2>. QED  BY <2>1, <2>4, <2>5, <2>6, PublishStep
  <1>. QED  BY <1>1, <1>2

\* The last new slot is initialized and all of them are published.
LEMMA AddFinishesStep ==
    ASSUME PoolInv, AddFinishes \/ InstallFinishes
    PROVE  PoolInv'
  <1>1. /\ AddInitialized /\ AddPublishes /\ op' = Idle /\ state' = "Active"
        /\ registry' \in {"free", "pool", "foreign"}
        /\ UNCHANGED <<present, dying, map, quarantined, needs_recovery, handle, answered>>
    <2>1. CASE AddFinishes
      <3>1. op.kind = "add" /\ state' = state
        BY <2>1 DEF AddFinishes
      <3>. QED  BY <2>1, <3>1 DEF AddFinishes, EndOperation, PoolInv, OperationShape, TypeOK
    <2>2. CASE InstallFinishes
      BY <2>2 DEF InstallFinishes, EndOperation
    <2>. QED  BY <2>1, <2>2
  <1>2. /\ file' \in [Slots -> Images] /\ durable' \in [Slots -> Images]
        /\ op.pc = "acquire" /\ op.slot \in present \ Held /\ op.slot \in Slots
    BY <1>1, InitializedFacts
  <1>. DEFINE new == op.got \cup {op.slot}
  <1>3. PICK q \in Orders(new) : available' = available \o q
    BY <1>1 DEF AddPublishes
  <1>4. new \subseteq Slots /\ new \cap Owned = {} /\ new \subseteq present
    BY <1>2, StackFacts DEF PoolInv, TypeOK, Operations
  <1>5. q \in Seq(Slots) /\ Range(q) = new /\ IsInjective(q)
    BY <1>4, OrderFacts
  <1>6. /\ available' \in Seq(Slots) /\ IsInjective(available')
        /\ Range(available') = Range(available) \cup new
    <2>1. available \in Seq(Slots) /\ IsInjective(available) /\ Range(available) \cap new = {}
      BY <1>4, StackFacts
    <2>. QED  BY <1>3, <1>5, <2>1, PushAllFacts
  <1>7. TypeOK'
    BY <1>1, <1>2, <1>6, IdleFacts DEF PoolInv, TypeOK
  <1>8. quarantined = {}
    BY <1>2, GrowingFacts
  <1>9. OwnedOnce' /\ Held' = Held \cup {op.slot}
    BY <1>1, <1>4, <1>6, <1>8, IdleFacts, StackFacts, OwnedOnceNext
  <1>10. ReservationsHold' /\ QuarantineNeedsRecovery'
    BY <1>1, <1>8, IdleFacts DEF ReservationsHold, QuarantineNeedsRecovery
  <1>11. OpenFilesStayPut'
    BY <1>1 DEF PoolInv, OpenFilesStayPut
  <1>12. OperationShape'
    BY <1>1, <1>2, <1>9, GrowingFacts, IdleFacts DEF OperationShape
  <1>. QED  BY <1>7, <1>9, <1>10, <1>11, <1>12 DEF PoolInv

-----------------------------------------------------------------------------
(* Imports end *)

\* What an import in progress may rely on: the top of the stack is its slot.
LEMMA ImportFacts ==
    ASSUME PoolInv, op.kind = "import"
    PROVE  /\ state = "Active" /\ needs_recovery = FALSE /\ quarantined = {} /\ op.got = {}
           /\ available # <<>> /\ Last(available) = op.slot
           /\ op.slot \in Slots /\ op.name \in Names /\ map[op.name] = NoSlot
           /\ op.slot \in Range(available)
           /\ Front(available) \in Seq(Slots) /\ IsInjective(Front(available))
           /\ Range(Front(available)) = Range(available) \ {op.slot}
           /\ file[op.slot] \in Images /\ durable[op.slot] \in Images
           /\ ImportHeader \in Headers
  <1>1. /\ state = "Active" /\ needs_recovery = FALSE /\ op.got = {}
        /\ available # <<>> /\ Last(available) = op.slot
        /\ op.slot \in Slots /\ op.name \in Names /\ map[op.name] = NoSlot
    BY DEF PoolInv, TypeOK, OperationShape, ReservationsHold, HasFilename
  <1>2. quarantined = {}
    BY <1>1 DEF PoolInv, QuarantineNeedsRecovery
  <1>3. /\ op.slot \in Range(available)
        /\ Front(available) \in Seq(Slots) /\ IsInjective(Front(available))
        /\ Range(Front(available)) = Range(available) \ {op.slot}
    <2>1. available \in Seq(Slots) /\ IsInjective(available)
      BY StackFacts
    <2>. QED  BY <1>1, <2>1, PopFacts
  <1>4. file[op.slot] \in Images /\ durable[op.slot] \in Images
    BY <1>1 DEF PoolInv, TypeOK
  <1>5. ImportHeader \in Headers
    BY <1>1 DEF ImportHeader, Headers, FileKinds
  <1>. QED  BY <1>1, <1>2, <1>3, <1>4, <1>5

\* The images a commit can leave, whether it succeeds or not.
LEMMA CommitFacts ==
    ASSUME PoolInv, op.kind = "import",
           NEW o \in CommitOutcomes(file[op.slot], durable[op.slot])
    PROVE  o \in Outcomes /\ o.file \in Images /\ o.durable \in Images
  <1>1. /\ file[op.slot] \in Images /\ durable[op.slot] \in Images
        /\ ImportHeader \in Headers
    BY ImportFacts
  <1>2. o \in Outcomes
    BY <1>1, ImageFacts DEF CommitOutcomes
  <1>. QED  BY <1>2 DEF Outcomes

\* commit publishes the slot the import wrote.
LEMMA ImportCommitStep ==
    ASSUME PoolInv, ImportCommit
    PROVE  PoolInv'
  <1>1. /\ op.kind = "import" /\ available' = Front(available)
        /\ map' = [map EXCEPT ![op.name] = Last(available)]
        /\ answered' = [answered EXCEPT ![op.name] = "present"] /\ op' = Idle
        /\ UNCHANGED <<present, dying, registry, state, quarantined, needs_recovery, handle>>
    BY DEF ImportCommit, EndOperation, Answer
  <1>2. PICK o \in CommitOutcomes(file[op.slot], durable[op.slot]) : SetImages(op.slot, o)
    BY DEF ImportCommit
  <1>3. /\ op.slot \in Slots /\ op.name \in Names /\ op.slot \in Range(available)
        /\ map' = [map EXCEPT ![op.name] = op.slot] /\ map[op.name] = NoSlot
        /\ available' \in Seq(Slots) /\ IsInjective(available')
        /\ Range(available') = Range(available) \ {op.slot}
    BY <1>1, ImportFacts
  <1>4. file' \in [Slots -> Images] /\ durable' \in [Slots -> Images]
    BY <1>1, <1>2, <1>3, CommitFacts, SetImagesFacts DEF PoolInv
  <1>5. map' \in Assignments /\ AssignedBy(map') = AssignedBy(map) \cup {op.slot}
    BY <1>3, StackFacts, AssignFacts
  <1>6. TypeOK'
    BY <1>1, <1>3, <1>4, <1>5, IdleFacts DEF PoolInv, TypeOK, Answers
  <1>7. OwnedOnce' /\ Held' = Owned
    <2>1. OneNamePerSlot(map')
      BY <1>3, StackFacts DEF OneNamePerSlot, AssignedBy, Assignments
    <2>2. quarantined' = {} /\ op'.got = {} /\ present' = present
      BY <1>1, ImportFacts, IdleFacts
    <2>3. /\ Range(available') \cup AssignedBy(map') = Range(available) \cup AssignedBy(map)
          /\ Range(available') \cap AssignedBy(map') = {}
      BY <1>3, <1>5, StackFacts
    <2>4. Owned = Range(available) \cup AssignedBy(map) /\ Owned \subseteq present
      BY <1>1, ImportFacts, StackFacts
    <2>. QED  BY <1>3, <2>1, <2>2, <2>3, <2>4, OwnedOnceNext
  <1>8. ReservationsHold' /\ QuarantineNeedsRecovery'
    BY <1>1, ImportFacts, IdleFacts DEF ReservationsHold, QuarantineNeedsRecovery
  <1>9. OpenFilesStayPut'
    BY <1>1, <1>3 DEF OpenFilesStayPut, PoolInv, TypeOK, Assignments
  <1>10. OperationShape'
    BY <1>1, <1>7, ImportFacts, IdleFacts, StackFacts DEF OperationShape, PoolInv
  <1>. QED  BY <1>6, <1>7, <1>8, <1>9, <1>10 DEF PoolInv

\* A failed commit and an abort give the slot back, or quarantine it.
LEMMA ImportFailsStep ==
    ASSUME PoolInv, ImportCommitFails \/ ImportAbort
    PROVE  PoolInv'
  <1>1. /\ op.kind = "import" /\ op' = Idle
        /\ answered' = [answered EXCEPT ![op.name] = "refused"]
        /\ UNCHANGED <<present, dying, registry, state, handle>>
    BY DEF ImportCommitFails, ImportAbort, EndOperation, Answer
  <1>2. answered' \in [Names -> Answers]
    BY <1>1 DEF PoolInv, TypeOK, Answers
  <1>3. \E f, d \in Images : CleanUp(op.slot, f, d)
    <2>1. CASE ImportCommitFails
      <3>1. PICK o \in CommitOutcomes(file[op.slot], durable[op.slot]) :
                CleanUp(op.slot, o.file, o.durable)
        BY <2>1 DEF ImportCommitFails
      <3>. QED  BY <1>1, <3>1, CommitFacts
    <2>2. CASE ImportAbort
      BY <1>1, <2>2, ImportFacts DEF ImportAbort
    <2>. QED  BY <2>1, <2>2
  <1>4. PICK f \in Images, d \in Images : CleanUp(op.slot, f, d)
    BY <1>3
  <1>. QED  BY <1>1, <1>2, <1>4, ImportFacts, CleanUpStep

-----------------------------------------------------------------------------
(* Shrinking the pool, and operations that end early *)

\* Removing an entry that nobody owns.
LEMMA RemoveEntryFacts ==
    ASSUME PoolInv, NEW s \in Slots, s \notin Held, RemoveEntry(s)
    PROVE  /\ file' \in [Slots -> Images] /\ durable' \in [Slots -> Images]
           /\ present' = present \ {s} /\ Held \subseteq present'
  <1>1. Created \in Images
    BY BlankFacts
  <1>2. Held \subseteq present
    BY StackFacts
  <1>. QED  BY <1>1, <1>2 DEF RemoveEntry, PoolInv, TypeOK

\* At a removal, the slot is owned by nobody and no other call removes it.
LEMMA RemovalFacts ==
    ASSUME PoolInv, op.pc = "remove"
    PROVE  /\ op.kind \in {"add", "install", "reduce"}
           /\ op.slot \in present \ (Held \cup dying) /\ op.slot \in Slots
           /\ dying \subseteq present \ Held
  BY IdleFacts DEF PoolInv, OperationShape, TypeOK, Operations, OpKinds

\* reduce_capacity pops a slot of a healthy pool and begins to remove it.
LEMMA PopStep ==
    ASSUME PoolInv, state = "Active", needs_recovery = FALSE, op.got = {},
           NEW left \in Nat, left < Len(available), PopForRemoval(left),
           present' \subseteq present, Held \subseteq present', dying \subseteq present',
           file' \in [Slots -> Images], durable' \in [Slots -> Images],
           UNCHANGED <<dying, registry, state, map, quarantined, needs_recovery,
                       handle, answered>>
    PROVE  PoolInv'
  <1>. DEFINE s == Last(available)
  <1>1. /\ available' = Front(available)
        /\ op' = Operation("reduce", "remove", s, NoName, left, FALSE)
    BY DEF PopForRemoval
  <1>2. available \in Seq(Slots) /\ IsInjective(available) /\ available # <<>>
    BY StackFacts, EmptyFacts
  <1>3. /\ s \in Slots /\ s \in Range(available)
        /\ available' \in Seq(Slots) /\ IsInjective(available')
        /\ Range(available') = Range(available) \ {s} /\ left <= Len(available')
    BY <1>1, <1>2, PopFacts
  <1>4. /\ op' \in Operations /\ op'.kind = "reduce" /\ op'.pc = "remove"
        /\ op'.slot = s /\ op'.left = left /\ op'.got = {}
    BY <1>1, <1>3 DEF Operation, Operations, OpKinds, Phases
  <1>5. quarantined = {}
    BY DEF PoolInv, QuarantineNeedsRecovery
  <1>6. TypeOK'
    BY <1>3, <1>4 DEF PoolInv, TypeOK
  <1>7. OwnedOnce' /\ Held' = Held \ {s}
    <2>1. /\ Held = Range(available) \cup AssignedBy(map)
          /\ Range(available) \cap AssignedBy(map) = {} /\ OneNamePerSlot(map)
      BY <1>5, StackFacts
    <2>2. quarantined' = {} /\ map' = map
      BY <1>5
    <2>. QED  BY <1>3, <1>4, <2>1, <2>2, OwnedOnceNext
  <1>8. ReservationsHold' /\ QuarantineNeedsRecovery'
    BY <1>3, <1>4, <1>5 DEF ReservationsHold, QuarantineNeedsRecovery
  <1>9. OpenFilesStayPut'
    BY DEF PoolInv, OpenFilesStayPut
  <1>10. OperationShape'
    <2>1. dying \subseteq present \ Held /\ s \in Held
      BY <1>3, StackFacts DEF PoolInv, OperationShape
    <2>2. op'.slot \in present' \ (Held' \cup dying') /\ dying' \subseteq present' \ Held'
      BY <1>4, <1>7, <2>1
    <2>. QED  BY <1>4, <2>2 DEF OperationShape
  <1>. QED  BY <1>6, <1>7, <1>8, <1>9, <1>10 DEF PoolInv

\* reduce_capacity, up to its next remove_entry.
LEMMA ReduceStep ==
    ASSUME PoolInv, ReduceContinues \/ \E n \in 1..MaxChange : ReduceBegin(n)
    PROVE  PoolInv'
  <1>1. CASE ReduceContinues
    <2>1. /\ op.kind = "reduce" /\ op.left > 0 /\ RemoveEntry(op.slot)
          /\ PopForRemoval(op.left - 1)
          /\ UNCHANGED <<dying, registry, state, map, quarantined, needs_recovery,
                         handle, answered>>
      BY <1>1 DEF ReduceContinues
    <2>2. /\ op.pc = "remove" /\ op.got = {} /\ state = "Active" /\ needs_recovery = FALSE
          /\ op.left <= Len(available) /\ op.left \in Nat
      BY <2>1 DEF PoolInv, OperationShape, ReservationsHold, TypeOK, Operations
    <2>3. op.left - 1 \in Nat /\ op.left - 1 < Len(available)
      <3>1. Len(available) \in Nat
        BY StackFacts
      <3>. QED  BY <2>1, <2>2, <3>1
    <2>4. /\ op.slot \in present \ (Held \cup dying) /\ op.slot \in Slots
          /\ dying \subseteq present \ Held
      BY <2>2, RemovalFacts
    <2>5. /\ file' \in [Slots -> Images] /\ durable' \in [Slots -> Images]
          /\ present' = present \ {op.slot} /\ Held \subseteq present'
      BY <2>1, <2>4, RemoveEntryFacts
    <2>6. present' \subseteq present /\ dying \subseteq present'
      BY <2>4, <2>5
    <2>. QED  BY <2>1, <2>2, <2>3, <2>5, <2>6, PopStep
  <1>2. ASSUME NEW n \in 1..MaxChange, ReduceBegin(n)
        PROVE  PoolInv'
    <2>1. /\ CheckActive /\ n <= Len(available) /\ PopForRemoval(n - 1)
          /\ UNCHANGED <<disk, dying, registry, state, map, quarantined, needs_recovery,
                         handle, answered>>
      BY <1>2 DEF ReduceBegin
    <2>2. n - 1 \in Nat /\ n - 1 < Len(available)
      <3>1. Len(available) \in Nat
        BY StackFacts
      <3>. QED  BY <2>1, <3>1, CapacityAssumption
    <2>3. state = "Active" /\ needs_recovery = FALSE /\ op.got = {}
      BY <2>1, ActiveFacts DEF PoolInv, TypeOK
    <2>4. UNCHANGED <<present, file, durable>>
      BY <2>1 DEF disk
    <2>5. /\ Held \subseteq present /\ dying \subseteq present
          /\ file \in [Slots -> Images] /\ durable \in [Slots -> Images]
      BY StackFacts DEF PoolInv, OperationShape, TypeOK
    <2>. QED  BY <2>1, <2>2, <2>3, <2>4, <2>5, PopStep
  <1>. QED  BY <1>1, <1>2

\* An operation ends, and the pool stays as it is.
LEMMA EndStep ==
    ASSUME PoolInv, op' = Idle, UNCHANGED <<pool, registry, state, handle>>,
           state # "Active" => available = <<>> /\ map = NoFiles,
           present' \subseteq present, Held \subseteq present', dying' \subseteq present' \ Held,
           file' \in [Slots -> Images], durable' \in [Slots -> Images],
           answered' \in [Names -> Answers]
    PROVE  PoolInv'
  <1>1. TypeOK'
    BY IdleFacts DEF PoolInv, TypeOK, pool
  <1>2. ASSUME Held' = Owned \cup op'.got
        PROVE  ReservationsHold' /\ OperationShape'
    <2>1. Held' \subseteq Held
      BY <1>2, IdleFacts, StackFacts
    <2>. QED  BY <2>1, IdleFacts DEF ReservationsHold, OperationShape, PoolInv, pool
  <1>. QED  BY <1>1, <1>2, IdleFacts, StackFacts, OperationStep

\* An operation ends early and install drops its private pool.
LEMMA UnwindStep ==
    ASSUME PoolInv, Unwind, op.kind \in {"add", "reduce", "resume", "install"},
           present' \subseteq present, Held \subseteq present', dying' \subseteq present' \ Held,
           file' \in [Slots -> Images], durable' \in [Slots -> Images],
           UNCHANGED <<registry, state, handle, answered>>
    PROVE  PoolInv'
  <1>1. CASE op.kind = "install"
    <2>1. ReleaseSlots /\ op' = Idle /\ needs_recovery' = FALSE
      BY <1>1 DEF Unwind, EndOperation
    <2>2. \A h \in Handles : handle'[h] = Closed
      BY <1>1, AcquiringFacts
    <2>. QED  BY <2>1, <2>2, ReleaseStep DEF PoolInv, TypeOK
  <1>2. CASE op.kind # "install"
    <2>1. op' = Idle /\ UNCHANGED pool
      BY <1>2 DEF Unwind, EndOperation
    <2>2. state # "Active" => available = <<>> /\ map = NoFiles
      BY <1>2 DEF PoolInv, OperationShape
    <2>. QED  BY <2>1, <2>2, EndStep DEF PoolInv, TypeOK
  <1>. QED  BY <1>1, <1>2

\* Every way an operation that awaits can end without its result.
LEMMA EarlyEndStep ==
    ASSUME PoolInv, OperationFails \/ AddRemoves \/ RemovalFails \/ ReduceFinishes
    PROVE  PoolInv'
  <1>1. Held \subseteq present /\ dying \subseteq present \ Held
    BY StackFacts DEF PoolInv, OperationShape
  <1>2. CASE OperationFails
    <2>1. /\ Unwind /\ op.kind \in {"add", "resume", "install"}
          /\ UNCHANGED <<present, file, durable, dying, registry, state, handle, answered>>
      BY <1>2 DEF OperationFails, disk
    <2>. QED  BY <1>1, <2>1, UnwindStep DEF PoolInv, TypeOK
  <1>3. CASE RemovalFails
    <2>1. /\ Unwind /\ op.pc = "remove" /\ dying' \subseteq dying \cup {op.slot}
          /\ UNCHANGED <<present, file, durable, registry, state, handle, answered>>
      BY <1>3 DEF RemovalFails, disk
    <2>2. dying' \subseteq present' \ Held
      BY <1>1, <2>1, RemovalFacts
    <2>3. op.kind \in {"add", "reduce", "resume", "install"}
      BY <2>1, RemovalFacts
    <2>. QED  BY <1>1, <2>1, <2>2, <2>3, UnwindStep DEF PoolInv, TypeOK
  <1>4. CASE AddRemoves \/ ReduceFinishes
    <2>1. /\ op.kind \in {"add", "reduce", "install"} /\ op.pc = "remove"
          /\ RemoveEntry(op.slot) /\ Unwind
          /\ UNCHANGED <<dying, registry, state, handle, answered>>
      BY <1>4 DEF AddRemoves, ReduceFinishes, Unwind, PoolInv, OperationShape
    <2>2. /\ op.slot \in present \ (Held \cup dying) /\ op.slot \in Slots
      BY <2>1, RemovalFacts
    <2>3. /\ file' \in [Slots -> Images] /\ durable' \in [Slots -> Images]
          /\ present' = present \ {op.slot} /\ Held \subseteq present'
      BY <2>1, <2>2, RemoveEntryFacts
    <2>4. present' \subseteq present /\ dying' \subseteq present' \ Held
      BY <1>1, <2>1, <2>2, <2>3
    <2>. QED  BY <2>1, <2>3, <2>4, UnwindStep
  <1>. QED  BY <1>2, <1>3, <1>4

\* Emptying an acquired slot fails, and nothing is published.
LEMMA SettleFailsStep ==
    ASSUME PoolInv, NEW done \in SUBSET Slots, NEW bad \in Slots, SettleFails(done, bad)
    PROVE  PoolInv'
  <1>1. /\ CanSettle /\ op' = Idle
        /\ UNCHANGED <<present, dying, registry, state, pool, handle>>
    BY DEF SettleFails, EndOperation
  <1>2. PICK o \in Initialize(file[bad], durable[bad]) \cup Unnaming(file[bad], durable[bad]) :
            /\ file' = [Blanked(file, done) EXCEPT ![bad] = o.file]
            /\ durable' = [Blanked(durable, done) EXCEPT ![bad] = o.durable]
    BY DEF SettleFails
  <1>3. file' \in [Slots -> Images] /\ durable' \in [Slots -> Images]
    <2>1. o \in Outcomes
      BY <1>2, ImageFacts DEF PoolInv, TypeOK
    <2>2. Blanked(file, done) \in [Slots -> Images] /\ Blanked(durable, done) \in [Slots -> Images]
      BY BlankFacts DEF PoolInv, TypeOK
    <2>. QED  BY <1>2, <2>1, <2>2 DEF Outcomes
  <1>4. answered' \in [Names -> Answers]
    <2>1. \A n \in Names : answered[n] \in Answers
      BY DEF PoolInv, TypeOK
    <2>2. "unknown" \in Answers
      BY DEF Answers
    <2>. QED  BY <2>1, <2>2 DEF SettleFails, PoolInv, TypeOK
  <1>5. state # "Active" => available = <<>> /\ map = NoFiles
    BY <1>1 DEF CanSettle, PoolInv, OperationShape
  <1>6. Held \subseteq present' /\ dying' \subseteq present' \ Held
    BY <1>1, StackFacts DEF PoolInv, OperationShape
  <1>7. present' \subseteq present /\ UNCHANGED <<pool, registry, state, handle>>
    BY <1>1
  <1>. QED  BY <1>1, <1>3, <1>4, <1>5, <1>6, <1>7, EndStep

\* A removal nobody awaits takes effect.
LEMMA RemovalLandsStep ==
    ASSUME PoolInv, NEW s \in Slots, RemovalLands(s)
    PROVE  PoolInv'
  <1>1. /\ s \in dying /\ dying' = dying \ {s} /\ RemoveEntry(s)
        /\ UNCHANGED <<registry, state, pool, handle, op, answered>>
    BY DEF RemovalLands
  <1>2. dying \subseteq present \ Held
    BY DEF PoolInv, OperationShape
  <1>3. /\ file' \in [Slots -> Images] /\ durable' \in [Slots -> Images]
        /\ present' = present \ {s} /\ Held \subseteq present'
    BY <1>1, <1>2, RemoveEntryFacts
  <1>4. TypeOK'
    BY <1>1, <1>3 DEF PoolInv, TypeOK, pool
  <1>5. ASSUME Held' = Owned \cup op'.got
        PROVE  ReservationsHold' /\ OperationShape'
    <2>1. Held' = Held
      BY <1>1, <1>5, StackFacts
    <2>. QED  BY <1>1, <1>2, <1>3, <2>1
              DEF ReservationsHold, OperationShape, PoolInv, pool, HasFilename
  <1>. QED  BY <1>1, <1>3, <1>4, <1>5, StackFacts, OperationStep

-----------------------------------------------------------------------------
(* The theorems *)

\* A worker that has not called install owns nothing.
LEMMA InitialPool ==
    ASSUME Init
    PROVE  PoolInv
  <1>1. TypeOK
    BY EmptyFacts, NoFilesFacts, IdleFacts, BlankFacts
       DEF Init, TypeOK, HandleRecords, Closed, Answers
  <1>2. available = <<>> /\ map = NoFiles /\ quarantined = {} /\ op = Idle
    BY DEF Init
  <1>3. Owned = {} /\ Held = {}
    BY <1>2, EmptyFacts, NoFilesFacts, IdleFacts DEF Owned, Held, Assigned
  <1>4. OwnedOnce
    BY <1>2, <1>3, EmptyFacts, NoFilesFacts
       DEF OwnedOnce, HasFilename, Assigned, NoFiles
  <1>5. ReservationsHold /\ QuarantineNeedsRecovery
    BY <1>2, IdleFacts DEF ReservationsHold, QuarantineNeedsRecovery
  <1>6. OpenFilesStayPut /\ OperationShape
    BY <1>2, <1>3, IdleFacts DEF Init, OpenFilesStayPut, OperationShape
  <1>. QED  BY <1>1, <1>4, <1>5, <1>6 DEF PoolInv

\* No callback, management call, await, failure or crash breaks the invariant.
LEMMA PoolInvStep ==
    ASSUME PoolInv, [Next]_vars
    PROVE  PoolInv'
  <1>1. CASE SQLite
    BY <1>1, FileStep, CloseFileStep, OpenExistingStep, OpenNewStep, OpenNewFailsStep
       DEF SQLite
  <1>2. CASE Management
    BY <1>2, DeleteFileStep, ClearAllStep, ClearFailsStep, PauseStep DEF Management
  <1>3. CASE Transfer
    BY <1>3, TransferStep, ImportWriteStep, ImportCommitStep, ImportFailsStep DEF Transfer
  <1>4. CASE Acquisition
    BY <1>4, AcquireBeginStep, AcquireSlotStep, SettleFailsStep, PublishesStep, ConflictStep
       DEF Acquisition
  <1>5. CASE Resizing
    BY <1>5, AddBeginStep, AddCreateStep, AddRetriesStep, AddContinuesStep, AddFinishesStep,
       ConflictStep, ReduceStep, EarlyEndStep
       DEF Resizing
  <1>6. CASE Environment
    BY <1>6, RemovalLandsStep, ForeignStep, CrashStep DEF Environment
  <1>7. CASE UNCHANGED vars
    BY <1>7 DEF vars, disk, pool, PoolInv, TypeOK, OwnedOnce, ReservationsHold,
       QuarantineNeedsRecovery, OpenFilesStayPut, OperationShape, Held, Owned, Assigned,
       HasFilename
  <1>. QED  BY <1>1, <1>2, <1>3, <1>4, <1>5, <1>6, <1>7 DEF Next

\* The inductive invariant holds in every state of the pool.
THEOREM PoolInvariant == Spec => []PoolInv
  <1>1. Init => PoolInv
    BY InitialPool
  <1>2. PoolInv /\ [Next]_vars => PoolInv'
    BY PoolInvStep
  <1>. QED  BY <1>1, <1>2, PTL DEF Spec

\* Every variable keeps its type, whatever fails.
THEOREM TypeCorrect == Spec => []TypeOK
  <1>1. PoolInv => TypeOK
    BY DEF PoolInv
  <1>. QED  BY <1>1, PoolInvariant, PTL

\* A slot is owned in one place only: the stack, one name, quarantine, or the
\* operation that acquired it; and everything owned is in the directory.
THEOREM SlotsOwnedOnce == Spec => []OwnedOnce
  <1>1. PoolInv => OwnedOnce
    BY DEF PoolInv
  <1>. QED  BY <1>1, PoolInvariant, PTL

\* An import's slot stays on top of the stack until it commits, an export's
\* under its name, and reduce_capacity never unwraps an empty stack.
THEOREM ReservationsAreKept == Spec => []ReservationsHold
  <1>1. PoolInv => ReservationsHold
    BY DEF PoolInv
  <1>. QED  BY <1>1, PoolInvariant, PTL

\* While a slot is quarantined the pool refuses everything but recovery.
THEOREM QuarantineBlocks == Spec => []QuarantineNeedsRecovery
  <1>1. PoolInv => QuarantineNeedsRecovery
    BY DEF PoolInv
  <1>. QED  BY <1>1, PoolInvariant, PTL

\* An open file's slot keeps its name until xClose, and the pool stays active.
THEOREM OpenFilesKeepTheirSlot == Spec => []OpenFilesStayPut
  <1>1. PoolInv => OpenFilesStayPut
    BY DEF PoolInv
  <1>. QED  BY <1>1, PoolInvariant, PTL

=============================================================================
