--------------------------- MODULE SahImageProofs ---------------------------
(***************************************************************************)
(* Proofs about what the slots of SahPool hold: which names their two      *)
(* images bear, and what of it a failure, a crash or a loss of power can   *)
(* change.  They build on where every slot is, PoolInv of SahPoolProofs.   *)
(***************************************************************************)
EXTENDS SahPoolProofs

-----------------------------------------------------------------------------
(* The inductive invariant *)

\* The names of a pair of images: NamesOn, for any two.
Bears(f, d) == {f.hdr.name, d.hdr.name} \ {NoName}

\* A pair of images: one name at most, an imported header only over whole
\* contents or those SQLite has emptied, whichever parts survive, and a header too short for SQLite's
\* bytes only before the slot's first use.
Sound(f, d) ==
    /\ \A n, m \in Bears(f, d) : n = m
    /\ "import" \in {f.hdr.flags, d.hdr.flags} => {f.data, d.data} \subseteq {"whole", "emptied"}
    /\ Short \in {f.hdr, d.hdr} => {f, d} \subseteq {Created, Blank}

SlotsAreSound == \A s \in Slots : Sound(file[s], durable[s])
AbsentAreCreated == \A s \in Slots \ present : file[s] = Created /\ durable[s] = Created
NamesApart == \A s, t \in Slots : s # t => NamesOn(s) \cap NamesOn(t) = {}
DyingAreNameless == \A s \in dying : NamesOn(s) = {}

\* The map is that of the directory, also while install still keeps it private.
Published ==
    state = "Active" \/ (op.kind = "install" /\ op.pc \in {"create", "acquire", "remove"})

\* A name is on its slot alone, or on the quarantined one.
NamesAreMapped ==
    Published => \A s \in Slots \ quarantined : NamesOn(s) \subseteq {n \in Names : map[n] = s}
MapIsRead ==
    Published /\ ~needs_recovery =>
        \A n \in Names : map[n] # NoSlot => file[map[n]].hdr.name = n

\* The slot of an import has no header yet, on storage no contents either, and
\* the slots a growing pool has collected are blank.
ImportIsUnnamed ==
    op.kind = "import" => file[op.slot].hdr = Free /\ durable[op.slot] = Blank
CollectedAreBlank ==
    op.pc \in {"create", "acquire", "remove"} =>
        \A s \in op.got : file[s] = Blank /\ durable[s] = Blank

\* Answers, for both images: a promised name is adopted whichever survives.
PromisedAreKept ==
    \A n \in Names : answered[n] = "present" =>
        \E s \in present : /\ durable[s].hdr.name = n /\ Adopted(durable[s].hdr)
                           /\ file[s].hdr = durable[s].hdr
RemovedAreGone ==
    \A n \in Names : answered[n] = "absent" => \A s \in Slots : n \notin NamesOn(s)
QuarantineIsUnpromised ==
    \A s \in quarantined : \A n \in NamesOn(s) : answered[n] # "present"

OpenFilesBearNames ==
    \A h \in Handles : handle[h] # Closed => file[handle[h].slot].hdr.name = handle[h].name

ImportIsFresh ==
    op.kind = "import" =>
        \A s \in Slots : NamesOn(s) \cap ({op.name} \cup Sidecars[op.name]) = {}

DiskImages == SlotsAreSound /\ AbsentAreCreated /\ NamesApart /\ DyingAreNameless
PoolImages ==
    /\ NamesAreMapped /\ MapIsRead /\ QuarantineIsUnpromised
    /\ UnusedSlotsAreBlank /\ CollectedAreBlank
    /\ ImportIsUnnamed /\ ImportIsFresh /\ OpenFilesBearNames
AnswersHold == PromisedAreKept /\ RemovedAreGone

ImageInv == DiskImages /\ PoolImages /\ AnswersHold

-----------------------------------------------------------------------------
(* What an update of a slot does to a sound pair of images *)

\* The headers and images that have a name of their own.
LEMMA HeaderFacts ==
    /\ Free.name = NoName /\ Free.flags = "zero" /\ Free \in Headers
    /\ Short.name = NoName /\ Short.flags = "short" /\ Short \in Headers
    /\ Torn.name = NoName /\ Torn.flags = "torn" /\ Torn \in Headers
    /\ Blank.hdr = Free /\ Blank.data = "blank" /\ Blank \in Images
    /\ Created.hdr = Short /\ Created.data = "blank" /\ Created \in Images
    /\ \A n \in Names, k \in FileKinds :
          Named(n, k).name = n /\ Named(n, k).flags = k /\ Named(n, k) \in Headers
    /\ \A h \in Headers : (h.name = NoName /\ h.flags \notin FileKinds) \/ h.name \in Names
  <1>1. /\ Free.name = NoName /\ Free.flags = "zero" /\ Free \in Headers
        /\ Short.name = NoName /\ Short.flags = "short" /\ Short \in Headers
        /\ Torn.name = NoName /\ Torn.flags = "torn" /\ Torn \in Headers
    BY DEF Free, Short, Torn, Headers
  <1>2. /\ Blank.hdr = Free /\ Blank.data = "blank" /\ Blank \in Images
        /\ Created.hdr = Short /\ Created.data = "blank" /\ Created \in Images
    BY <1>1 DEF Blank, Created, Images, Contents
  <1>3. \A n \in Names, k \in FileKinds :
            Named(n, k).name = n /\ Named(n, k).flags = k /\ Named(n, k) \in Headers
    BY DEF Named, Headers
  <1>4. ASSUME NEW h \in Headers
        PROVE  (h.name = NoName /\ h.flags \notin FileKinds) \/ h.name \in Names
    <2>1. h \in {Free, Short, Torn} \/ \E n \in Names, k \in FileKinds : h = Named(n, k)
      BY DEF Headers
    <2>. QED  BY <1>1, <1>3, <2>1 DEF FileKinds
  <1>. QED  BY <1>1, <1>2, <1>3, <1>4

\* A header write leaves the contents alone.
LEMMA WithHeaderFacts ==
    ASSUME NEW g \in Images, NEW h \in Headers
    PROVE  /\ WithHeader(g, h) \in Images
           /\ WithHeader(g, h).hdr = h /\ WithHeader(g, h).data = g.data
  BY DEF WithHeader, Images

\* Updates that add no name and keep the pair sound.
Fades(f, d, g, e) == Sound(g, e) /\ Bears(g, e) \subseteq Bears(f, d)

\* A blank pair, and one only created, bear nothing.
LEMMA FreshFacts ==
    ASSUME NEW f, NEW d, {f, d} \subseteq {Created, Blank}
    PROVE  Sound(f, d) /\ Bears(f, d) = {}
  BY HeaderFacts DEF Sound, Bears

\* Emptying a slot.
LEMMA UnnamingFades ==
    ASSUME NEW f \in Images, NEW d \in Images, Sound(f, d), NEW o \in Unnaming(f, d)
    PROVE  /\ Fades(f, d, o.file, o.durable)
           /\ o.ok => o.file = Blank /\ o.durable = Blank
  <1>. DEFINE u == WithHeader(f, Free)
              t == WithHeader(f, TornWrite(f.hdr, Free))
  <1>1. /\ u \in Images /\ u.hdr = Free /\ u.data = f.data
    BY HeaderFacts, WithHeaderFacts
  <1>2. /\ t \in Images /\ t.data = f.data
        /\ \/ t.hdr = Torn /\ f.hdr \notin {Free, Short}
           \/ t.hdr = f.hdr
    BY HeaderFacts, WithHeaderFacts DEF TornWrite, Images
  <1>3. t.hdr = f.hdr => t = f
    BY <1>2 DEF Images
  <1>4. Free # Short /\ Torn # Short /\ Free # Torn /\ Free.flags # "import" /\ Torn.flags # "import"
    BY HeaderFacts
  <1>5. Fades(f, d, f, d)
    BY DEF Fades
  <1>6. Fades(f, d, t, d)
    BY <1>2, <1>3, <1>4, HeaderFacts DEF Fades, Sound, Bears
  <1>7. Fades(f, d, u, d)
    BY <1>1, <1>4, HeaderFacts DEF Fades, Sound, Bears, Images
  <1>8. Fades(f, d, u, u)
    BY <1>1, <1>4, HeaderFacts DEF Fades, Sound, Bears
  <1>9. Fades(f, d, Blank, u)
    BY <1>1, <1>4, HeaderFacts DEF Fades, Sound, Bears
  <1>10. Fades(f, d, Blank, Blank)
    BY FreshFacts DEF Fades
  <1>11. /\ o \in { Outcome(f, d, FALSE), Outcome(t, d, FALSE), Outcome(u, d, FALSE),
                    Outcome(u, u, FALSE), Outcome(Blank, u, FALSE), Outcome(Blank, Blank, TRUE) }
    BY DEF Unnaming
  <1>. QED  BY <1>5, <1>6, <1>7, <1>8, <1>9, <1>10, <1>11 DEF Outcome

\* A flush.
LEMMA FlushFades ==
    ASSUME NEW f \in Images, NEW d \in Images, Sound(f, d), NEW o \in Flush(f, d)
    PROVE  /\ Fades(f, d, o.file, o.durable) /\ o.file = f
           /\ o.durable \in {d, f}
  BY DEF Flush, Outcome, Fades, Sound, Bears

\* Extending a slot to a whole header before its first use.
LEMMA InitializeFades ==
    ASSUME NEW f \in Images, NEW d \in Images, Sound(f, d), f.hdr = Short,
           NEW o \in Initialize(f, d)
    PROVE  /\ Bears(f, d) = {} /\ Fades(f, d, o.file, o.durable)
           /\ o.ok => o.file = Blank /\ o.durable = Blank
  <1>1. {f, d} \subseteq {Created, Blank}
    BY DEF Sound
  <1>2. {o.file, o.durable} \subseteq {Created, Blank}
    BY <1>1 DEF Initialize, Outcome
  <1>3. o.ok => o.file = Blank /\ o.durable = Blank
    BY DEF Initialize, Outcome
  <1>. QED  BY <1>1, <1>2, <1>3, FreshFacts DEF Fades

\* Naming a slot without a name.
LEMMA NamingFacts ==
    ASSUME NEW f \in Images, NEW d \in Images, f.hdr = Free, d.hdr = Free,
           NEW n \in Names, NEW k \in FileKinds,
           k = "import" => f.data = "whole" /\ d.data = "whole",
           NEW o \in Naming(f, d, Named(n, k))
    PROVE  /\ o.file \in Images /\ o.durable \in Images
           /\ Sound(o.file, o.durable) /\ Bears(o.file, o.durable) \subseteq {n}
  <1>. DEFINE u == WithHeader(f, Named(n, k))
              t == WithHeader(f, TornWrite(f.hdr, Named(n, k)))
  <1>1. /\ Named(n, k) \in Headers /\ Named(n, k).name = n /\ Named(n, k).flags = k
        /\ Named(n, k) # Free
    BY HeaderFacts, NoNameAssumption
  <1>2. u \in Images /\ u.hdr = Named(n, k) /\ u.data = f.data
    BY <1>1, WithHeaderFacts
  <1>3. TornWrite(f.hdr, Named(n, k)) = Torn
    BY <1>1 DEF TornWrite
  <1>4. t \in Images /\ t.hdr = Torn /\ t.data = f.data
    BY <1>3, HeaderFacts, WithHeaderFacts
  <1>5. /\ Free # Short /\ Torn # Short /\ Named(n, k) # Short
        /\ Free.flags # "import" /\ Torn.flags # "import"
    BY <1>1, HeaderFacts, NoNameAssumption
  <1>6. Sound(f, d) /\ Bears(f, d) \subseteq {n}
    BY <1>5, HeaderFacts DEF Sound, Bears
  <1>7. Sound(t, d) /\ Bears(t, d) \subseteq {n}
    BY <1>4, <1>5, HeaderFacts DEF Sound, Bears
  <1>8. Sound(u, d) /\ Bears(u, d) \subseteq {n}
    BY <1>1, <1>2, <1>5, HeaderFacts DEF Sound, Bears
  <1>9. Sound(u, u) /\ Bears(u, u) \subseteq {n}
    BY <1>1, <1>2, <1>5 DEF Sound, Bears
  <1>10. o \in { Outcome(f, d, FALSE), Outcome(t, d, FALSE),
                 Outcome(u, d, FALSE), Outcome(u, u, TRUE) }
    BY DEF Naming
  <1>. QED  BY <1>2, <1>4, <1>6, <1>7, <1>8, <1>9, <1>10 DEF Outcome

\* A naming that succeeds has reached both images.
LEMMA NamingSucceeds ==
    ASSUME NEW f \in Images, NEW d \in Images, NEW h \in Headers,
           NEW o \in Naming(f, d, h), o.ok
    PROVE  o.file.hdr = h /\ o.durable.hdr = h
  <1>1. o = Outcome(WithHeader(f, h), WithHeader(f, h), TRUE)
    BY DEF Naming, Outcome
  <1>. QED  BY <1>1, WithHeaderFacts DEF Outcome

\* A loss of power keeps either version of each part.
LEMMA SurvivingFades ==
    ASSUME NEW f \in Images, NEW d \in Images, Sound(f, d), NEW a, NEW b
    PROVE  LET g == Surviving(f, d, a, b)
           IN  /\ Fades(f, d, g, g) /\ g.hdr \in {f.hdr, d.hdr}
               /\ f = Created /\ d = Created => g = Created
  <1>. DEFINE g == Surviving(f, d, a, b)
  <1>1. g \in Images /\ g.hdr \in {f.hdr, d.hdr} /\ g.data \in {f.data, d.data}
    BY DEF Surviving, Images
  <1>2. Bears(g, g) \subseteq Bears(f, d)
    BY <1>1 DEF Bears
  <1>3. g.hdr = Short => g \in {Created, Blank}
    BY <1>1, HeaderFacts DEF Sound, Images, Created
  <1>4. g.hdr.flags = "import" => g.data \in {"whole", "emptied"}
    BY <1>1 DEF Sound
  <1>5. Sound(g, g)
    BY <1>2, <1>3, <1>4 DEF Sound
  <1>6. f = Created /\ d = Created => g = Created
    BY <1>1, HeaderFacts DEF Images, Created
  <1>. QED  BY <1>1, <1>2, <1>5, <1>6 DEF Fades

\* xWrite and xTruncate, on a named slot.
LEMMA WritingFades ==
    ASSUME NEW f \in Images, NEW d \in Images, Sound(f, d), f.hdr.name # NoName,
           NEW g \in Images, g.hdr = f.hdr, g.data \in {"whole", "emptied"}
    PROVE  Fades(f, d, g, d)
  <1>1. Short \notin {f.hdr, d.hdr}
    BY HeaderFacts DEF Sound
  <1>. QED  BY <1>1 DEF Fades, Sound, Bears

-----------------------------------------------------------------------------
(* What to show of a step *)

\* No slot gains a name.
LEMMA Fading ==
    ASSUME DiskImages,
           \A s \in Slots : Fades(file[s], durable[s], file'[s], durable'[s]),
           \A s \in Slots \ present' : file'[s] = Created /\ durable'[s] = Created,
           dying' \subseteq Slots, \A s \in dying' : NamesOn(s) = {}
    PROVE  DiskImages' /\ \A s \in Slots : NamesOn(s)' \subseteq NamesOn(s)
  <1>1. \A s \in Slots : NamesOn(s)' \subseteq NamesOn(s)
    BY DEF NamesOn, Fades, Bears
  <1>2. SlotsAreSound' /\ AbsentAreCreated'
    BY DEF SlotsAreSound, AbsentAreCreated, Fades
  <1>3. NamesApart'
    BY <1>1 DEF NamesApart, DiskImages
  <1>4. DyingAreNameless'
    BY <1>1 DEF DyingAreNameless
  <1>. QED  BY <1>1, <1>2, <1>3, <1>4 DEF DiskImages

\* One slot gains a name that was on none.
LEMMA Gaining ==
    ASSUME DiskImages, NEW s \in Slots, NEW n \in Names,
           \A t \in Slots : n \notin NamesOn(t),
           \A t \in Slots \ {s} : file'[t] = file[t] /\ durable'[t] = durable[t],
           Sound(file'[s], durable'[s]), Bears(file'[s], durable'[s]) \subseteq {n},
           s \in present \ dying, UNCHANGED <<present, dying>>, dying \subseteq Slots
    PROVE  DiskImages' /\ NamesOn(s)' \subseteq {n}
                       /\ \A t \in Slots \ {s} : NamesOn(t)' = NamesOn(t)
  <1>1. /\ NamesOn(s)' \subseteq {n}
        /\ \A t \in Slots \ {s} : NamesOn(t)' = NamesOn(t)
    BY DEF NamesOn, Bears
  <1>2. SlotsAreSound'
    <2>. SUFFICES ASSUME NEW t \in Slots
                  PROVE  Sound(file'[t], durable'[t])
      BY DEF SlotsAreSound
    <2>1. CASE t = s
      BY <2>1
    <2>2. CASE t # s
      BY <2>2 DEF DiskImages, SlotsAreSound
    <2>. QED  BY <2>1, <2>2
  <1>3. AbsentAreCreated'
    BY DEF AbsentAreCreated, DiskImages
  <1>4. NamesApart'
    BY <1>1 DEF NamesApart, DiskImages
  <1>5. DyingAreNameless'
    BY <1>1 DEF DyingAreNameless, DiskImages
  <1>. QED  BY <1>1, <1>2, <1>3, <1>4, <1>5 DEF DiskImages

\* No name comes back and none is newly reported removed.
LEMMA RemovalsHold ==
    ASSUME RemovedAreGone, \A s \in Slots : NamesOn(s)' \subseteq NamesOn(s),
           \A n \in Names : answered'[n] = "absent" => answered[n] = "absent"
    PROVE  RemovedAreGone'
  BY DEF RemovedAreGone

\* The slots of the names that stay promised keep their headers.
LEMMA PromisesHold ==
    ASSUME PromisedAreKept,
           \A n \in Names : answered'[n] = "present" => answered[n] = "present",
           \A s \in present :
              /\ durable[s].hdr.name \in Names /\ answered'[durable[s].hdr.name] = "present"
              /\ Adopted(durable[s].hdr) /\ file[s].hdr = durable[s].hdr
              => /\ s \in present'
                 /\ file'[s].hdr = file[s].hdr /\ durable'[s].hdr = durable[s].hdr
    PROVE  PromisedAreKept'
  BY DEF PromisedAreKept

\* A pool that has given everything up.
LEMMA NothingOwned ==
    ASSUME available' = <<>>, quarantined' = {}, op' = Idle, state' # "Active",
           \A h \in Handles : handle'[h] = Closed
    PROVE  PoolImages'
  <1>1. op'.kind = "none" /\ op'.pc = "idle"
    BY IdleFacts
  <1>. QED  BY <1>1, EmptyFacts
            DEF PoolImages, NamesAreMapped, MapIsRead, Published, QuarantineIsUnpromised,
                UnusedSlotsAreBlank, CollectedAreBlank, ImportIsUnnamed, ImportIsFresh,
                OpenFilesBearNames

\* What the map says of the names on slots.
LEMMA MapFacts ==
    ASSUME PoolInv, NamesAreMapped, Published
    PROVE  /\ \A s \in Slots \ quarantined : \A n \in NamesOn(s) : n \in Names /\ map[n] = s
           /\ \A s \in Slots \ Owned : NamesOn(s) = {}
           /\ quarantined = {} =>
                 \A n \in Names : map[n] = NoSlot => \A s \in Slots : n \notin NamesOn(s)
  <1>1. \A s \in Slots \ quarantined : \A n \in NamesOn(s) : n \in Names /\ map[n] = s
    BY DEF NamesAreMapped
  <1>2. \A s \in Slots : s # NoSlot
    BY SlotAssumption
  <1>3. \A s \in Slots \ Owned : NamesOn(s) = {}
    BY <1>1, <1>2 DEF Owned, Assigned, AssignedBy
  <1>4. quarantined = {} =>
            \A n \in Names : map[n] = NoSlot => \A s \in Slots : n \notin NamesOn(s)
    BY <1>1, <1>2
  <1>. QED  BY <1>1, <1>3, <1>4

\* The types of the images.
LEMMA ImageTypes ==
    ASSUME PoolInv
    PROVE  /\ \A s \in Slots : file[s] \in Images /\ durable[s] \in Images
           /\ file \in [Slots -> Images] /\ durable \in [Slots -> Images]
           /\ dying \subseteq Slots /\ present \subseteq Slots
           /\ dying \subseteq present \ Held
  BY DEF PoolInv, TypeOK, OperationShape

\* Slots bear names.
LEMMA NamesOnSlots ==
    ASSUME PoolInv, NEW s \in Slots
    PROVE  NamesOn(s) \subseteq Names
  <1>1. file[s].hdr \in Headers /\ durable[s].hdr \in Headers
    BY ImageTypes DEF Images
  <1>. QED  BY <1>1, HeaderFacts DEF NamesOn

-----------------------------------------------------------------------------
(* Steps that write no slot *)

\* Entries may appear, empty, and nameless ones be left to the browser.
LEMMA NothingWritten ==
    ASSUME PoolInv, PoolInv', ImageInv, PoolImages', UNCHANGED <<file, durable, answered>>,
           present \subseteq present', \A s \in dying' : NamesOn(s) = {}
    PROVE  ImageInv'
  <1>1. dying' \subseteq Slots /\ present' \subseteq Slots
    BY DEF PoolInv, TypeOK
  <1>2. \A s \in Slots : Fades(file[s], durable[s], file'[s], durable'[s])
    BY DEF Fades, ImageInv, DiskImages, SlotsAreSound
  <1>3. \A s \in Slots \ present' : file'[s] = Created /\ durable'[s] = Created
    BY DEF ImageInv, DiskImages, AbsentAreCreated
  <1>4. DiskImages'
    BY <1>1, <1>2, <1>3, Fading DEF ImageInv
  <1>5. RemovedAreGone'
    BY DEF RemovedAreGone, NamesOn, ImageInv, AnswersHold
  <1>6. PromisedAreKept'
    BY PromisesHold DEF ImageInv, AnswersHold
  <1>. QED  BY <1>4, <1>5, <1>6 DEF ImageInv, AnswersHold

\* Operations begin, await and end, and write no slot that was held.
LEMMA OperationImages ==
    ASSUME PoolInv, ImageInv, (op.kind # "import" /\ op'.kind # "import") \/ op' = op,
           UNCHANGED <<answered, map, quarantined, needs_recovery, handle>>,
           \A s \in Held : file'[s] = file[s] /\ durable'[s] = durable[s],
           \A s \in Slots : NamesOn(s)' = NamesOn(s),
           \A s \in Range(available') \ Range(available) :
               file'[s] = Blank /\ durable'[s] = Blank,
           Published' => Published,
           op'.pc \in {"create", "acquire", "remove"} =>
              \A s \in op'.got :
                  \/ s \in op.got /\ op.pc \in {"create", "acquire", "remove"}
                  \/ file'[s] = Blank /\ durable'[s] = Blank
    PROVE  PoolImages'
  <1>1. /\ Range(available) \subseteq Held /\ op.got \subseteq Held /\ quarantined \subseteq Slots
        /\ \A n \in Names : map[n] # NoSlot => map[n] \in Held
        /\ op.kind = "import" => op.slot \in Range(available)
        /\ \A h \in Handles : handle[h] # Closed => handle[h].slot \in Held
    <2>1. op.kind = "import" => op.slot \in Range(available)
      BY ImportFacts
    <2>2. \A n \in Names : map[n] # NoSlot => map[n] \in Held
      BY DEF Held, Owned, Assigned, AssignedBy
    <2>3. \A h \in Handles : handle[h] # Closed => handle[h].slot \in Held
      BY <2>2 DEF PoolInv, OpenFilesStayPut
    <2>. QED  BY <2>1, <2>2, <2>3, StackFacts
  <1>2. NamesAreMapped'
    BY DEF NamesAreMapped, ImageInv, PoolImages
  <1>3. MapIsRead'
    BY <1>1 DEF MapIsRead, ImageInv, PoolImages
  <1>4. QuarantineIsUnpromised'
    BY <1>1 DEF QuarantineIsUnpromised, ImageInv, PoolImages
  <1>5. UnusedSlotsAreBlank'
    BY <1>1 DEF UnusedSlotsAreBlank, ImageInv, PoolImages
  <1>6. CollectedAreBlank'
    BY <1>1 DEF CollectedAreBlank, ImageInv, PoolImages
  <1>7. ImportIsUnnamed' /\ ImportIsFresh'
    BY <1>1 DEF ImportIsUnnamed, ImportIsFresh, ImageInv, PoolImages
  <1>8. OpenFilesBearNames'
    BY <1>1 DEF OpenFilesBearNames, ImageInv, PoolImages
  <1>. QED  BY <1>2, <1>3, <1>4, <1>5, <1>6, <1>7, <1>8 DEF PoolImages

\* xOpen of an existing file: a healthy pool's map is what the headers say.
LEMMA OpenExistingImages ==
    ASSUME PoolInv, PoolInv', ImageInv, NEW h \in Handles, NEW n \in Names, NEW d \in BOOLEAN,
           OpenExisting(h, n, d)
    PROVE  ImageInv'
  <1>1. /\ CheckActive /\ map[n] # NoSlot
        /\ handle' = [handle EXCEPT ![h] =
                        [slot |-> map[n], name |-> n, delete_on_close |-> d]]
        /\ UNCHANGED <<present, file, durable, dying, state, available, map, quarantined,
                       needs_recovery, op, answered>>
    BY DEF OpenExisting, HasFilename, disk, pool
  <1>2. file[map[n]].hdr.name = n
    BY <1>1, ActiveFacts DEF ImageInv, PoolImages, MapIsRead, Published
  <1>3. OpenFilesBearNames'
    <2>. SUFFICES ASSUME NEW g \in Handles, handle'[g] # Closed
                  PROVE  file[handle'[g].slot].hdr.name = handle'[g].name
      BY <1>1 DEF OpenFilesBearNames
    <2>1. CASE g = h
      BY <1>1, <1>2, <2>1 DEF PoolInv, TypeOK
    <2>2. CASE g # h
      BY <1>1, <2>2 DEF PoolInv, TypeOK, ImageInv, PoolImages, OpenFilesBearNames
    <2>. QED  BY <2>1, <2>2
  <1>4. PoolImages'
    BY <1>1, <1>3
       DEF ImageInv, PoolImages, NamesAreMapped, MapIsRead, Published, QuarantineIsUnpromised,
           UnusedSlotsAreBlank, CollectedAreBlank, ImportIsUnnamed, ImportIsFresh, NamesOn
  <1>5. \A s \in dying' : NamesOn(s) = {}
    BY <1>1 DEF ImageInv, DiskImages, DyingAreNameless
  <1>. QED  BY <1>1, <1>4, <1>5, NothingWritten

\* An import begins on the blank top slot; no image bears its name or a sidecar's.
LEMMA CreateImportImages ==
    ASSUME PoolInv, PoolInv', ImageInv, NEW n \in Names, CreateImport(n)
    PROVE  ImageInv'
  <1>1. /\ CheckActive /\ map[n] = NoSlot /\ \A m \in Sidecars[n] : map[m] = NoSlot
        /\ available # <<>>
        /\ op' = Operation("import", "open", Last(available), n, 0, FALSE)
        /\ UNCHANGED <<present, file, durable, dying, state, available, map, quarantined,
                       needs_recovery, handle, answered>>
    BY DEF CreateImport, HasFilename, disk, pool, BeginTransfer
  <1>2. op'.kind = "import" /\ op'.pc = "open" /\ op'.slot = Last(available) /\ op'.name = n
    BY <1>1 DEF Operation
  <1>3. Last(available) \in Range(available)
    BY <1>1, StackFacts, PopFacts
  <1>4. file[Last(available)] = Blank /\ durable[Last(available)] = Blank
    BY <1>1, <1>3, ActiveFacts DEF ImageInv, PoolImages, UnusedSlotsAreBlank
  <1>5. ImportIsUnnamed'
    BY <1>1, <1>2, <1>4, HeaderFacts DEF ImportIsUnnamed
  <1>6. \A m \in {n} \cup Sidecars[n] : \A s \in Slots : m \notin NamesOn(s)
    <2>1. Sidecars[n] \subseteq Names
      BY SidecarAssumption
    <2>. QED  BY <1>1, <2>1, ActiveFacts, MapFacts DEF ImageInv, PoolImages, Published
  <1>7. ImportIsFresh'
    BY <1>1, <1>2, <1>6 DEF ImportIsFresh, NamesOn
  <1>8. UnusedSlotsAreBlank' /\ CollectedAreBlank'
    BY <1>1, <1>2, ActiveFacts
       DEF UnusedSlotsAreBlank, CollectedAreBlank, ImageInv, PoolImages
  <1>9. PoolImages'
    BY <1>1, <1>2, <1>5, <1>7, <1>8, ActiveFacts
       DEF ImageInv, PoolImages, NamesAreMapped, MapIsRead, Published, QuarantineIsUnpromised,
           OpenFilesBearNames, NamesOn
  <1>10. \A s \in dying' : NamesOn(s) = {}
    BY <1>1 DEF ImageInv, DiskImages, DyingAreNameless
  <1>. QED  BY <1>1, <1>9, <1>10, NothingWritten

\* The other steps that only begin, continue or end an operation.
LEMMA OperationStepImages ==
    ASSUME PoolInv, PoolInv', ImageInv,
           \/ \E n \in Names : OpenExport(n)
           \/ ExportDrop \/ ResumeBegin \/ AcquireLease
           \/ \E clear \in BOOLEAN : InstallBegin(clear)
           \/ \E s \in Slots : AcquireSlot(s)
           \/ \E n \in 1..MaxChange : AddBegin(n) \/ ReduceBegin(n)
           \/ \E s \in Slots : AddCreate(s)
           \/ AddCollides
    PROVE  ImageInv'
  <1>. DEFINE Growing == {"create", "acquire", "remove"}
  <1>1. /\ UNCHANGED <<file, durable, dying, state, map, quarantined, needs_recovery,
                       handle, answered>>
        /\ present \subseteq present'
    BY DEF OpenExport, ExportDrop, ResumeBegin, AcquireLease, InstallBegin, AcquireSlot,
           AddBegin, ReduceBegin, AddCreate, AddCollides, disk, pool
  <1>2. Range(available') \subseteq Range(available)
    <2>1. CASE \E n \in 1..MaxChange : ReduceBegin(n)
      <3>1. available # <<>> /\ available' = Front(available)
        BY <2>1, EmptyFacts DEF ReduceBegin, PopForRemoval
      <3>. QED  BY <3>1, StackFacts, PopFacts
    <2>2. CASE available' = available
      BY <2>2
    <2>. QED  BY <2>1, <2>2
              DEF OpenExport, ExportDrop, ResumeBegin, AcquireLease, InstallBegin, AcquireSlot,
                  AddBegin, AddCreate, AddCollides, pool
  <1>3. /\ op.kind # "import" /\ op'.kind # "import"
        /\ Published' => Published
        /\ op'.pc \in Growing => op'.got = {} \/ (op'.got = op.got /\ op.pc \in Growing)
    <2>1. CASE \E n \in Names : OpenExport(n)
      <3>1. PICK n \in Names : OpenExport(n)
        BY <2>1
      <3>2. CheckActive /\ op' = Operation("export", "open", map[n], n, 0, FALSE)
        BY <3>1 DEF OpenExport, BeginTransfer
      <3>3. op'.kind = "export" /\ op'.got = {}
        BY <3>2 DEF Operation
      <3>. QED  BY <1>1, <3>2, <3>3, ActiveFacts DEF Published
    <2>2. CASE ExportDrop
      BY <1>1, <2>2, IdleFacts DEF ExportDrop, EndOperation, Published
    <2>3. CASE ResumeBegin \/ \E clear \in BOOLEAN : InstallBegin(clear)
      <3>1. /\ op.kind = "none" /\ state # "Active"
            /\ \E k \in {"resume", "install"}, c \in BOOLEAN :
                  op' = Operation(k, "lease", NoSlot, NoName, 0, c)
        BY <2>3 DEF ResumeBegin, InstallBegin, BeginAcquiring, Busy
      <3>2. op'.kind \in {"resume", "install"} /\ op'.pc = "lease" /\ op'.got = {}
        BY <3>1 DEF Operation
      <3>. QED  BY <1>1, <3>1, <3>2 DEF Published
    <2>4. CASE AcquireLease \/ \E s \in Slots : AcquireSlot(s)
      <3>1. op.pc \in {"lease", "slots"} /\ op'.kind = op.kind /\ op'.pc = "slots"
        BY <2>4 DEF AcquireLease, AcquireSlot, PoolInv, TypeOK, Operations
      <3>. QED  BY <1>1, <3>1 DEF Published, PoolInv, OperationShape
    <2>5. CASE \E n \in 1..MaxChange : AddBegin(n) \/ ReduceBegin(n)
      <3>1. /\ CheckActive
            /\ \E k \in {"add", "reduce"}, p \in Phases : \E s, l :
                  op' = Operation(k, p, s, NoName, l, FALSE)
        BY <2>5 DEF AddBegin, ReduceBegin, PopForRemoval, Phases
      <3>2. op'.kind \in {"add", "reduce"} /\ op'.got = {}
        BY <3>1 DEF Operation
      <3>. QED  BY <1>1, <3>1, <3>2, ActiveFacts DEF Published
    <2>6. CASE AddCollides \/ \E s \in Slots : AddCreate(s)
      <3>1. /\ op.pc \in {"create", "acquire"} /\ op'.kind = op.kind /\ op'.got = op.got
        BY <2>6 DEF AddCreate, AddCollides, AddAcquirable, PoolInv, TypeOK, Operations
      <3>. QED  BY <1>1, <3>1, GrowingFacts DEF Published
    <2>. QED  BY <2>1, <2>2, <2>3, <2>4, <2>5, <2>6
  <1>4. PoolImages'
    <2>1. \A s \in Slots : NamesOn(s)' = NamesOn(s)
      BY <1>1 DEF NamesOn
    <2>. QED  BY <1>1, <1>2, <1>3, <2>1, OperationImages
  <1>5. \A s \in dying' : NamesOn(s) = {}
    BY <1>1 DEF ImageInv, DiskImages, DyingAreNameless
  <1>. QED  BY <1>1, <1>4, <1>5, NothingWritten

\* The slot whose removal an operation awaits is on no list, so it has no name.
LEMMA RemovedSlotIsNameless ==
    ASSUME PoolInv, ImageInv, op.pc = "remove"
    PROVE  Published /\ op.slot \in Slots /\ NamesOn(op.slot) = {}
  <1>1. op.slot \in present \ (Held \cup dying) /\ op.slot \in Slots
    BY RemovalFacts
  <1>2. Published
    BY RemovalFacts DEF Published, PoolInv, OperationShape
  <1>3. op.slot \notin Owned
    BY <1>1, StackFacts
  <1>. QED  BY <1>1, <1>2, <1>3, MapFacts DEF ImageInv, PoolImages

\* What the end of an operation leaves of the pool.
LEMMA UnwindImages ==
    ASSUME PoolInv, ImageInv, op.kind \in {"add", "reduce", "resume", "install"}, Unwind,
           UNCHANGED <<state, handle, answered>>,
           \A s \in Held : file'[s] = file[s] /\ durable'[s] = durable[s],
           \A s \in Slots : NamesOn(s)' = NamesOn(s)
    PROVE  PoolImages'
  <1>1. CASE op.kind = "install"
    <2>1. available' = <<>> /\ quarantined' = {} /\ op' = Idle
      BY <1>1 DEF Unwind, ReleaseSlots, EndOperation
    <2>2. state' # "Active" /\ \A h \in Handles : handle'[h] = Closed
      BY <1>1, AcquiringFacts
    <2>. QED  BY <2>1, <2>2, NothingOwned
  <1>2. CASE op.kind # "install"
    <2>1. op' = Idle /\ UNCHANGED <<available, map, quarantined, needs_recovery>>
      BY <1>2 DEF Unwind, EndOperation, pool
    <2>2. op'.kind = "none" /\ op'.pc = "idle" /\ (Published' => Published)
      BY <2>1, IdleFacts DEF Published
    <2>. QED  BY <2>1, <2>2, OperationImages
  <1>. QED  BY <1>1, <1>2

\* Operations that fail or are dropped without having written anything.
LEMMA FailureImages ==
    ASSUME PoolInv, PoolInv', ImageInv, OperationFails \/ RemovalFails
    PROVE  ImageInv'
  <1>1. /\ Unwind
        /\ UNCHANGED <<present, file, durable, state, handle, answered>>
    BY DEF OperationFails, RemovalFails, disk
  <1>2. op.kind \in {"add", "reduce", "resume", "install"}
    BY RemovalFacts DEF OperationFails, RemovalFails
  <1>3. \A s \in dying : NamesOn(s) = {}
    BY DEF ImageInv, DiskImages, DyingAreNameless
  <1>4. \A s \in dying' : NamesOn(s) = {}
    <2>1. CASE dying' = dying
      BY <1>3, <2>1
    <2>2. CASE RemovalFails
      BY <1>3, <2>2, RemovedSlotIsNameless DEF RemovalFails
    <2>. QED  BY <2>1, <2>2 DEF OperationFails
  <1>5. PoolImages'
    <2>1. \A s \in Slots : NamesOn(s)' = NamesOn(s)
      BY <1>1 DEF NamesOn
    <2>. QED  BY <1>1, <1>2, <2>1, UnwindImages
  <1>. QED  BY <1>1, <1>4, <1>5, NothingWritten

\* pause, uninstall and the end of the worker touch no file.
LEMMA ReleaseImages ==
    ASSUME PoolInv, PoolInv', ImageInv, Pause \/ Uninstall \/ WorkerDies
    PROVE  ImageInv'
  <1>1. /\ available' = <<>> /\ quarantined' = {} /\ state' # "Active"
        /\ UNCHANGED <<present, file, durable, dying, answered>>
    BY DEF Pause, Uninstall, WorkerDies, ForgetMemory, ReleaseSlots, disk
  <1>2. op' = Idle /\ \A h \in Handles : handle'[h] = Closed
    <2>1. CASE Pause \/ Uninstall
      BY <2>1, ClosedFacts DEF Pause, Uninstall, Busy, PoolInv, OperationShape
    <2>2. CASE WorkerDies
      BY <2>2 DEF WorkerDies, ForgetMemory
    <2>. QED  BY <2>1, <2>2
  <1>3. PoolImages'
    BY <1>1, <1>2, NothingOwned
  <1>4. \A s \in dying' : NamesOn(s) = {}
    BY <1>1 DEF ImageInv, DiskImages, DyingAreNameless
  <1>. QED  BY <1>1, <1>3, <1>4, NothingWritten

\* Foreign code, and steps of nobody.
LEMMA ElsewhereImages ==
    ASSUME ImageInv,
           UNCHANGED <<disk, dying, state, pool, handle, op, answered>>
    PROVE  ImageInv'
  <1>1. UNCHANGED <<present, file, durable, dying, state, available, map, quarantined,
                    needs_recovery, handle, op, answered>>
    BY DEF disk, pool
  <1>2. DiskImages'
    BY <1>1 DEF ImageInv, DiskImages, SlotsAreSound, AbsentAreCreated, NamesApart,
                DyingAreNameless, NamesOn
  <1>3. PoolImages'
    BY <1>1 DEF ImageInv, PoolImages, NamesAreMapped, MapIsRead, Published,
                QuarantineIsUnpromised, UnusedSlotsAreBlank, CollectedAreBlank,
                ImportIsUnnamed, ImportIsFresh, OpenFilesBearNames, NamesOn
  <1>4. AnswersHold'
    BY <1>1 DEF ImageInv, AnswersHold, PromisedAreKept, RemovedAreGone, NamesOn
  <1>. QED  BY <1>2, <1>3, <1>4 DEF ImageInv

-----------------------------------------------------------------------------
(* Writes through an open file *)

\* The slot of an open file is assigned, and bears the file's name.
LEMMA OpenFileFacts ==
    ASSUME PoolInv, ImageInv, NEW h \in Handles, handle[h] # Closed
    PROVE  /\ handle[h].slot \in Slots /\ handle[h].slot \in Assigned
           /\ handle[h].slot \in present \ (Range(available) \cup op.got \cup quarantined)
           /\ handle[h].name \in Names /\ map[handle[h].name] = handle[h].slot
           /\ file[handle[h].slot].hdr.name = handle[h].name
           /\ op.kind = "import" => op.slot \in Range(available)
           /\ state = "Active"
  <1>1. /\ handle[h].name \in Names /\ map[handle[h].name] = handle[h].slot
        /\ handle[h].slot # NoSlot /\ state = "Active"
    BY DEF PoolInv, OpenFilesStayPut
  <1>2. handle[h].slot \in Slots
    BY <1>1, StackFacts DEF Assignments
  <1>3. handle[h].slot \in Assigned
    BY <1>1 DEF Assigned, AssignedBy
  <1>4. handle[h].slot \in present \ (Range(available) \cup op.got \cup quarantined)
    BY <1>3, StackFacts
  <1>5. op.kind = "import" => op.slot \in Range(available)
    BY ImportFacts
  <1>6. file[handle[h].slot].hdr.name = handle[h].name
    BY DEF ImageInv, PoolImages, OpenFilesBearNames
  <1>. QED  BY <1>1, <1>2, <1>3, <1>4, <1>5, <1>6

\* Contents of a file are written or flushed, and its header stays.
LEMMA ContentsWritten ==
    ASSUME PoolInv, PoolInv', ImageInv, NEW s \in Assigned,
           \A t \in Slots \ {s} : file'[t] = file[t] /\ durable'[t] = durable[t],
           Fades(file[s], durable[s], file'[s], durable'[s]),
           file'[s].hdr = file[s].hdr, durable'[s].hdr \in {durable[s].hdr, file[s].hdr},
           \A h \in Handles : handle'[h] \in {handle[h], Closed},
           UNCHANGED <<present, dying, state, pool, op, answered>>
    PROVE  ImageInv'
  <1>1. /\ s \in Slots /\ s \in present
        /\ s \notin Range(available) /\ s \notin op.got /\ s \notin quarantined
        /\ op.kind = "import" => op.slot \in Range(available)
    <2>1. op.kind = "import" => op.slot \in Range(available)
      BY ImportFacts
    <2>. QED  BY <2>1, StackFacts
  <1>2. UNCHANGED <<available, map, quarantined, needs_recovery>>
    BY DEF pool
  <1>3. \A t \in Slots : Fades(file[t], durable[t], file'[t], durable'[t])
    BY DEF Fades, ImageInv, DiskImages, SlotsAreSound
  <1>4. \A t \in Slots \ present' : file'[t] = Created /\ durable'[t] = Created
    BY <1>1 DEF ImageInv, DiskImages, AbsentAreCreated
  <1>5. DiskImages' /\ \A t \in Slots : NamesOn(t)' \subseteq NamesOn(t)
    BY <1>3, <1>4, ImageTypes, Fading DEF ImageInv, DiskImages, DyingAreNameless
  <1>6. \A t \in Slots : file'[t].hdr = file[t].hdr
    OBVIOUS
  <1>7. RemovedAreGone'
    BY <1>5, RemovalsHold DEF ImageInv, AnswersHold
  <1>8. PromisedAreKept'
    BY <1>6, PromisesHold, ImageTypes DEF ImageInv, AnswersHold
  <1>9. NamesAreMapped' /\ QuarantineIsUnpromised'
    BY <1>2, <1>5 DEF NamesAreMapped, QuarantineIsUnpromised, Published, ImageInv, PoolImages,
                      PoolInv, TypeOK
  <1>10. MapIsRead'
    BY <1>2, <1>6 DEF MapIsRead, Published, ImageInv, PoolImages, PoolInv, TypeOK, Assignments
  <1>11. UnusedSlotsAreBlank' /\ CollectedAreBlank'
    BY <1>1, <1>2 DEF UnusedSlotsAreBlank, CollectedAreBlank, ImageInv, PoolImages,
                      PoolInv, TypeOK, Operations, Range
  <1>12. ImportIsUnnamed'
    BY <1>1, StackFacts DEF ImportIsUnnamed, ImageInv, PoolImages, PoolInv, OperationShape
  <1>13. ImportIsFresh'
    BY <1>5 DEF ImportIsFresh, ImageInv, PoolImages
  <1>14. OpenFilesBearNames'
    BY <1>6, OpenFileFacts DEF OpenFilesBearNames
  <1>. QED  BY <1>5, <1>7, <1>8, <1>9, <1>10, <1>11, <1>12, <1>13, <1>14
            DEF ImageInv, PoolImages, AnswersHold

\* xWrite, xTruncate and xSync.
LEMMA FileStepImages ==
    ASSUME PoolInv, PoolInv', ImageInv, NEW h \in Handles, Write(h) \/ Truncate(h) \/ Sync(h)
    PROVE  ImageInv'
  <1>1. PICK s \in Slots : s = handle[h].slot
    BY OpenFileFacts DEF Write, Truncate, Sync
  <1>2. s \in Assigned /\ file[s].hdr.name \in Names /\ file[s] \in Images /\ durable[s] \in Images
    BY <1>1, OpenFileFacts, ImageTypes DEF Write, Truncate, Sync
  <1>3. Sound(file[s], durable[s])
    BY DEF ImageInv, DiskImages, SlotsAreSound
  <1>4. CASE Write(h) \/ Truncate(h)
    <2>1. PICK x \in {"whole", "emptied"} :
            file' = [file EXCEPT ![s].data = x] /\ durable' = durable
      BY <1>1, <1>4 DEF Write, Truncate
    <2>2. file'[s] \in Images /\ file'[s].hdr = file[s].hdr /\ file'[s].data = x
      BY <1>2, <2>1, ImageTypes DEF Images, Contents
    <2>3. Fades(file[s], durable[s], file'[s], durable'[s])
      BY <1>2, <1>3, <2>1, <2>2, WritingFades, NoNameAssumption
    <2>4. \A t \in Slots \ {s} : file'[t] = file[t] /\ durable'[t] = durable[t]
      BY <2>1, ImageTypes
    <2>. QED  BY <1>2, <1>4, <2>1, <2>2, <2>3, <2>4, ContentsWritten DEF Write, Truncate
  <1>5. CASE Sync(h)
    <2>1. PICK o \in Flush(file[s], durable[s]) : SetImages(s, o)
      BY <1>1, <1>5 DEF Sync
    <2>2. file'[s] = o.file /\ durable'[s] = o.durable
          /\ \A t \in Slots \ {s} : file'[t] = file[t] /\ durable'[t] = durable[t]
      BY <2>1, ImageTypes DEF SetImages
    <2>3. /\ Fades(file[s], durable[s], file'[s], durable'[s])
          /\ file'[s] = file[s] /\ durable'[s] \in {durable[s], file[s]}
      BY <1>2, <1>3, <2>2, FlushFades
    <2>. QED  BY <1>2, <1>5, <2>2, <2>3, ContentsWritten DEF Sync
  <1>. QED  BY <1>4, <1>5

-----------------------------------------------------------------------------
(* Deleting *)

\* delete_file: the name's one slot loses it, wholly or partly, and no other has it.
LEMMA RemoveFileImages ==
    ASSUME PoolInv, PoolInv', ImageInv, CheckActive, NEW n \in Names, NEW s \in Slots, map[n] = s,
           NEW d \in [Slots -> Images], RemoveFile(n, d),
           \A t \in Slots \ {s} : d[t] = durable[t], d[s] \in {durable[s], file[s]},
           \A h \in Handles : handle'[h] # Closed =>
               handle'[h] = handle[h] /\ handle[h].slot # s,
           UNCHANGED <<present, dying, state, op>>
    PROVE  ImageInv'
  <1>1. PICK o \in Unnaming(file[s], d[s]) :
            /\ file' = [file EXCEPT ![s] = o.file]
            /\ durable' = [d EXCEPT ![s] = o.durable]
            /\ IF o.ok
               THEN /\ available' = Append(available, s)
                    /\ map' = [map EXCEPT ![n] = NoSlot]
                    /\ needs_recovery' = needs_recovery
                    /\ answered' = [answered EXCEPT ![n] = "absent"]
               ELSE /\ needs_recovery' = TRUE
                    /\ available' = available /\ map' = map
                    /\ answered' = [answered EXCEPT ![n] = "unknown"]
            /\ quarantined' = quarantined
    BY DEF RemoveFile, Answer
  <1>2. /\ state = "Active" /\ needs_recovery = FALSE /\ Published /\ quarantined = {}
        /\ op.kind = "none" /\ op.pc = "idle"
    BY ActiveFacts DEF Published, PoolInv, TypeOK
  <1>3. /\ s \in present /\ s \notin Range(available) /\ available \in Seq(Slots)
        /\ \A m \in Names \ {n} : map[m] # s
        /\ map \in [Names -> Slots \cup {NoSlot}] /\ answered \in [Names -> Answers]
    <2>1. s \in Assigned
      BY SlotAssumption DEF Assigned, AssignedBy
    <2>. QED  BY <2>1, SlotAssumption, StackFacts DEF OneNamePerSlot, Assignments, PoolInv, TypeOK
  <1>4. Sound(file[s], d[s]) /\ Bears(file[s], d[s]) \subseteq Bears(file[s], durable[s])
    <2>1. Sound(file[s], durable[s])
      BY DEF ImageInv, DiskImages, SlotsAreSound
    <2>. QED  BY <2>1 DEF Sound, Bears
  <1>5. /\ Fades(file[s], d[s], o.file, o.durable)
        /\ o.ok => o.file = Blank /\ o.durable = Blank
    BY <1>4, ImageTypes, UnnamingFades
  <1>6. /\ file'[s] = o.file /\ durable'[s] = o.durable
        /\ \A t \in Slots \ {s} : file'[t] = file[t] /\ durable'[t] = durable[t]
    BY <1>1, ImageTypes
  <1>7. \A t \in Slots : Fades(file[t], durable[t], file'[t], durable'[t])
    <2>. SUFFICES ASSUME NEW t \in Slots
                  PROVE  Fades(file[t], durable[t], file'[t], durable'[t])
      OBVIOUS
    <2>1. CASE t = s
      BY <1>4, <1>5, <1>6, <2>1 DEF Fades
    <2>2. CASE t # s
      BY <1>6, <2>2 DEF Fades, ImageInv, DiskImages, SlotsAreSound
    <2>. QED  BY <2>1, <2>2
  <1>8. \A t \in Slots \ present' : file'[t] = Created /\ durable'[t] = Created
    BY <1>3, <1>6 DEF ImageInv, DiskImages, AbsentAreCreated
  <1>9. DiskImages' /\ \A t \in Slots : NamesOn(t)' \subseteq NamesOn(t)
    BY <1>7, <1>8, ImageTypes, Fading DEF ImageInv, DiskImages, DyingAreNameless
  <1>10. \A t \in Slots : \A m \in NamesOn(t) : m \in Names /\ map[m] = t
    BY <1>2, MapFacts DEF ImageInv, PoolImages
  <1>11. o.ok => \A t \in Slots : n \notin NamesOn(t)'
    <2>. SUFFICES ASSUME o.ok, NEW t \in Slots, n \in NamesOn(t)'
                  PROVE  FALSE
      OBVIOUS
    <2>1. t = s
      BY <1>9, <1>10
    <2>. QED  BY <1>5, <1>6, <2>1, FreshFacts DEF NamesOn, Bears
  <1>12. RemovedAreGone'
    BY <1>1, <1>3, <1>9, <1>11 DEF RemovedAreGone, ImageInv, AnswersHold
  <1>13. PromisedAreKept'
    <2>1. \A m \in Names : answered'[m] = "present" => answered[m] = "present" /\ m # n
      BY <1>1, <1>3
    <2>2. \A t \in Slots : durable[t].hdr.name \in Names =>
              durable[t].hdr.name \in NamesOn(t)
      BY NoNameAssumption DEF NamesOn
    <2>3. \A t \in Slots : durable[t].hdr.name \in Names \ {n} => t # s
      BY <1>3, <1>10, <2>2
    <2>. QED  BY <1>6, <2>1, <2>3, PromisesHold, ImageTypes DEF ImageInv, AnswersHold
  <1>14. NamesAreMapped'
    <2>. SUFFICES ASSUME NEW t \in Slots, NEW m \in NamesOn(t)'
                  PROVE  m \in Names /\ map'[m] = t
      BY DEF NamesAreMapped
    <2>1. m \in Names /\ map[m] = t
      BY <1>9, <1>10
    <2>. QED  BY <1>1, <1>3, <1>11, <2>1
  <1>15. MapIsRead'
    <2>. SUFFICES ASSUME o.ok, NEW m \in Names, map'[m] # NoSlot
                  PROVE  file'[map'[m]].hdr.name = m
      BY <1>1 DEF MapIsRead
    <2>1. m # n /\ map'[m] = map[m] /\ map[m] \in Slots \ {s}
      BY <1>1, <1>3
    <2>2. file[map[m]].hdr.name = m
      BY <1>2, <1>3, <2>1 DEF ImageInv, PoolImages, MapIsRead
    <2>. QED  BY <1>6, <2>1, <2>2
  <1>16. UnusedSlotsAreBlank'
    <2>1. \A t \in Range(available) : t \in Slots \ {s} /\ file[t] = Blank /\ durable[t] = Blank
      BY <1>2, <1>3 DEF ImageInv, PoolImages, UnusedSlotsAreBlank, Range
    <2>2. Range(Append(available, s)) = Range(available) \cup {s}
      BY <1>3, PushFacts
    <2>3. CASE o.ok
      <3>1. Range(available') = Range(available) \cup {s}
        BY <1>1, <2>2, <2>3
      <3>. QED  BY <1>5, <1>6, <2>1, <2>3, <3>1 DEF UnusedSlotsAreBlank
    <2>4. CASE ~o.ok
      BY <1>1, <1>6, <2>1, <2>4 DEF UnusedSlotsAreBlank
    <2>. QED  BY <2>3, <2>4
  <1>17. CollectedAreBlank' /\ ImportIsUnnamed' /\ ImportIsFresh' /\ QuarantineIsUnpromised'
    BY <1>1, <1>2 DEF CollectedAreBlank, ImportIsUnnamed, ImportIsFresh, QuarantineIsUnpromised
  <1>18. OpenFilesBearNames'
    BY <1>6, OpenFileFacts DEF OpenFilesBearNames
  <1>. QED  BY <1>9, <1>12, <1>13, <1>14, <1>15, <1>16, <1>17, <1>18
            DEF ImageInv, PoolImages, AnswersHold

\* remove of the management interface, and xDelete.
LEMMA DeleteFileImages ==
    ASSUME PoolInv, PoolInv', ImageInv, NEW n \in Names, DeleteFile(n)
    PROVE  ImageInv'
  <1>1. /\ CheckActive /\ map[n] # NoSlot /\ RemoveFile(n, durable)
        /\ \A h \in Handles : handle[h].slot # map[n]
        /\ UNCHANGED <<present, dying, state, handle, op>>
    BY DEF DeleteFile, HasFilename, OpenOn
  <1>2. PICK s \in Slots : map[n] = s
    BY <1>1, StackFacts DEF Assignments
  <1>. QED  BY <1>1, <1>2, ImageTypes, RemoveFileImages

\* xClose: flush, then delete the name the file was opened under.
LEMMA CloseFileImages ==
    ASSUME PoolInv, PoolInv', ImageInv, NEW h \in Handles, CloseFile(h)
    PROVE  ImageInv'
  <1>1. /\ handle[h] # Closed /\ handle' = [handle EXCEPT ![h] = Closed]
        /\ UNCHANGED <<present, dying, state, op>>
    BY DEF CloseFile
  <1>2. PICK s \in Slots, n \in Names : s = handle[h].slot /\ n = handle[h].name
    BY <1>1, OpenFileFacts
  <1>3. s \in Assigned /\ map[n] = s /\ handle \in [Handles -> HandleRecords]
    BY <1>1, <1>2, OpenFileFacts DEF PoolInv, TypeOK
  <1>4. PICK o \in Flush(file[s], durable[s]) :
            \/ /\ CheckActive
               /\ \A g \in Handles \ {h} : handle[g].slot # map[n]
               /\ RemoveFile(n, [durable EXCEPT ![s] = o.durable])
            \/ SetImages(s, o) /\ UNCHANGED <<pool, answered>>
    BY <1>2 DEF CloseFile
  <1>5. /\ Fades(file[s], durable[s], o.file, o.durable) /\ o.file = file[s]
        /\ o.durable \in {durable[s], file[s]}
    BY <1>4, ImageTypes, FlushFades DEF ImageInv, DiskImages, SlotsAreSound
  <1>6. CASE /\ CheckActive
             /\ \A g \in Handles \ {h} : handle[g].slot # map[n]
             /\ RemoveFile(n, [durable EXCEPT ![s] = o.durable])
    <2>1. PICK d \in [Slots -> Images] : d = [durable EXCEPT ![s] = o.durable]
      BY <1>5, ImageTypes
    <2>2. d[s] \in {durable[s], file[s]} /\ \A t \in Slots \ {s} : d[t] = durable[t]
      BY <1>5, <2>1, ImageTypes
    <2>3. \A g \in Handles : handle'[g] # Closed => handle'[g] = handle[g] /\ handle[g].slot # s
      BY <1>1, <1>3, <1>6
    <2>. QED  BY <1>1, <1>3, <1>6, <2>1, <2>2, <2>3, RemoveFileImages
  <1>7. CASE SetImages(s, o) /\ UNCHANGED <<pool, answered>>
    <2>1. file'[s] = o.file /\ durable'[s] = o.durable
          /\ \A t \in Slots \ {s} : file'[t] = file[t] /\ durable'[t] = durable[t]
      BY <1>7, ImageTypes DEF SetImages
    <2>2. \A g \in Handles : handle'[g] \in {handle[g], Closed}
      BY <1>1, <1>3
    <2>. QED  BY <1>1, <1>3, <1>5, <1>7, <2>1, <2>2, ContentsWritten
  <1>. QED  BY <1>4, <1>6, <1>7

-----------------------------------------------------------------------------
(* Naming the top slot *)

\* What a healthy pool knows of the slot it would name.
LEMMA TopFacts ==
    ASSUME PoolInv, ImageInv, available # <<>>, op.got = {}
    PROVE  /\ Last(available) \in Slots /\ Last(available) \in Range(available)
           /\ Last(available) \in present \ dying
           /\ \A n \in Names : map[n] # Last(available)
           /\ \A h \in Handles : handle[h] # Closed => handle[h].slot # Last(available)
           /\ Range(Front(available)) = Range(available) \ {Last(available)}
           /\ Range(available) \subseteq Slots
  <1>1. /\ Last(available) \in Slots /\ Last(available) \in Range(available)
        /\ Range(Front(available)) = Range(available) \ {Last(available)}
    BY StackFacts, PopFacts
  <1>2. Last(available) \in present \ dying /\ Range(available) \subseteq Slots
    BY <1>1, StackFacts, ImageTypes
  <1>3. Last(available) \notin Assigned
    BY <1>1, StackFacts
  <1>4. \A n \in Names : map[n] # Last(available)
    BY <1>1, <1>3, SlotAssumption DEF Assigned, AssignedBy
  <1>. QED  BY <1>1, <1>2, <1>3, <1>4, OpenFileFacts

\* The top slot is published under a name that was on no slot.
LEMMA NamePublished ==
    ASSUME PoolInv, PoolInv', ImageInv, state = "Active", needs_recovery = FALSE,
           quarantined = {}, op.got = {}, available # <<>>,
           NEW s \in Slots, s = Last(available), NEW n \in Names, map[n] = NoSlot,
           \A t \in Range(available) \ {s} : file[t] = Blank /\ durable[t] = Blank,
           \A t \in Slots \ {s} : file'[t] = file[t] /\ durable'[t] = durable[t],
           Sound(file'[s], durable'[s]), Bears(file'[s], durable'[s]) \subseteq {n},
           file'[s].hdr.name = n, file'[s].hdr = durable'[s].hdr,
           \/ answered' = [answered EXCEPT ![n] = "present"] /\ Adopted(durable'[s].hdr)
           \/ answered' = [answered EXCEPT ![n] = "unknown"],
           available' = Front(available), map' = [map EXCEPT ![n] = s], op' = Idle,
           \A h \in Handles : \/ handle'[h] = handle[h]
                              \/ handle'[h].slot = s /\ handle'[h].name = n,
           UNCHANGED <<present, dying, state, quarantined, needs_recovery>>
    PROVE  ImageInv'
  <1>1. /\ s \in Range(available) /\ s \in present \ dying
        /\ \A m \in Names : map[m] # s
        /\ Range(available') = Range(available) \ {s} /\ Range(available) \subseteq Slots
        /\ \A h \in Handles : handle[h] # Closed => handle[h].slot \in Slots \ {s}
    BY TopFacts, OpenFileFacts
  <1>2. /\ map \in [Names -> Slots \cup {NoSlot}] /\ answered \in [Names -> Answers]
        /\ Published /\ Published'
    BY DEF PoolInv, TypeOK, Assignments, Published
  <1>3. /\ \A t \in Slots : \A m \in NamesOn(t) : m \in Names /\ map[m] = t
        /\ \A t \in Slots : n \notin NamesOn(t)
    BY <1>2, MapFacts DEF ImageInv, PoolImages
  <1>4. DiskImages' /\ NamesOn(s)' \subseteq {n} /\ \A t \in Slots \ {s} : NamesOn(t)' = NamesOn(t)
    BY <1>1, <1>3, ImageTypes, Gaining DEF ImageInv
  <1>5. NamesOn(s) = {}
    BY <1>1, <1>3
  <1>6. RemovedAreGone'
    BY <1>2, <1>4 DEF RemovedAreGone, ImageInv, AnswersHold
  <1>7. PromisedAreKept'
    <2>. SUFFICES ASSUME NEW m \in Names, answered'[m] = "present"
                  PROVE  \E t \in present : /\ durable'[t].hdr.name = m /\ Adopted(durable'[t].hdr)
                                           /\ file'[t].hdr = durable'[t].hdr
      BY DEF PromisedAreKept
    <2>1. CASE m = n
      BY <1>1, <1>2, <2>1
    <2>2. CASE m # n
      <3>1. answered[m] = "present"
        BY <1>2, <2>2
      <3>2. PICK t \in present : /\ durable[t].hdr.name = m /\ Adopted(durable[t].hdr)
                                 /\ file[t].hdr = durable[t].hdr
        BY <3>1 DEF ImageInv, AnswersHold, PromisedAreKept
      <3>3. t \in Slots /\ m \in NamesOn(t)
        BY <3>2, ImageTypes, NoNameAssumption DEF NamesOn
      <3>4. t # s
        BY <1>5, <3>3
      <3>. QED  BY <3>2, <3>3, <3>4
    <2>. QED  BY <2>1, <2>2
  <1>8. NamesAreMapped'
    <2>. SUFFICES ASSUME NEW t \in Slots, NEW m \in NamesOn(t)'
                  PROVE  m \in Names /\ map'[m] = t
      BY DEF NamesAreMapped
    <2>1. CASE t = s
      BY <1>2, <1>4, <2>1
    <2>2. CASE t # s
      BY <1>2, <1>3, <1>4, <2>2
    <2>. QED  BY <2>1, <2>2
  <1>9. MapIsRead'
    <2>. SUFFICES ASSUME NEW m \in Names, map'[m] # NoSlot
                  PROVE  file'[map'[m]].hdr.name = m
      BY DEF MapIsRead
    <2>1. CASE m = n
      BY <1>2, <2>1
    <2>2. CASE m # n
      <3>1. map'[m] = map[m] /\ map[m] \in Slots \ {s}
        BY <1>1, <1>2, <2>2
      <3>2. file[map[m]].hdr.name = m
        BY <1>2, <3>1 DEF ImageInv, PoolImages, MapIsRead
      <3>. QED  BY <3>1, <3>2
    <2>. QED  BY <2>1, <2>2
  <1>10. op'.kind = "none" /\ op'.pc = "idle"
    BY IdleFacts
  <1>11. UnusedSlotsAreBlank'
    BY <1>1 DEF UnusedSlotsAreBlank
  <1>12. CollectedAreBlank' /\ ImportIsUnnamed' /\ ImportIsFresh' /\ QuarantineIsUnpromised'
    BY <1>10 DEF CollectedAreBlank, ImportIsUnnamed, ImportIsFresh, QuarantineIsUnpromised
  <1>13. OpenFilesBearNames'
    <2>. SUFFICES ASSUME NEW h \in Handles, handle'[h] # Closed
                  PROVE  file'[handle'[h].slot].hdr.name = handle'[h].name
      BY DEF OpenFilesBearNames
    <2>1. CASE handle'[h] = handle[h]
      BY <1>1, <2>1, OpenFileFacts
    <2>. QED  BY <2>1
  <1>. QED  BY <1>4, <1>6, <1>7, <1>8, <1>9, <1>11, <1>12, <1>13
            DEF ImageInv, PoolImages, AnswersHold

\* A failed naming is taken back, or its slot quarantined: the name was on no
\* slot before, and nobody was promised it.
LEMMA NameTakenBack ==
    ASSUME PoolInv, PoolInv', ImageInv, state = "Active", needs_recovery = FALSE,
           quarantined = {}, op.got = {}, available # <<>>,
           NEW s \in Slots, s = Last(available), NEW n \in Names, map[n] = NoSlot,
           \A t \in Range(available) \ {s} : file[t] = Blank /\ durable[t] = Blank,
           NEW f \in Images, NEW d \in Images, Sound(f, d), Bears(f, d) \subseteq {n},
           CleanUp(s, f, d),
           \E a \in {"unknown", "refused"} : answered' = [answered EXCEPT ![n] = a],
           op' = Idle, UNCHANGED <<present, dying, state, handle>>
    PROVE  ImageInv'
  <1>1. /\ s \in Range(available) /\ s \in present \ dying
        /\ \A m \in Names : map[m] # s
        /\ Range(Front(available)) = Range(available) \ {s} /\ Range(available) \subseteq Slots
        /\ \A h \in Handles : handle[h] # Closed => handle[h].slot \in Slots \ {s}
    BY TopFacts, OpenFileFacts
  <1>2. /\ map \in [Names -> Slots \cup {NoSlot}] /\ answered \in [Names -> Answers]
        /\ Published
    BY DEF PoolInv, TypeOK, Assignments, Published
  <1>3. /\ \A t \in Slots : \A m \in NamesOn(t) : m \in Names /\ map[m] = t
        /\ \A t \in Slots : n \notin NamesOn(t)
    BY <1>2, MapFacts DEF ImageInv, PoolImages
  <1>4. PICK c \in Unnaming(f, d) :
            /\ SetImages(s, c)
            /\ IF c.ok
               THEN UNCHANGED <<available, quarantined, needs_recovery>>
               ELSE /\ available' = Front(available)
                    /\ quarantined' = quarantined \cup {s}
                    /\ needs_recovery' = TRUE
            /\ map' = map
    BY DEF CleanUp
  <1>5. /\ file'[s] = c.file /\ durable'[s] = c.durable
        /\ \A t \in Slots \ {s} : file'[t] = file[t] /\ durable'[t] = durable[t]
    BY <1>4, ImageTypes DEF SetImages
  <1>6. /\ Sound(file'[s], durable'[s]) /\ Bears(file'[s], durable'[s]) \subseteq {n}
        /\ c.ok => file'[s] = Blank /\ durable'[s] = Blank
    BY <1>5, UnnamingFades DEF Fades
  <1>7. DiskImages' /\ NamesOn(s)' \subseteq {n} /\ \A t \in Slots \ {s} : NamesOn(t)' = NamesOn(t)
    BY <1>1, <1>3, <1>5, <1>6, ImageTypes, Gaining DEF ImageInv
  <1>8. NamesOn(s) = {}
    BY <1>1, <1>3
  <1>9. c.ok => NamesOn(s)' = {}
    BY <1>6, FreshFacts DEF NamesOn, Bears
  <1>10. /\ \A m \in Names : answered'[m] = "present" => answered[m] = "present"
         /\ \A m \in Names : answered'[m] = "absent" => answered[m] = "absent" /\ m # n
         /\ answered'[n] # "present"
    BY <1>2
  <1>11. RemovedAreGone'
    BY <1>7, <1>10 DEF RemovedAreGone, ImageInv, AnswersHold
  <1>12. PromisedAreKept'
    <2>1. \A t \in present : durable[t].hdr.name \in Names => t \in Slots /\ t # s
      BY <1>8, ImageTypes, NoNameAssumption DEF NamesOn
    <2>. QED  BY <1>5, <1>10, <2>1, PromisesHold DEF ImageInv, AnswersHold
  <1>13. NamesAreMapped'
    <2>. SUFFICES ASSUME NEW t \in Slots \ quarantined', NEW m \in NamesOn(t)'
                  PROVE  m \in Names /\ map'[m] = t
      BY DEF NamesAreMapped
    <2>1. t # s
      BY <1>4, <1>9
    <2>. QED  BY <1>3, <1>4, <1>7, <2>1
  <1>14. QuarantineIsUnpromised'
    BY <1>4, <1>7, <1>10 DEF QuarantineIsUnpromised
  <1>15. MapIsRead'
    <2>. SUFFICES ASSUME c.ok, NEW m \in Names, map[m] # NoSlot
                  PROVE  file'[map[m]].hdr.name = m
      BY <1>4 DEF MapIsRead
    <2>1. map[m] \in Slots \ {s}
      BY <1>1, <1>2
    <2>2. file[map[m]].hdr.name = m
      BY <1>2 DEF ImageInv, PoolImages, MapIsRead
    <2>. QED  BY <1>5, <2>1, <2>2
  <1>16. op'.kind = "none" /\ op'.pc = "idle"
    BY IdleFacts
  <1>17. UnusedSlotsAreBlank'
    <2>1. CASE c.ok
      BY <1>1, <1>4, <1>5, <1>6, <2>1 DEF UnusedSlotsAreBlank
    <2>2. CASE ~c.ok
      BY <1>1, <1>4, <1>5, <2>2 DEF UnusedSlotsAreBlank
    <2>. QED  BY <2>1, <2>2
  <1>18. CollectedAreBlank' /\ ImportIsUnnamed' /\ ImportIsFresh'
    BY <1>16 DEF CollectedAreBlank, ImportIsUnnamed, ImportIsFresh
  <1>19. OpenFilesBearNames'
    BY <1>1, <1>5, OpenFileFacts DEF OpenFilesBearNames
  <1>. QED  BY <1>7, <1>11, <1>12, <1>13, <1>14, <1>15, <1>17, <1>18, <1>19
            DEF ImageInv, PoolImages, AnswersHold

\* with_new_file followed by xOpen's handle.
LEMMA OpenNewImages ==
    ASSUME PoolInv, PoolInv', ImageInv, NEW h \in Handles, NEW n \in Names, NEW k \in FileKinds,
           OpenNew(h, n, k)
    PROVE  ImageInv'
  <1>1. /\ CheckActive /\ map[n] = NoSlot /\ available # <<>> /\ k \in {"keep", "temp"}
        /\ available' = Front(available)
        /\ map' = [map EXCEPT ![n] = Last(available)]
        /\ handle' = [handle EXCEPT ![h] =
                        [slot |-> Last(available), name |-> n, delete_on_close |-> k = "temp"]]
        /\ answered' = [answered EXCEPT ![n] = IF k = "keep" THEN "present" ELSE "unknown"]
        /\ UNCHANGED <<present, dying, state, quarantined, needs_recovery, op>>
    BY DEF OpenNew, CanCreate, HasFilename, Answer
  <1>2. /\ state = "Active" /\ needs_recovery = FALSE /\ quarantined = {}
        /\ op = Idle /\ op.got = {} /\ op.kind = "none"
    BY <1>1, ActiveFacts DEF PoolInv, TypeOK
  <1>3. PICK s \in Slots : s = Last(available)
    BY <1>1, <1>2, TopFacts
  <1>4. \A t \in Range(available) : file[t] = Blank /\ durable[t] = Blank
    BY <1>2 DEF ImageInv, PoolImages, UnusedSlotsAreBlank
  <1>5. file[s] = Blank /\ durable[s] = Blank
    BY <1>1, <1>2, <1>3, <1>4, TopFacts
  <1>6. PICK o \in Naming(file[s], durable[s], Named(n, k)) : o.ok /\ SetImages(s, o)
    BY <1>3 DEF OpenNew
  <1>7. /\ Sound(o.file, o.durable) /\ Bears(o.file, o.durable) \subseteq {n}
        /\ o.file.hdr = Named(n, k) /\ o.durable.hdr = Named(n, k)
    <2>1. /\ file[s] \in Images /\ durable[s] \in Images
          /\ file[s].hdr = Free /\ durable[s].hdr = Free /\ k # "import"
      BY <1>1, <1>5, HeaderFacts
    <2>2. Sound(o.file, o.durable) /\ Bears(o.file, o.durable) \subseteq {n}
      BY <1>6, <2>1, NamingFacts
    <2>3. o.file.hdr = Named(n, k) /\ o.durable.hdr = Named(n, k)
      BY <1>6, <2>1, HeaderFacts, NamingSucceeds
    <2>. QED  BY <2>2, <2>3
  <1>8. /\ file'[s] = o.file /\ durable'[s] = o.durable
        /\ \A t \in Slots \ {s} : file'[t] = file[t] /\ durable'[t] = durable[t]
    BY <1>6, ImageTypes DEF SetImages
  <1>9. file'[s].hdr.name = n /\ durable'[s].hdr.flags = k
    BY <1>7, <1>8, HeaderFacts
  <1>10. \A g \in Handles : \/ handle'[g] = handle[g]
                            \/ handle'[g].slot = s /\ handle'[g].name = n
    BY <1>1, <1>3 DEF PoolInv, TypeOK
  <1>11. /\ Sound(file'[s], durable'[s]) /\ Bears(file'[s], durable'[s]) \subseteq {n}
         /\ file'[s].hdr = durable'[s].hdr
    BY <1>7, <1>8
  <1>12. \A t \in Range(available) \ {s} : file[t] = Blank /\ durable[t] = Blank
    BY <1>4
  <1>13. /\ map[n] = NoSlot /\ available # <<>> /\ available' = Front(available)
         /\ map' = [map EXCEPT ![n] = s] /\ op' = Idle
         /\ UNCHANGED <<present, dying, state, quarantined, needs_recovery>>
    BY <1>1, <1>2, <1>3
  <1>14. CASE k = "keep"
    <2>1. answered' = [answered EXCEPT ![n] = "present"] /\ Adopted(durable'[s].hdr)
      BY <1>1, <1>9, <1>14 DEF Adopted
    <2>. QED  BY <1>2, <1>3, <1>8, <1>9, <1>10, <1>11, <1>12, <1>13, <2>1, NamePublished
  <1>15. CASE k = "temp"
    <2>1. answered' = [answered EXCEPT ![n] = "unknown"]
      BY <1>1, <1>15
    <2>. QED  BY <1>2, <1>3, <1>8, <1>9, <1>10, <1>11, <1>12, <1>13, <2>1, NamePublished
  <1>. QED  BY <1>1, <1>14, <1>15

\* Opens that fail.
LEMMA OpenNewFailsImages ==
    ASSUME PoolInv, PoolInv', ImageInv, NEW n \in Names, NEW k \in FileKinds, OpenNewFails(n, k)
    PROVE  ImageInv'
  <1>1. /\ CheckActive /\ map[n] = NoSlot /\ available # <<>> /\ k \in {"keep", "temp"}
        /\ answered' = [answered EXCEPT ![n] = "unknown"]
        /\ UNCHANGED <<present, dying, state, handle, op>>
    BY DEF OpenNewFails, CanCreate, HasFilename, Answer
  <1>2. /\ state = "Active" /\ needs_recovery = FALSE /\ quarantined = {}
        /\ op = Idle /\ op.got = {} /\ op.kind = "none"
    BY <1>1, ActiveFacts DEF PoolInv, TypeOK
  <1>3. PICK s \in Slots : s = Last(available)
    BY <1>1, <1>2, TopFacts
  <1>4. \A t \in Range(available) : file[t] = Blank /\ durable[t] = Blank
    BY <1>2 DEF ImageInv, PoolImages, UnusedSlotsAreBlank
  <1>5. file[s] = Blank /\ durable[s] = Blank
    BY <1>1, <1>2, <1>3, <1>4, TopFacts
  <1>6. PICK o \in Naming(file[s], durable[s], Named(n, k)) : CleanUp(s, o.file, o.durable)
    BY <1>3 DEF OpenNewFails
  <1>7. /\ o.file \in Images /\ o.durable \in Images
        /\ Sound(o.file, o.durable) /\ Bears(o.file, o.durable) \subseteq {n}
    BY <1>1, <1>5, <1>6, HeaderFacts, NamingFacts
  <1>. QED  BY <1>1, <1>2, <1>3, <1>4, <1>6, <1>7, NameTakenBack

-----------------------------------------------------------------------------
(* Imports *)

\* What an import in progress knows of the images.
LEMMA ImportImageFacts ==
    ASSUME PoolInv, ImageInv, op.kind = "import"
    PROVE  /\ file[op.slot].hdr = Free /\ durable[op.slot] = Blank
           /\ \A t \in Range(available) \ {op.slot} : file[t] = Blank /\ durable[t] = Blank
           /\ \A t \in Slots : op.name \notin NamesOn(t)
  BY DEF ImageInv, PoolImages, ImportIsUnnamed, UnusedSlotsAreBlank, ImportIsFresh

\* DbImport::write.
LEMMA ImportWriteImages ==
    ASSUME PoolInv, PoolInv', ImageInv, NEW x \in Contents, ImportWrite(x)
    PROVE  ImageInv'
  <1>1. /\ op.kind = "import" /\ file' = [file EXCEPT ![op.slot].data = x]
        /\ UNCHANGED <<present, durable, dying, state, available, map, quarantined,
                       needs_recovery, handle, op, answered>>
    BY DEF ImportWrite, pool
  <1>2. PICK s \in Slots : s = op.slot
    BY <1>1, ImportFacts
  <1>3. /\ file'[s].hdr = file[s].hdr /\ file[s].hdr = Free /\ durable[s] = Blank
        /\ \A t \in Slots \ {s} : file'[t] = file[t]
        /\ s \in present /\ s \in Range(available) /\ s \notin Assigned /\ op.got = {}
    BY <1>1, <1>2, ImportFacts, ImportImageFacts, ImageTypes, StackFacts DEF Images
  <1>4. Sound(file'[s], durable'[s])
    BY <1>1, <1>3, HeaderFacts DEF Sound, Bears
  <1>5. \A t \in Slots : file'[t].hdr = file[t].hdr
    BY <1>3
  <1>6. \A t \in Slots : NamesOn(t)' = NamesOn(t)
    BY <1>1, <1>5 DEF NamesOn
  <1>7. DiskImages'
    <2>1. SlotsAreSound'
      <3>. SUFFICES ASSUME NEW t \in Slots
                    PROVE  Sound(file'[t], durable'[t])
        BY DEF SlotsAreSound
      <3>1. CASE t = s
        BY <1>4, <3>1
      <3>2. CASE t # s
        BY <1>1, <1>3, <3>2 DEF ImageInv, DiskImages, SlotsAreSound
      <3>. QED  BY <3>1, <3>2
    <2>2. AbsentAreCreated'
      BY <1>1, <1>3 DEF ImageInv, DiskImages, AbsentAreCreated
    <2>3. NamesApart' /\ DyingAreNameless'
      BY <1>1, <1>6, ImageTypes DEF ImageInv, DiskImages, NamesApart, DyingAreNameless
    <2>. QED  BY <2>1, <2>2, <2>3 DEF DiskImages
  <1>8. RemovedAreGone' /\ PromisedAreKept'
    BY <1>1, <1>5, <1>6, ImageTypes DEF ImageInv, AnswersHold, RemovedAreGone, PromisedAreKept
  <1>9. NamesAreMapped' /\ QuarantineIsUnpromised' /\ ImportIsFresh'
    BY <1>1, <1>6 DEF ImageInv, PoolImages, NamesAreMapped, QuarantineIsUnpromised,
                      ImportIsFresh, Published, PoolInv, TypeOK
  <1>10. MapIsRead'
    BY <1>1, <1>5 DEF ImageInv, PoolImages, MapIsRead, Published, PoolInv, TypeOK, Assignments
  <1>11. UnusedSlotsAreBlank' /\ CollectedAreBlank' /\ ImportIsUnnamed'
    <2>1. Range(available) \subseteq Slots
      BY StackFacts, ImageTypes
    <2>. QED  BY <1>1, <1>2, <1>3, <2>1 DEF ImageInv, PoolImages, UnusedSlotsAreBlank,
                                          CollectedAreBlank, ImportIsUnnamed
  <1>12. OpenFilesBearNames'
    BY <1>1, <1>5, OpenFileFacts DEF OpenFilesBearNames
  <1>. QED  BY <1>7, <1>8, <1>9, <1>10, <1>11, <1>12 DEF ImageInv, PoolImages, AnswersHold

\* A commit flushes the contents before it writes the header.
LEMMA CommitImageFacts ==
    ASSUME PoolInv, ImageInv, op.kind = "import", file[op.slot].data = "whole",
           NEW o \in CommitOutcomes(file[op.slot], durable[op.slot])
    PROVE  /\ o.file \in Images /\ o.durable \in Images
           /\ Sound(o.file, o.durable) /\ Bears(o.file, o.durable) \subseteq {op.name}
           /\ o.ok => /\ o.file.hdr = Named(op.name, "import")
                      /\ o.durable.hdr = Named(op.name, "import")
  <1>1. PICK f \in Images, d \in Images : f = file[op.slot] /\ d = durable[op.slot]
    BY ImportFacts
  <1>2. f.hdr = Free /\ d = Blank /\ f.data = "whole" /\ op.name \in Names /\ "import" \in FileKinds
    BY <1>1, ImportFacts, ImportImageFacts DEF FileKinds
  <1>3. CASE o \in Naming(f, f, Named(op.name, "import"))
    <2>1. PICK n \in Names, k \in FileKinds : n = op.name /\ k = "import"
      BY <1>2
    <2>2. o \in Naming(f, f, Named(n, k))
      BY <1>3, <2>1
    <2>3. /\ o.file \in Images /\ o.durable \in Images
          /\ Sound(o.file, o.durable) /\ Bears(o.file, o.durable) \subseteq {n}
      BY <1>2, <2>2, NamingFacts
    <2>4. o.ok => o.file.hdr = Named(n, k) /\ o.durable.hdr = Named(n, k)
      BY <2>2, HeaderFacts, NamingSucceeds
    <2>. QED  BY <2>1, <2>3, <2>4
  <1>4. CASE o \in Flush(f, d) /\ ~o.ok
    <2>1. o.file = f /\ o.durable = d
      BY <1>4 DEF Flush, Outcome
    <2>. QED  BY <1>2, <1>4, <2>1, HeaderFacts DEF Sound, Bears
  <1>. QED  BY <1>1, <1>3, <1>4 DEF CommitOutcomes, ImportHeader

\* commit publishes the slot the import wrote.
LEMMA ImportCommitImages ==
    ASSUME PoolInv, PoolInv', ImageInv, ImportCommit
    PROVE  ImageInv'
  <1>1. /\ op.kind = "import" /\ file[op.slot].data = "whole" /\ available' = Front(available)
        /\ map' = [map EXCEPT ![op.name] = Last(available)]
        /\ answered' = [answered EXCEPT ![op.name] = "present"] /\ op' = Idle
        /\ UNCHANGED <<present, dying, state, quarantined, needs_recovery, handle>>
    BY DEF ImportCommit, EndOperation, Answer
  <1>2. PICK s \in Slots, n \in Names : s = op.slot /\ n = op.name
    BY <1>1, ImportFacts
  <1>3. /\ s = Last(available) /\ available # <<>> /\ map[n] = NoSlot /\ op.got = {}
        /\ state = "Active" /\ needs_recovery = FALSE /\ quarantined = {}
    BY <1>1, <1>2, ImportFacts
  <1>4. PICK o \in CommitOutcomes(file[op.slot], durable[op.slot]) : o.ok /\ SetImages(op.slot, o)
    BY DEF ImportCommit
  <1>5. /\ Sound(o.file, o.durable) /\ Bears(o.file, o.durable) \subseteq {n}
        /\ o.file.hdr = Named(n, "import") /\ o.durable.hdr = Named(n, "import")
    BY <1>1, <1>2, <1>4, CommitImageFacts
  <1>6. /\ file'[s] = o.file /\ durable'[s] = o.durable
        /\ \A t \in Slots \ {s} : file'[t] = file[t] /\ durable'[t] = durable[t]
    BY <1>2, <1>4, ImageTypes DEF SetImages
  <1>7. file'[s].hdr.name = n /\ Adopted(durable'[s].hdr)
    BY <1>5, <1>6, HeaderFacts DEF Adopted, FileKinds
  <1>8. \A t \in Range(available) \ {s} : file[t] = Blank /\ durable[t] = Blank
    BY <1>1, <1>2, ImportImageFacts
  <1>9. answered' = [answered EXCEPT ![n] = "present"] /\ map' = [map EXCEPT ![n] = s]
    BY <1>1, <1>2, <1>3
  <1>10. /\ Sound(file'[s], durable'[s]) /\ Bears(file'[s], durable'[s]) \subseteq {n}
         /\ file'[s].hdr = durable'[s].hdr
    BY <1>5, <1>6
  <1>11. \A h \in Handles : \/ handle'[h] = handle[h]
                            \/ handle'[h].slot = s /\ handle'[h].name = n
    BY <1>1
  <1>. QED  BY <1>1, <1>3, <1>6, <1>7, <1>8, <1>9, <1>10, <1>11, NamePublished

\* A failed commit and an abort.
LEMMA ImportFailsImages ==
    ASSUME PoolInv, PoolInv', ImageInv, ImportCommitFails \/ ImportAbort
    PROVE  ImageInv'
  <1>1. /\ op.kind = "import" /\ op' = Idle
        /\ answered' = [answered EXCEPT ![op.name] = "refused"]
        /\ UNCHANGED <<present, dying, state, handle>>
    BY DEF ImportCommitFails, ImportAbort, EndOperation, Answer
  <1>2. PICK s \in Slots, n \in Names : s = op.slot /\ n = op.name
    BY <1>1, ImportFacts
  <1>3. /\ s = Last(available) /\ available # <<>> /\ map[n] = NoSlot /\ op.got = {}
        /\ state = "Active" /\ needs_recovery = FALSE /\ quarantined = {}
    BY <1>1, <1>2, ImportFacts
  <1>4. PICK f \in Images, d \in Images :
            Sound(f, d) /\ Bears(f, d) \subseteq {n} /\ CleanUp(s, f, d)
    <2>1. CASE ImportCommitFails
      <3>1. file[op.slot].data = "whole"
        BY <2>1 DEF ImportCommitFails
      <3>2. PICK o \in CommitOutcomes(file[op.slot], durable[op.slot]) :
                CleanUp(op.slot, o.file, o.durable)
        BY <2>1 DEF ImportCommitFails
      <3>. QED  BY <1>1, <1>2, <3>1, <3>2, CommitImageFacts
    <2>2. CASE ImportAbort
      <3>1. CleanUp(s, file[s], durable[s])
        BY <1>2, <2>2 DEF ImportAbort
      <3>2. Bears(file[s], durable[s]) \subseteq {n}
        BY <1>1, <1>2, ImportImageFacts, HeaderFacts DEF Bears
      <3>. QED  BY <3>1, <3>2, ImageTypes DEF ImageInv, DiskImages, SlotsAreSound
    <2>. QED  BY <2>1, <2>2
  <1>5. \A t \in Range(available) \ {s} : file[t] = Blank /\ durable[t] = Blank
    BY <1>1, <1>2, ImportImageFacts
  <1>. QED  BY <1>1, <1>2, <1>3, <1>4, <1>5, NameTakenBack

-----------------------------------------------------------------------------
(* Clearing *)

\* clear, whether it empties every slot or stops after those of done.
LEMMA ClearImages ==
    ASSUME PoolInv, PoolInv', ImageInv, CanClear, NEW done, done \subseteq Assigned \cup quarantined,
           \A s \in done : file'[s] = Blank /\ durable'[s] = Blank,
           \A s \in Slots : Fades(file[s], durable[s], file'[s], durable'[s]),
           \A s \in Slots \ (Assigned \cup quarantined) :
               file'[s] = file[s] /\ durable'[s] = durable[s],
           Range(available') = Range(available) \cup done,
           map' = [n \in Names |-> IF map[n] \in done THEN NoSlot ELSE map[n]],
           quarantined' = quarantined \ done,
           needs_recovery' \/ Assigned \cup quarantined \subseteq done,
           \A n \in Names : answered'[n] = "present" => answered[n] = "present" /\ map[n] = NoSlot,
           \A n \in Names : answered'[n] = "absent" =>
               answered[n] = "absent" \/ Assigned \cup quarantined \subseteq done,
           UNCHANGED <<present, dying, state, handle, op>>
    PROVE  ImageInv'
  <1>1. /\ state = "Active" /\ op.kind = "none" /\ op.pc = "idle" /\ Published
        /\ \A h \in Handles : handle[h] = Closed
    BY ClosedFacts, IdleFacts DEF CanClear, Busy, PoolInv, OperationShape, Published
  <1>2. Assigned \cup quarantined \subseteq present /\ Range(available) \subseteq Slots
        /\ Range(available) \cap (Assigned \cup quarantined) = {}
        /\ map \in [Names -> Slots \cup {NoSlot}]
    BY StackFacts, ImageTypes DEF Assignments
  <1>3. \A s \in Slots \ present' : file'[s] = Created /\ durable'[s] = Created
    BY <1>2 DEF ImageInv, DiskImages, AbsentAreCreated
  <1>4. DiskImages' /\ \A s \in Slots : NamesOn(s)' \subseteq NamesOn(s)
    BY <1>3, ImageTypes, Fading DEF ImageInv, DiskImages, DyingAreNameless
  <1>5. /\ \A s \in Slots \ quarantined : \A n \in NamesOn(s) : n \in Names /\ map[n] = s
        /\ \A s \in Slots \ Owned : NamesOn(s) = {}
    BY <1>1, MapFacts DEF ImageInv, PoolImages
  <1>6. \A s \in done : NamesOn(s)' = {}
    BY HeaderFacts DEF NamesOn
  <1>7. \A s \in Range(available) : NamesOn(s) = {}
    BY <1>1, HeaderFacts DEF ImageInv, PoolImages, UnusedSlotsAreBlank, NamesOn
  <1>8. RemovedAreGone'
    <2>. SUFFICES ASSUME NEW n \in Names, answered'[n] = "absent", NEW s \in Slots
                  PROVE  n \notin NamesOn(s)'
      BY DEF RemovedAreGone
    <2>1. CASE answered[n] = "absent"
      BY <1>4, <2>1 DEF ImageInv, AnswersHold, RemovedAreGone
    <2>2. CASE Assigned \cup quarantined \subseteq done
      BY <1>4, <1>5, <1>6, <1>7, <2>2, StackFacts
    <2>. QED  BY <2>1, <2>2
  <1>9. \A n \in Names : answered'[n] # "present"
    <2>. SUFFICES ASSUME NEW n \in Names, answered[n] = "present", map[n] = NoSlot
                  PROVE  FALSE
      OBVIOUS
    <2>1. PICK s \in present : durable[s].hdr.name = n
      BY DEF ImageInv, AnswersHold, PromisedAreKept
    <2>2. s \in Slots /\ n \in NamesOn(s) /\ s # NoSlot
      BY <2>1, NoNameAssumption, SlotAssumption, ImageTypes DEF NamesOn
    <2>3. s \notin quarantined
      BY <2>2 DEF ImageInv, PoolImages, QuarantineIsUnpromised
    <2>. QED  BY <1>5, <2>2, <2>3
  <1>10. PromisedAreKept' /\ QuarantineIsUnpromised'
    <2>1. \A s \in quarantined' : NamesOn(s)' \subseteq Names
      BY <1>2, <1>4, ImageTypes, NamesOnSlots
    <2>2. QuarantineIsUnpromised'
      BY <1>9, <2>1 DEF QuarantineIsUnpromised
    <2>. QED  BY <1>9, <2>2 DEF PromisedAreKept
  <1>11. NamesAreMapped'
    <2>. SUFFICES ASSUME NEW s \in Slots \ quarantined', NEW n \in NamesOn(s)'
                  PROVE  n \in Names /\ map'[n] = s
      BY DEF NamesAreMapped
    <2>1. s \notin done /\ s \notin quarantined
      BY <1>6
    <2>2. n \in Names /\ map[n] = s
      BY <1>4, <1>5, <2>1
    <2>. QED  BY <2>1, <2>2
  <1>12. MapIsRead'
    <2>. SUFFICES ASSUME Assigned \cup quarantined \subseteq done, NEW n \in Names
                  PROVE  map'[n] = NoSlot
      BY DEF MapIsRead
    <2>. QED  BY DEF Assigned, AssignedBy
  <1>13. UnusedSlotsAreBlank'
    <2>1. \A s \in Range(available) : file'[s] = Blank /\ durable'[s] = Blank
      BY <1>1, <1>2 DEF ImageInv, PoolImages, UnusedSlotsAreBlank
    <2>. QED  BY <2>1 DEF UnusedSlotsAreBlank
  <1>14. CollectedAreBlank' /\ ImportIsUnnamed' /\ ImportIsFresh' /\ OpenFilesBearNames'
    BY <1>1 DEF CollectedAreBlank, ImportIsUnnamed, ImportIsFresh, OpenFilesBearNames
  <1>. QED  BY <1>4, <1>8, <1>10, <1>11, <1>12, <1>13, <1>14
            DEF ImageInv, PoolImages, AnswersHold

\* The slots of done are emptied.
LEMMA BlankedFades ==
    ASSUME PoolInv, ImageInv, NEW S
    PROVE  \A s \in Slots :
              /\ Fades(file[s], durable[s], Blanked(file, S)[s], Blanked(durable, S)[s])
              /\ s \in S => Blanked(file, S)[s] = Blank /\ Blanked(durable, S)[s] = Blank
              /\ s \notin S => /\ Blanked(file, S)[s] = file[s]
                               /\ Blanked(durable, S)[s] = durable[s]
  <1>1. \A s \in Slots :
            /\ s \in S => Blanked(file, S)[s] = Blank /\ Blanked(durable, S)[s] = Blank
            /\ s \notin S => Blanked(file, S)[s] = file[s] /\ Blanked(durable, S)[s] = durable[s]
    BY DEF Blanked
  <1>2. Sound(Blank, Blank) /\ Bears(Blank, Blank) = {}
    BY FreshFacts
  <1>. QED  BY <1>1, <1>2 DEF Fades, ImageInv, DiskImages, SlotsAreSound

\* clear succeeds.
LEMMA ClearAllImages ==
    ASSUME PoolInv, PoolInv', ImageInv, ClearAll
    PROVE  ImageInv'
  <1>1. PICK S \in SUBSET Slots : S = Assigned \cup quarantined
    BY StackFacts, ImageTypes
  <1>2. /\ CanClear /\ file' = Blanked(file, S) /\ durable' = Blanked(durable, S)
        /\ map' = NoFiles /\ quarantined' = {} /\ needs_recovery' = FALSE
        /\ answered' = [n \in Names |-> IF map[n] # NoSlot THEN "absent" ELSE answered[n]]
        /\ UNCHANGED <<present, dying, state, handle, op>>
    BY <1>1 DEF ClearAll, HasFilename
  <1>3. PICK q \in Orders(S) : available' = available \o q
    BY <1>1 DEF ClearAll
  <1>4. Range(available') = Range(available) \cup S
    <2>1. q \in Seq(Slots) /\ Range(q) = S
      BY <1>3, OrderFacts
    <2>2. available \in Seq(Slots)
      BY StackFacts
    <2>. QED  BY <1>3, <2>1, <2>2, PushAllFacts
  <1>5. map' = [n \in Names |-> IF map[n] \in S THEN NoSlot ELSE map[n]]
    BY <1>1, <1>2 DEF NoFiles, Assigned, AssignedBy
  <1>6. \A s \in Slots :
            /\ Fades(file[s], durable[s], file'[s], durable'[s])
            /\ s \in S => file'[s] = Blank /\ durable'[s] = Blank
            /\ s \notin S => file'[s] = file[s] /\ durable'[s] = durable[s]
    BY <1>2, BlankedFades
  <1>7. /\ \A n \in Names : answered'[n] = "present" => answered[n] = "present" /\ map[n] = NoSlot
        /\ quarantined' = quarantined \ S
    BY <1>1, <1>2
  <1>8. \A s \in S : file'[s] = Blank /\ durable'[s] = Blank
    BY <1>6
  <1>. QED  BY <1>1, <1>2, <1>4, <1>5, <1>6, <1>7, <1>8, ClearImages

\* clear stops at a slot it cannot empty.
LEMMA ClearFailsImages ==
    ASSUME PoolInv, PoolInv', ImageInv, NEW done \in SUBSET Slots, NEW bad \in Slots,
           ClearFails(done, bad)
    PROVE  ImageInv'
  <1>1. /\ CanClear /\ bad \in (Assigned \cup quarantined) \ done
        /\ done \subseteq Assigned \cup quarantined
        /\ map' = [n \in Names |-> IF map[n] \in done THEN NoSlot ELSE map[n]]
        /\ quarantined' = quarantined \ done /\ needs_recovery' = TRUE
        /\ answered' = [n \in Names |-> IF map[n] # NoSlot THEN "unknown" ELSE answered[n]]
        /\ UNCHANGED <<present, dying, state, handle, op>>
    BY DEF ClearFails, HasFilename
  <1>2. PICK o \in Unnaming(file[bad], durable[bad]) :
            /\ file' = [Blanked(file, done) EXCEPT ![bad] = o.file]
            /\ durable' = [Blanked(durable, done) EXCEPT ![bad] = o.durable]
    BY DEF ClearFails
  <1>3. PICK q \in Orders(done) : available' = available \o q
    BY DEF ClearFails
  <1>4. Range(available') = Range(available) \cup done
    <2>1. q \in Seq(Slots) /\ Range(q) = done
      BY <1>3, OrderFacts
    <2>2. available \in Seq(Slots)
      BY StackFacts
    <2>. QED  BY <1>3, <2>1, <2>2, PushAllFacts
  <1>5. Fades(file[bad], durable[bad], o.file, o.durable)
    BY <1>2, ImageTypes, UnnamingFades DEF ImageInv, DiskImages, SlotsAreSound
  <1>6. /\ file'[bad] = o.file /\ durable'[bad] = o.durable
        /\ \A s \in Slots \ {bad} :
              file'[s] = Blanked(file, done)[s] /\ durable'[s] = Blanked(durable, done)[s]
    BY <1>2, ImageTypes, BlankFacts
  <1>7. \A s \in Slots : Fades(file[s], durable[s], file'[s], durable'[s])
    BY <1>5, <1>6, BlankedFades
  <1>8. /\ \A s \in done : file'[s] = Blank /\ durable'[s] = Blank
        /\ \A s \in Slots \ (Assigned \cup quarantined) :
              file'[s] = file[s] /\ durable'[s] = durable[s]
    BY <1>1, <1>6, BlankedFades
  <1>9. /\ \A n \in Names : answered'[n] = "present" => answered[n] = "present" /\ map[n] = NoSlot
        /\ \A n \in Names : answered'[n] = "absent" => answered[n] = "absent"
    BY <1>1
  <1>. QED  BY <1>1, <1>4, <1>7, <1>8, <1>9, ClearImages

-----------------------------------------------------------------------------
(* Acquiring the directory *)

\* A promised name is on a slot that settling keeps, unless all are cleared.
LEMMA PromisesAreAcquired ==
    ASSUME PoolInv, ImageInv, ~op.clear, NEW s \in present, Adopted(durable[s].hdr),
           file[s].hdr = durable[s].hdr
    PROVE  s \in Kept
  BY DEF Kept

\* What settling does to the images and to the answers.
LEMMA SettleImages ==
    ASSUME PoolInv, PoolInv', ImageInv, Settle
    PROVE  /\ DiskImages' /\ AnswersHold'
           /\ \A s \in present \ Kept : file'[s] = Blank /\ durable'[s] = Blank
           /\ \A s \in Kept : file'[s] = file[s] /\ durable'[s] = durable[s]
           /\ \A s \in Slots \ Kept : NamesOn(s)' = {}
           /\ present' = present /\ Kept \subseteq present /\ needs_recovery' = FALSE
  <1>1. /\ file' = Blanked(file, present \ Kept) /\ durable' = Blanked(durable, present \ Kept)
        /\ answered' = IF op.clear THEN [n \in Names |-> "absent"] ELSE answered
        /\ needs_recovery' = FALSE /\ UNCHANGED <<present, dying>>
    BY DEF Settle
  <1>2. Kept \subseteq present /\ (op.clear => Kept = {})
    BY DEF Kept
  <1>3. \A s \in Slots :
            /\ Fades(file[s], durable[s], file'[s], durable'[s])
            /\ s \in present \ Kept => file'[s] = Blank /\ durable'[s] = Blank
            /\ s \notin present \ Kept => file'[s] = file[s] /\ durable'[s] = durable[s]
    BY <1>1, BlankedFades
  <1>4. \A s \in Slots \ present' : file'[s] = Created /\ durable'[s] = Created
    BY <1>1, <1>3 DEF ImageInv, DiskImages, AbsentAreCreated
  <1>5. DiskImages' /\ \A s \in Slots : NamesOn(s)' \subseteq NamesOn(s)
    BY <1>1, <1>3, <1>4, ImageTypes, Fading DEF ImageInv, DiskImages, DyingAreNameless
  <1>6. \A s \in Slots \ Kept : NamesOn(s)' = {}
    <2>. SUFFICES ASSUME NEW s \in Slots \ Kept
                  PROVE  NamesOn(s)' = {}
      OBVIOUS
    <2>1. {file'[s], durable'[s]} \subseteq {Created, Blank}
      BY <1>1, <1>3, <1>4
    <2>. QED  BY <2>1, FreshFacts DEF NamesOn, Bears
  <1>7. AnswersHold'
    <2>1. CASE op.clear
      BY <1>1, <1>2, <1>6, <2>1 DEF AnswersHold, PromisedAreKept, RemovedAreGone
    <2>2. CASE ~op.clear
      <3>1. answered' = answered
        BY <1>1, <2>2
      <3>2. RemovedAreGone'
        BY <1>5, <3>1, RemovalsHold DEF ImageInv, AnswersHold
      <3>3. PromisedAreKept'
        BY <1>1, <1>3, <2>2, <3>1, ImageTypes, PromisesAreAcquired, PromisesHold
           DEF ImageInv, AnswersHold
      <3>. QED  BY <3>2, <3>3 DEF AnswersHold
    <2>. QED  BY <2>1, <2>2
  <1>. QED  BY <1>1, <1>2, <1>3, <1>5, <1>6, <1>7, ImageTypes

\* The map is built from the headers that were kept.
LEMMA AdoptImages ==
    ASSUME PoolInv, PoolInv', ImageInv, op.kind \in {"resume", "install"}, Settle, Adopt,
           op'.kind # "import", op'.pc \in {"idle", "create"}, op'.got = {},
           UNCHANGED <<quarantined, handle>>
    PROVE  ImageInv'
  <1>1. /\ DiskImages' /\ AnswersHold'
        /\ \A s \in present \ Kept : file'[s] = Blank /\ durable'[s] = Blank
        /\ \A s \in Kept : file'[s] = file[s] /\ durable'[s] = durable[s]
        /\ \A s \in Slots \ Kept : NamesOn(s)' = {}
        /\ present' = present /\ Kept \subseteq present
    BY SettleImages
  <1>2. /\ \A s, t \in Kept : file[s].hdr.name = file[t].hdr.name => s = t
        /\ \A s \in Kept : Adopted(file[s].hdr) /\ s \in Slots
    BY ImageTypes DEF Settle, CanSettle, Kept
  <1>3. \A s \in Kept : file[s].hdr.name \in Names
    BY <1>2, HeaderFacts, ImageTypes DEF Adopted, Images, FileKinds
  <1>4. \A s \in Kept : NamesOn(s) = {file[s].hdr.name}
    <2>. SUFFICES ASSUME NEW s \in Kept
                  PROVE  NamesOn(s) = {file[s].hdr.name}
      OBVIOUS
    <2>1. \A n, m \in Bears(file[s], durable[s]) : n = m
      BY <1>2 DEF ImageInv, DiskImages, SlotsAreSound, Sound
    <2>2. file[s].hdr.name \in NamesOn(s) /\ NamesOn(s) = Bears(file[s], durable[s])
      BY <1>3, NoNameAssumption DEF Bears, NamesOn
    <2>. QED  BY <2>1, <2>2
  <1>5. \A n \in Names : map'[n] # NoSlot => map'[n] \in Kept /\ file[map'[n]].hdr.name = n
    <2>. SUFFICES ASSUME NEW n \in Names, map'[n] # NoSlot
                  PROVE  map'[n] \in Kept /\ file[map'[n]].hdr.name = n
      OBVIOUS
    <2>1. /\ \E s \in Kept : file[s].hdr.name = n
          /\ map'[n] = CHOOSE s \in Kept : file[s].hdr.name = n
      BY DEF Adopt
    <2>. QED  BY <2>1
  <1>6. \A s \in Kept : map'[file[s].hdr.name] = s
    <2>. SUFFICES ASSUME NEW s \in Kept, NEW n \in Names, n = file[s].hdr.name
                  PROVE  map'[n] = s
      BY <1>3
    <2>1. map'[n] = CHOOSE t \in Kept : file[t].hdr.name = n
      BY DEF Adopt
    <2>. QED  BY <1>2, <2>1
  <1>7. NamesAreMapped'
    <2>. SUFFICES ASSUME NEW s \in Slots, NEW n \in NamesOn(s)'
                  PROVE  n \in Names /\ map'[n] = s
      BY DEF NamesAreMapped
    <2>1. s \in Kept
      BY <1>1
    <2>2. n = file[s].hdr.name
      BY <1>1, <1>4, <2>1 DEF NamesOn
    <2>. QED  BY <1>3, <1>6, <2>1, <2>2
  <1>8. MapIsRead'
    BY <1>1, <1>5 DEF MapIsRead
  <1>9. UnusedSlotsAreBlank'
    <2>1. PICK q \in Orders(present \ Kept) : available' = q
      BY DEF Adopt
    <2>2. Range(available') = present \ Kept
      BY <2>1, ImageTypes, OrderFacts
    <2>. QED  BY <1>1, <2>2 DEF UnusedSlotsAreBlank
  <1>10. quarantined' = {} /\ \A h \in Handles : handle'[h] = Closed
    BY AcquiringFacts
  <1>11. /\ CollectedAreBlank' /\ ImportIsUnnamed' /\ ImportIsFresh' /\ OpenFilesBearNames'
         /\ QuarantineIsUnpromised'
    BY <1>10 DEF CollectedAreBlank, ImportIsUnnamed, ImportIsFresh, OpenFilesBearNames,
                 QuarantineIsUnpromised
  <1>. QED  BY <1>1, <1>7, <1>8, <1>9, <1>11 DEF ImageInv, PoolImages

\* resume and install publish the pool, or install begins to grow it.
LEMMA PublishImages ==
    ASSUME PoolInv, PoolInv', ImageInv, ResumePublishes \/ InstallPublishes \/ InstallGrows
    PROVE  ImageInv'
  <1>1. /\ op.kind \in {"resume", "install"} /\ Settle /\ Adopt
        /\ UNCHANGED <<quarantined, handle>>
    BY DEF ResumePublishes, InstallPublishes, InstallGrows
  <1>2. op'.kind # "import" /\ op'.pc \in {"idle", "create"} /\ op'.got = {}
    <2>1. CASE ResumePublishes \/ InstallPublishes
      BY <2>1, IdleFacts DEF ResumePublishes, InstallPublishes, EndOperation
    <2>2. CASE InstallGrows
      BY <2>2 DEF InstallGrows, PoolInv, TypeOK, Operations
    <2>. QED  BY <2>1, <2>2
  <1>. QED  BY <1>1, <1>2, AdoptImages

\* Foreign code took the name: the settled slots are given up.
LEMMA ConflictImages ==
    ASSUME PoolInv, PoolInv', ImageInv, ResumeConflicts \/ InstallConflicts
    PROVE  ImageInv'
  <1>1. /\ op.kind \in {"resume", "install"} /\ Settle /\ ReleaseSlots /\ op' = Idle
        /\ UNCHANGED <<state, handle>>
    BY DEF ResumeConflicts, InstallConflicts, EndOperation
  <1>2. available' = <<>> /\ quarantined' = {}
    BY <1>1 DEF ReleaseSlots
  <1>3. state' # "Active" /\ \A h \in Handles : handle'[h] = Closed
    BY <1>1, AcquiringFacts
  <1>. QED  BY <1>1, <1>2, <1>3, NothingOwned, SettleImages DEF ImageInv

\* Emptying an acquired slot fails, and nothing is published.
LEMMA SettleFailsImages ==
    ASSUME PoolInv, PoolInv', ImageInv, NEW done \in SUBSET Slots, NEW bad \in Slots,
           SettleFails(done, bad)
    PROVE  ImageInv'
  <1>1. /\ CanSettle /\ done \subseteq present \ Kept /\ bad \in (present \ Kept) \ done
        /\ answered' = IF op.clear
                       THEN [n \in Names |-> IF answered[n] = "present"
                                             THEN "unknown" ELSE answered[n]]
                       ELSE answered
        /\ op' = Idle /\ UNCHANGED <<present, dying, state, pool, handle>>
    BY DEF SettleFails, EndOperation
  <1>2. PICK o \in IF ~op.clear /\ file[bad].hdr = Short
                   THEN Initialize(file[bad], durable[bad])
                   ELSE Unnaming(file[bad], durable[bad]) :
            /\ file' = [Blanked(file, done) EXCEPT ![bad] = o.file]
            /\ durable' = [Blanked(durable, done) EXCEPT ![bad] = o.durable]
    BY DEF SettleFails
  <1>3. op.kind \in {"resume", "install"}
    BY <1>1, IdleFacts DEF CanSettle, PoolInv, OperationShape, TypeOK, Operations, OpKinds
  <1>4. /\ available' = <<>> /\ quarantined' = {} /\ state' # "Active"
        /\ \A h \in Handles : handle'[h] = Closed
    BY <1>1, <1>3, AcquiringFacts DEF CanSettle, PoolInv, OperationShape, pool
  <1>5. PoolImages'
    BY <1>1, <1>4, NothingOwned
  <1>6. /\ Sound(file[bad], durable[bad])
        /\ file[bad] \in Images /\ durable[bad] \in Images
    BY ImageTypes DEF ImageInv, DiskImages, SlotsAreSound
  <1>7. Fades(file[bad], durable[bad], o.file, o.durable)
    <2>1. CASE o \in Unnaming(file[bad], durable[bad])
      BY <1>6, <2>1, UnnamingFades
    <2>2. CASE o \in Initialize(file[bad], durable[bad]) /\ file[bad].hdr = Short
      BY <1>6, <2>2, InitializeFades
    <2>. QED  BY <1>2, <2>1, <2>2
  <1>8. /\ file'[bad] = o.file /\ durable'[bad] = o.durable
        /\ \A s \in Slots \ {bad} :
              file'[s] = Blanked(file, done)[s] /\ durable'[s] = Blanked(durable, done)[s]
    BY <1>2, ImageTypes, BlankFacts
  <1>9. /\ \A s \in Slots : Fades(file[s], durable[s], file'[s], durable'[s])
        /\ \A s \in Slots \ (done \cup {bad}) : file'[s] = file[s] /\ durable'[s] = durable[s]
    BY <1>7, <1>8, BlankedFades
  <1>10. \A s \in Slots \ present' : file'[s] = Created /\ durable'[s] = Created
    BY <1>1, <1>9 DEF ImageInv, DiskImages, AbsentAreCreated
  <1>11. DiskImages' /\ \A s \in Slots : NamesOn(s)' \subseteq NamesOn(s)
    BY <1>1, <1>9, <1>10, ImageTypes, Fading DEF ImageInv, DiskImages, DyingAreNameless
  <1>12. \A n \in Names :
            /\ answered'[n] = "absent" => answered[n] = "absent"
            /\ answered'[n] = "present" => answered[n] = "present" /\ ~op.clear
    BY <1>1
  <1>13. RemovedAreGone'
    BY <1>11, <1>12, RemovalsHold DEF ImageInv, AnswersHold
  <1>14. PromisedAreKept'
    BY <1>1, <1>9, <1>12, ImageTypes, PromisesAreAcquired, PromisesHold
       DEF ImageInv, AnswersHold
  <1>. QED  BY <1>5, <1>11, <1>13, <1>14 DEF ImageInv, AnswersHold

-----------------------------------------------------------------------------
(* Growing the pool *)

\* A new slot, on no list, is extended to a whole header or fails to be.
LEMMA InitializeImages ==
    ASSUME PoolInv, PoolInv', ImageInv, AddEmptyFile,
           NEW o \in Initialize(file[op.slot], durable[op.slot]), SetImages(op.slot, o),
           UNCHANGED <<present, dying, answered>>
    PROVE  /\ DiskImages' /\ AnswersHold' /\ op.slot \in Slots \ Held
           /\ o.ok => file'[op.slot] = Blank /\ durable'[op.slot] = Blank
           /\ \A s \in Slots \ {op.slot} : file'[s] = file[s] /\ durable'[s] = durable[s]
           /\ \A s \in Slots : NamesOn(s)' = NamesOn(s)
  <1>1. PICK s \in Slots : s = op.slot
    BY ImageTypes DEF AddEmptyFile, AddAcquirable
  <1>2. file[s] = Created /\ s \in present \ Held
    BY <1>1 DEF AddEmptyFile, AddAcquirable
  <1>3. /\ Bears(file[s], durable[s]) = {} /\ Fades(file[s], durable[s], o.file, o.durable)
        /\ o.ok => o.file = Blank /\ o.durable = Blank
    BY <1>1, <1>2, ImageTypes, HeaderFacts, InitializeFades DEF ImageInv, DiskImages, SlotsAreSound
  <1>4. /\ file'[s] = o.file /\ durable'[s] = o.durable
        /\ \A t \in Slots \ {s} : file'[t] = file[t] /\ durable'[t] = durable[t]
    BY <1>1, ImageTypes DEF SetImages
  <1>5. \A t \in Slots : Fades(file[t], durable[t], file'[t], durable'[t])
    BY <1>3, <1>4 DEF Fades, ImageInv, DiskImages, SlotsAreSound
  <1>6. \A t \in Slots \ present' : file'[t] = Created /\ durable'[t] = Created
    BY <1>2, <1>4 DEF ImageInv, DiskImages, AbsentAreCreated
  <1>7. DiskImages' /\ \A t \in Slots : NamesOn(t)' \subseteq NamesOn(t)
    BY <1>5, <1>6, ImageTypes, Fading DEF ImageInv, DiskImages, DyingAreNameless
  <1>8. NamesOn(s) = {}
    BY <1>3 DEF Bears, NamesOn
  <1>9. \A t \in Slots : NamesOn(t)' = NamesOn(t)
    <2>1. \A t \in Slots \ {s} : NamesOn(t)' = NamesOn(t)
      BY <1>4 DEF NamesOn
    <2>. QED  BY <1>7, <1>8, <2>1
  <1>10. RemovedAreGone'
    BY <1>7, RemovalsHold DEF ImageInv, AnswersHold
  <1>11. PromisedAreKept'
    <2>1. \A t \in present : durable[t].hdr.name \in Names => t \in Slots /\ t # s
      BY <1>8, ImageTypes, NoNameAssumption DEF NamesOn
    <2>. QED  BY <1>4, <2>1, PromisesHold DEF ImageInv, AnswersHold
  <1>. QED  BY <1>1, <1>2, <1>3, <1>4, <1>7, <1>9, <1>10, <1>11 DEF AnswersHold

\* The loop of add_capacity, up to publication.
LEMMA GrowthImages ==
    ASSUME PoolInv, PoolInv', ImageInv,
           \/ AddContinues \/ AddFinishes \/ InstallFinishes \/ InstallFinishConflicts
           \/ AddInitializeFails
    PROVE  ImageInv'
  <1>. DEFINE Growing == {"create", "acquire", "remove"}
  <1>1. /\ AddEmptyFile /\ op.pc = "acquire"
        /\ UNCHANGED <<present, dying, handle, answered>>
    BY DEF AddContinues, AddFinishes, InstallFinishes, InstallFinishConflicts,
           AddInitializeFails, AddInitialized, AddEmptyFile, AddAcquirable
  <1>2. PICK o \in Initialize(file[op.slot], durable[op.slot]) :
            SetImages(op.slot, o)
    BY DEF AddContinues, AddFinishes, InstallFinishes, InstallFinishConflicts,
           AddInitializeFails, AddInitialized
  <1>3. /\ DiskImages' /\ AnswersHold' /\ op.slot \in Slots \ Held
        /\ o.ok => file'[op.slot] = Blank /\ durable'[op.slot] = Blank
        /\ \A s \in Slots \ {op.slot} : file'[s] = file[s] /\ durable'[s] = durable[s]
        /\ \A s \in Slots : NamesOn(s)' = NamesOn(s)
    BY <1>1, <1>2, InitializeImages
  <1>4. \A s \in Held : file'[s] = file[s] /\ durable'[s] = durable[s]
    BY <1>3, StackFacts, ImageTypes
  <1>5. op.kind \in {"add", "install"} /\ Published /\ op \in Operations
    BY <1>1, GrowingFacts DEF Published, PoolInv, TypeOK
  <1>6. ASSUME AddInitialized
         PROVE  file'[op.slot] = Blank /\ durable'[op.slot] = Blank
    <2>1. PICK i \in Initialize(file[op.slot], durable[op.slot]) : i.ok /\ SetImages(op.slot, i)
      BY <1>6 DEF AddInitialized
    <2>. QED  BY <1>1, <2>1, InitializeImages
  <1>7. CASE AddContinues
    <2>1. /\ op' = [op EXCEPT !.pc = "create", !.slot = NoSlot,
                              !.left = op.left - 1, !.got = op.got \cup {op.slot}]
          /\ UNCHANGED <<state, available, map, quarantined, needs_recovery>>
      BY <1>7 DEF AddContinues, pool
    <2>2. op'.kind = op.kind /\ op'.got = op.got \cup {op.slot}
      BY <1>5, <2>1 DEF Operations
    <2>3. file'[op.slot] = Blank /\ durable'[op.slot] = Blank
      BY <1>7, <1>6 DEF AddContinues
    <2>4. \A s \in op'.got : \/ s \in op.got /\ op.pc \in Growing
                             \/ file'[s] = Blank /\ durable'[s] = Blank
      BY <1>1, <2>2, <2>3
    <2>5. PoolImages'
      BY <1>1, <1>3, <1>4, <1>5, <2>1, <2>2, <2>4, OperationImages
    <2>. QED  BY <1>3, <2>5 DEF ImageInv
  <1>8. CASE AddFinishes \/ InstallFinishes
    <2>1. op' = Idle /\ AddPublishes /\ UNCHANGED <<map, quarantined, needs_recovery>>
      BY <1>8 DEF AddFinishes, InstallFinishes, EndOperation
    <2>2. file'[op.slot] = Blank /\ durable'[op.slot] = Blank
      BY <1>8, <1>6 DEF AddFinishes, InstallFinishes
    <2>3. \A s \in op.got : file'[s] = Blank /\ durable'[s] = Blank
      BY <1>1, <1>4, StackFacts DEF ImageInv, PoolImages, CollectedAreBlank
    <2>4. PICK q \in Orders(op.got \cup {op.slot}) : available' = available \o q
      BY <2>1 DEF AddPublishes
    <2>5. Range(available') = Range(available) \cup op.got \cup {op.slot}
      <3>1. q \in Seq(Slots) /\ Range(q) = op.got \cup {op.slot}
        BY <1>3, <1>5, <2>4, OrderFacts DEF Operations
      <3>2. available \in Seq(Slots)
        BY StackFacts
      <3>. QED  BY <2>4, <3>1, <3>2, PushAllFacts
    <2>6. PoolImages'
      BY <1>1, <1>3, <1>4, <1>5, <2>1, <2>2, <2>3, <2>5, IdleFacts, OperationImages
    <2>. QED  BY <1>3, <2>6 DEF ImageInv
  <1>9. CASE InstallFinishConflicts
    <2>1. /\ op.kind = "install" /\ op' = Idle /\ available' = <<>> /\ quarantined' = {}
          /\ state' = state
      BY <1>9 DEF InstallFinishConflicts, EndOperation, ReleaseSlots
    <2>2. state' # "Active" /\ \A h \in Handles : handle'[h] = Closed
      BY <1>1, <2>1, AcquiringFacts
    <2>. QED  BY <1>3, <2>1, <2>2, NothingOwned DEF ImageInv
  <1>10. CASE AddInitializeFails
    <2>1. /\ op' = [op EXCEPT !.pc = "remove"]
          /\ UNCHANGED <<state, available, map, quarantined, needs_recovery>>
      BY <1>10 DEF AddInitializeFails, pool
    <2>2. op'.kind = op.kind /\ op'.got = op.got
      BY <1>5, <2>1 DEF Operations
    <2>3. PoolImages'
      BY <1>1, <1>3, <1>4, <1>5, <2>1, <2>2, OperationImages
    <2>. QED  BY <1>3, <2>3 DEF ImageInv
  <1>. QED  BY <1>7, <1>8, <1>9, <1>10

-----------------------------------------------------------------------------
(* Removing entries *)

\* An entry that nobody holds and that bears no name is removed.
LEMMA RemoveEntryImages ==
    ASSUME PoolInv, ImageInv, NEW s \in Slots, s \notin Held, NamesOn(s) = {}, RemoveEntry(s),
           dying' \subseteq dying, UNCHANGED answered
    PROVE  /\ DiskImages' /\ AnswersHold' /\ \A t \in Slots : NamesOn(t)' = NamesOn(t)
           /\ \A t \in Held : file'[t] = file[t] /\ durable'[t] = durable[t]
  <1>1. /\ present' = present \ {s} /\ file'[s] = Created /\ durable'[s] = Created
        /\ \A t \in Slots \ {s} : file'[t] = file[t] /\ durable'[t] = durable[t]
    BY ImageTypes DEF RemoveEntry
  <1>2. Sound(Created, Created) /\ Bears(Created, Created) = {}
    BY FreshFacts
  <1>3. \A t \in Slots : Fades(file[t], durable[t], file'[t], durable'[t])
    BY <1>1, <1>2 DEF Fades, ImageInv, DiskImages, SlotsAreSound
  <1>4. \A t \in Slots \ present' : file'[t] = Created /\ durable'[t] = Created
    BY <1>1 DEF ImageInv, DiskImages, AbsentAreCreated
  <1>5. DiskImages' /\ \A t \in Slots : NamesOn(t)' \subseteq NamesOn(t)
    BY <1>3, <1>4, ImageTypes, Fading DEF ImageInv, DiskImages, DyingAreNameless
  <1>6. \A t \in Slots : NamesOn(t)' = NamesOn(t)
    <2>1. \A t \in Slots \ {s} : NamesOn(t)' = NamesOn(t)
      BY <1>1 DEF NamesOn
    <2>. QED  BY <1>5, <2>1
  <1>7. RemovedAreGone'
    BY <1>5, RemovalsHold DEF ImageInv, AnswersHold
  <1>8. PromisedAreKept'
    <2>1. \A t \in present : durable[t].hdr.name \in Names => t \in Slots /\ t # s
      BY ImageTypes, NoNameAssumption DEF NamesOn
    <2>. QED  BY <1>1, <2>1, PromisesHold DEF ImageInv, AnswersHold
  <1>9. \A t \in Held : file'[t] = file[t] /\ durable'[t] = durable[t]
    BY <1>1, StackFacts, ImageTypes
  <1>. QED  BY <1>5, <1>6, <1>7, <1>8, <1>9 DEF AnswersHold

\* The removals of reduce_capacity and of a failed add_capacity.
LEMMA RemovalImages ==
    ASSUME PoolInv, PoolInv', ImageInv, ReduceContinues \/ ReduceFinishes \/ AddRemoves
    PROVE  ImageInv'
  <1>1. /\ op.pc = "remove" /\ RemoveEntry(op.slot)
        /\ UNCHANGED <<dying, state, handle, answered>>
    BY DEF ReduceContinues, ReduceFinishes, AddRemoves, PoolInv, OperationShape
  <1>2. Published /\ op.slot \in Slots /\ op.slot \notin Held /\ NamesOn(op.slot) = {}
    BY <1>1, RemovalFacts, RemovedSlotIsNameless
  <1>3. /\ DiskImages' /\ AnswersHold' /\ \A t \in Slots : NamesOn(t)' = NamesOn(t)
        /\ \A t \in Held : file'[t] = file[t] /\ durable'[t] = durable[t]
    BY <1>1, <1>2, RemoveEntryImages
  <1>4. CASE ReduceContinues
    <2>1. /\ op.kind = "reduce" /\ op.left > 0
          /\ op' = Operation("reduce", "remove", Last(available), NoName, op.left - 1, FALSE)
          /\ available' = Front(available)
          /\ UNCHANGED <<state, map, quarantined, needs_recovery>>
      BY <1>4 DEF ReduceContinues, PopForRemoval
    <2>2. op'.kind = "reduce" /\ op'.got = {}
      BY <2>1 DEF Operation
    <2>3. available # <<>>
      BY <2>1, EmptyFacts DEF PoolInv, ReservationsHold, TypeOK, Operations
    <2>4. Range(available') \subseteq Range(available)
      BY <2>1, <2>3, StackFacts, PopFacts
    <2>5. PoolImages'
      BY <1>1, <1>2, <1>3, <2>1, <2>2, <2>4, OperationImages
    <2>. QED  BY <1>3, <2>5 DEF ImageInv
  <1>5. CASE ReduceFinishes \/ AddRemoves
    <2>1. op.kind \in {"add", "reduce", "resume", "install"} /\ Unwind
      BY <1>5 DEF ReduceFinishes, AddRemoves, Unwind
    <2>2. PoolImages'
      BY <1>1, <1>3, <2>1, UnwindImages
    <2>. QED  BY <1>3, <2>2 DEF ImageInv
  <1>. QED  BY <1>4, <1>5

\* A removal nobody awaits.
LEMMA RemovalLandsImages ==
    ASSUME PoolInv, PoolInv', ImageInv, NEW s \in Slots, RemovalLands(s)
    PROVE  ImageInv'
  <1>1. /\ s \in dying /\ dying' = dying \ {s} /\ RemoveEntry(s)
        /\ UNCHANGED <<state, available, map, quarantined, needs_recovery, handle, op, answered>>
    BY DEF RemovalLands, pool
  <1>2. NamesOn(s) = {} /\ s \notin Held
    BY <1>1, ImageTypes DEF ImageInv, DiskImages, DyingAreNameless
  <1>3. /\ DiskImages' /\ AnswersHold' /\ \A t \in Slots : NamesOn(t)' = NamesOn(t)
        /\ \A t \in Held : file'[t] = file[t] /\ durable'[t] = durable[t]
    BY <1>1, <1>2, RemoveEntryImages
  <1>4. Published' => Published
    BY <1>1 DEF Published
  <1>5. PoolImages'
    BY <1>1, <1>3, <1>4, OperationImages
  <1>. QED  BY <1>3, <1>5 DEF ImageInv

\* A loss of power keeps either version of the header and of the contents of
\* each slot: both of a promised slot's headers are the same.
LEMMA LosePowerImages ==
    ASSUME PoolInv, PoolInv', ImageInv, NEW hs \in SUBSET Slots, NEW ds \in SUBSET Slots,
           LosePower(hs, ds)
    PROVE  ImageInv'
  <1>1. /\ file' = [s \in Slots |->
                     Surviving(file[s], durable[s], s \in hs, s \in ds)]
        /\ durable' = file' /\ dying' = {} /\ ForgetMemory
    BY DEF LosePower
  <1>2. /\ available' = <<>> /\ quarantined' = {} /\ state' # "Active" /\ op' = Idle
        /\ \A h \in Handles : handle'[h] = Closed
        /\ UNCHANGED <<present, answered>>
    BY <1>1 DEF ForgetMemory, ReleaseSlots
  <1>3. PoolImages'
    BY <1>2, NothingOwned
  <1>4. \A s \in Slots :
            /\ Fades(file[s], durable[s], file'[s], durable'[s])
            /\ file'[s].hdr \in {file[s].hdr, durable[s].hdr} /\ durable'[s] = file'[s]
            /\ file[s] = Created /\ durable[s] = Created => file'[s] = Created
    <2>. SUFFICES ASSUME NEW s \in Slots
                  PROVE  /\ Fades(file[s], durable[s], file'[s], durable'[s])
                         /\ file'[s].hdr \in {file[s].hdr, durable[s].hdr}
                         /\ file[s] = Created /\ durable[s] = Created => file'[s] = Created
      BY <1>1
    <2>1. /\ file'[s] = Surviving(file[s], durable[s], s \in hs, s \in ds)
          /\ durable'[s] = Surviving(file[s], durable[s], s \in hs, s \in ds)
      BY <1>1
    <2>2. Sound(file[s], durable[s]) /\ file[s] \in Images /\ durable[s] \in Images
      BY ImageTypes DEF ImageInv, DiskImages, SlotsAreSound
    <2>. QED  BY <2>1, <2>2, SurvivingFades
  <1>5. \A s \in Slots \ present' : file'[s] = Created /\ durable'[s] = Created
    BY <1>2, <1>4 DEF ImageInv, DiskImages, AbsentAreCreated
  <1>6. DiskImages' /\ \A s \in Slots : NamesOn(s)' \subseteq NamesOn(s)
    BY <1>1, <1>4, <1>5, Fading DEF ImageInv
  <1>7. RemovedAreGone'
    BY <1>2, <1>6, RemovalsHold DEF ImageInv, AnswersHold
  <1>8. PromisedAreKept'
    BY <1>2, <1>4, ImageTypes, PromisesHold DEF ImageInv, AnswersHold
  <1>. QED  BY <1>3, <1>6, <1>7, <1>8 DEF ImageInv, AnswersHold

-----------------------------------------------------------------------------
(* The theorems *)

\* An empty directory.
LEMMA InitialImages ==
    ASSUME Init
    PROVE  ImageInv
  <1>1. /\ \A s \in Slots : file[s] = Created /\ durable[s] = Created
        /\ dying = {} /\ available = <<>> /\ quarantined = {} /\ state = "none"
        /\ op.kind = "none" /\ op.pc = "idle"
        /\ \A h \in Handles : handle[h] = Closed
        /\ \A n \in Names : answered[n] = "unknown"
    BY IdleFacts DEF Init
  <1>2. \A s \in Slots : NamesOn(s) = {} /\ Sound(file[s], durable[s])
    BY <1>1, FreshFacts DEF NamesOn, Bears
  <1>3. DiskImages
    BY <1>1, <1>2 DEF DiskImages, SlotsAreSound, AbsentAreCreated, NamesApart, DyingAreNameless
  <1>4. PoolImages
    BY <1>1, EmptyFacts
       DEF PoolImages, NamesAreMapped, MapIsRead, Published, QuarantineIsUnpromised,
           UnusedSlotsAreBlank, CollectedAreBlank, ImportIsUnnamed, ImportIsFresh,
           OpenFilesBearNames
  <1>5. AnswersHold
    BY <1>1, <1>2 DEF AnswersHold, PromisedAreKept, RemovedAreGone
  <1>. QED  BY <1>3, <1>4, <1>5 DEF ImageInv

\* No step, failure or crash breaks what the images promise.
LEMMA ImageInvStep ==
    ASSUME PoolInv, PoolInv', ImageInv, [Next]_vars
    PROVE  ImageInv'
  <1>1. CASE SQLite
    BY <1>1, FileStepImages, CloseFileImages, OpenExistingImages, OpenNewImages,
       OpenNewFailsImages DEF SQLite
  <1>2. CASE Management
    BY <1>2, DeleteFileImages, ClearAllImages, ClearFailsImages, ReleaseImages DEF Management
  <1>3. CASE Transfer
    BY <1>3, CreateImportImages, OperationStepImages, ImportWriteImages, ImportCommitImages,
       ImportFailsImages DEF Transfer
  <1>4. CASE Acquisition
    BY <1>4, OperationStepImages, SettleFailsImages, PublishImages, ConflictImages
       DEF Acquisition
  <1>5. CASE Resizing
    BY <1>5, OperationStepImages, GrowthImages, RemovalImages, FailureImages DEF Resizing
  <1>6. CASE Environment
    <2>1. CASE ForeignVfs
      BY <2>1, ElsewhereImages DEF ForeignVfs
    <2>. QED  BY <1>6, <2>1, RemovalLandsImages, ReleaseImages, LosePowerImages DEF Environment
  <1>7. CASE UNCHANGED vars
    BY <1>7, ElsewhereImages DEF vars
  <1>. QED  BY <1>1, <1>2, <1>3, <1>4, <1>5, <1>6, <1>7 DEF Next

\* Where every slot is, and what its images bear, in every state of the pool.
THEOREM ImageInvariant == Spec => [](PoolInv /\ ImageInv)
  <1>1. Init => PoolInv /\ ImageInv
    BY InitialPool, InitialImages
  <1>2. PoolInv /\ ImageInv /\ [Next]_vars => (PoolInv /\ ImageInv)'
    BY PoolInvStep, ImageInvStep
  <1>. QED  BY <1>1, <1>2, PTL DEF Spec

\* A slot that open_file or an import takes from the stack holds nothing of an
\* earlier file, in neither image, whatever failed while that one was deleted.
THEOREM UnusedSlotsHoldNothing == Spec => []UnusedSlotsAreBlank
  <1>1. ImageInv => UnusedSlotsAreBlank
    BY DEF ImageInv, PoolImages
  <1>. QED  BY <1>1, ImageInvariant, PTL

\* No failure and no crash leaves a name on two slots: acquire_access_handles
\* never finds a duplicate of the pool's own making.
THEOREM NamesAreOnOneSlot == Spec => []OneSlotPerName
  <1>1. PoolInv /\ ImageInv => OneSlotPerName
    BY ImageTypes DEF ImageInv, DiskImages, NamesApart, OneSlotPerName
  <1>. QED  BY <1>1, ImageInvariant, PTL

\* The map of a healthy pool is what a fresh acquisition would read.
THEOREM MapMatchesHeaders == Spec => []MapIsTheDirectory
  <1>1. ASSUME PoolInv, ImageInv
        PROVE  MapIsTheDirectory
    <2>. SUFFICES ASSUME state = "Active", ~needs_recovery, NEW s \in present
                  PROVE  /\ NamesOn(s) \subseteq {n \in Names : map[n] = s}
                         /\ \A n \in Names : map[n] = s => file[s].hdr.name = n
      BY DEF MapIsTheDirectory
    <2>1. quarantined = {} /\ Published /\ s \in Slots /\ s # NoSlot
      BY <1>1, ImageTypes, SlotAssumption DEF PoolInv, QuarantineNeedsRecovery, Published
    <2>2. NamesOn(s) \subseteq {n \in Names : map[n] = s}
      BY <1>1, <2>1, MapFacts DEF ImageInv, PoolImages
    <2>3. \A n \in Names : map[n] = s => file[s].hdr.name = n
      BY <1>1, <2>1 DEF ImageInv, PoolImages, MapIsRead
    <2>. QED  BY <2>2, <2>3
  <1>. QED  BY <1>1, ImageInvariant, PTL

\* What open_file, delete_file, clear and the imports reported survives every
\* later failure and crash, until somebody changes the same name.
THEOREM AnswersSurvive == Spec => []AnswersAreDurable
  <1>1. PoolInv /\ ImageInv => AnswersAreDurable
    BY ImageTypes DEF ImageInv, AnswersHold, PromisedAreKept, RemovedAreGone, AnswersAreDurable
  <1>. QED  BY <1>1, ImageInvariant, PTL

\* An import never runs beside a journal or a file of its own name, not even
\* one that only a loss of power would bring back.
THEOREM ImportsMeetNoJournal == Spec => []ImportMeetsNoJournal
  <1>1. PoolInv /\ ImageInv => ImportMeetsNoJournal
    BY ImageTypes DEF ImageInv, PoolImages, ImportIsFresh, ImportMeetsNoJournal
  <1>. QED  BY <1>1, ImageInvariant, PTL

\* commit flushes the contents before it writes the name: no loss of power
\* leaves an imported name over unfinished contents.
THEOREM ImportedNamesHaveContents == Spec => []ImportsSurviveWhole
  <1>1. PoolInv /\ ImageInv => ImportsSurviveWhole
    BY ImageTypes DEF ImageInv, DiskImages, SlotsAreSound, Sound, ImportsSurviveWhole
  <1>. QED  BY <1>1, ImageInvariant, PTL

=============================================================================
