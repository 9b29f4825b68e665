--------------------------- MODULE SahRegistryProofs ---------------------------
(***************************************************************************)
(* Proofs about the registration of SahRegistry and SQLite's list in       *)
(* VfsList, for any names, directories, tasks and number of installs.      *)
(***************************************************************************)
EXTENDS SahRegistry, SequenceTheorems, TLAPS

-----------------------------------------------------------------------------
(* SQLite's list as a set with a first element *)

UniqueNames(list) == \A i, j \in DOMAIN list : list[i].name = list[j].name => i = j

\* A VFS of this name could be linked: whoever has the name is v itself.
Fits(list, v) == \A u \in ToSet(list) : u.name = v.name => u = v

\* The elements of a sequence, by their indices.
LEMMA ElementFacts ==
    ASSUME NEW S, NEW list \in Seq(S)
    PROVE  /\ Len(list) \in Nat /\ DOMAIN list = 1..Len(list)
           /\ \A i \in 1..Len(list) : list[i] \in S /\ list[i] \in ToSet(list)
           /\ \A u \in ToSet(list) : \E i \in 1..Len(list) : list[i] = u
           /\ ToSet(list) \subseteq S
           /\ list # <<>> => Len(list) > 0 /\ Head(list) = list[1]
           /\ list = <<>> => ToSet(list) = {}
  <1>1. Len(list) \in Nat /\ DOMAIN list = 1..Len(list)
    BY LenProperties
  <1>2. \A i \in 1..Len(list) : list[i] \in S
    BY ElementOfSeq
  <1>3. list # <<>> => Len(list) > 0 /\ Head(list) = list[1]
    BY <1>1, EmptySeq
  <1>4. list = <<>> => ToSet(list) = {}
    BY <1>1, EmptySeq DEF ToSet
  <1>. QED  BY <1>1, <1>2, <1>3, <1>4 DEF ToSet

\* A sequence without its element at i.
LEMMA RemoveAtFacts ==
    ASSUME NEW S, NEW list \in Seq(S), NEW i \in 1..Len(list)
    PROVE  /\ RemoveAt(list, i) \in Seq(S)
           /\ Len(RemoveAt(list, i)) = Len(list) - 1
           /\ \A j \in 1..(Len(list) - 1) :
                RemoveAt(list, i)[j] = IF j < i THEN list[j] ELSE list[j + 1]
  <1>. DEFINE a == SubSeq(list, 1, i - 1)
              b == SubSeq(list, i + 1, Len(list))
  <1>1. Len(list) \in Nat /\ i \in Nat /\ i > 0 /\ i <= Len(list)
    BY LenProperties
  <1>2. /\ a \in Seq(S) /\ Len(a) = i - 1
        /\ \A j \in 1..(i - 1) : a[j] = list[j]
    <2>1. \A j \in 1..(i - 1) : list[j] \in S
      BY <1>1, ElementOfSeq
    <2>. QED  BY <1>1, <2>1, SubSeqProperties
  <1>3. /\ b \in Seq(S) /\ Len(b) = Len(list) - i
        /\ \A j \in 1..(Len(list) - i) : b[j] = list[i + j]
    <2>1. \A j \in (i + 1)..Len(list) : list[j] \in S
      BY <1>1, ElementOfSeq
    <2>. QED  BY <1>1, <2>1, SubSeqProperties
  <1>. HIDE DEF a, b
  <1>4. /\ a \o b \in Seq(S) /\ Len(a \o b) = Len(list) - 1
        /\ \A j \in 1..(Len(list) - 1) :
              (a \o b)[j] = IF j <= i - 1 THEN a[j] ELSE b[j - (i - 1)]
    <2>1. Len(a) + Len(b) = Len(list) - 1
      BY <1>1, <1>2, <1>3
    <2>2. /\ a \o b \in Seq(S) /\ Len(a \o b) = Len(a) + Len(b)
          /\ \A j \in 1..(Len(a) + Len(b)) :
                (a \o b)[j] = IF j <= Len(a) THEN a[j] ELSE b[j - Len(a)]
      BY <1>2, <1>3, ConcatProperties
    <2>. QED  BY <1>2, <2>1, <2>2
  <1>5. ASSUME NEW j \in 1..(Len(list) - 1)
        PROVE  (a \o b)[j] = IF j < i THEN list[j] ELSE list[j + 1]
    <2>1. CASE j < i
      BY <1>1, <1>2, <1>4, <2>1
    <2>2. CASE ~(j < i)
      <3>1. PICK k \in 1..(Len(list) - i) : k = j - (i - 1) /\ i + k = j + 1
        BY <1>1, <2>2
      <3>2. (a \o b)[j] = b[k] /\ b[k] = list[i + k]
        BY <1>1, <1>3, <1>4, <2>2, <3>1
      <3>. QED  BY <1>1, <2>2, <3>1, <3>2
    <2>. QED  BY <2>1, <2>2
  <1>6. RemoveAt(list, i) = a \o b
    BY DEF RemoveAt, a, b
  <1>. QED  BY <1>4, <1>5, <1>6

\* What vfsUnlink leaves.
LEMMA UnlinkedFacts ==
    ASSUME NEW S, NEW list \in Seq(S), UniqueNames(list), NEW v
    PROVE  /\ Unlinked(list, v) \in Seq(S) /\ UniqueNames(Unlinked(list, v))
           /\ ToSet(Unlinked(list, v)) = ToSet(list) \ {v}
           /\ list # <<>> /\ list[1] # v =>
                Unlinked(list, v) # <<>> /\ Unlinked(list, v)[1] = list[1]
           /\ Len(list) > 1 /\ list[1] = v =>
                Unlinked(list, v) # <<>> /\ Unlinked(list, v)[1] = list[2]
  <1>. DEFINE at == {i \in DOMAIN list : list[i] = v}
              rest == Unlinked(list, v)
  <1>1. Len(list) \in Nat /\ DOMAIN list = 1..Len(list)
    BY ElementFacts
  <1>2. CASE at = {}
    <2>1. rest = list
      BY <1>2 DEF Unlinked
    <2>2. v \notin ToSet(list)
      BY <1>2 DEF ToSet
    <2>3. Len(list) > 1 => list[1] # v
      BY <1>1, <1>2
    <2>. QED  BY <2>1, <2>2, <2>3
  <1>3. CASE at # {}
    <2>1. PICK k \in 1..Len(list) : list[k] = v
      BY <1>1, <1>3
    <2>2. at = {k}
      BY <1>1, <2>1 DEF UniqueNames
    <2>3. Min(at) = k
      BY <2>2 DEF Min
    <2>4. rest = RemoveAt(list, k)
      BY <1>3, <2>3 DEF Unlinked
    <2>5. /\ rest \in Seq(S) /\ Len(rest) = Len(list) - 1
          /\ \A j \in 1..(Len(list) - 1) : rest[j] = IF j < k THEN list[j] ELSE list[j + 1]
      BY <2>4, RemoveAtFacts
    <2>6. DOMAIN rest = 1..(Len(list) - 1)
      BY <2>5, LenProperties
    <2>. HIDE DEF rest, at
    <2>7. UniqueNames(rest)
      <3>1. SUFFICES ASSUME NEW i \in DOMAIN rest, NEW j \in DOMAIN rest, rest[i].name = rest[j].name
                     PROVE  i = j
        BY DEF UniqueNames
      <3>2. PICK m \in 1..Len(list) : m = (IF i < k THEN i ELSE i + 1) /\ rest[i] = list[m]
        BY <1>1, <2>1, <2>5, <2>6
      <3>3. PICK n \in 1..Len(list) : n = (IF j < k THEN j ELSE j + 1) /\ rest[j] = list[n]
        BY <1>1, <2>1, <2>5, <2>6
      <3>4. m = n
        BY <1>1, <3>1, <3>2, <3>3 DEF UniqueNames
      <3>. QED  BY <2>1, <2>6, <3>2, <3>3, <3>4
    <2>8. ToSet(rest) = ToSet(list) \ {v}
      <3>1. ASSUME NEW u \in ToSet(rest)
            PROVE  u \in ToSet(list) /\ u # v
        <4>1. PICK j \in 1..(Len(list) - 1) : u = rest[j]
          BY <2>6 DEF ToSet
        <4>2. PICK n \in 1..Len(list) : u = list[n] /\ n # k
          BY <1>1, <2>1, <2>5, <4>1
        <4>. QED  BY <1>1, <2>1, <2>2, <4>2 DEF ToSet, at
      <3>2. ASSUME NEW u \in ToSet(list), u # v
            PROVE  u \in ToSet(rest)
        <4>1. PICK n \in 1..Len(list) : u = list[n]
          BY <1>1 DEF ToSet
        <4>2. n # k
          BY <2>1, <3>2, <4>1
        <4>3. PICK j \in 1..(Len(list) - 1) : u = rest[j]
          <5>1. CASE n < k
            BY <1>1, <2>1, <2>5, <4>1, <5>1
          <5>2. CASE n > k
            <6>1. n - 1 \in 1..(Len(list) - 1) /\ ~(n - 1 < k) /\ (n - 1) + 1 = n
              BY <1>1, <2>1, <5>2
            <6>. QED  BY <2>5, <4>1, <6>1
          <5>. QED  BY <1>1, <2>1, <4>2, <5>1, <5>2
        <4>. QED  BY <2>6, <4>3 DEF ToSet
      <3>. QED  BY <3>1, <3>2
    <2>9. Len(rest) > 0 => rest # <<>>
      BY EmptySeq
    <2>10. list[1] # v => k > 1 /\ rest # <<>> /\ rest[1] = list[1]
      BY <1>1, <2>1, <2>5, <2>9
    <2>11. Len(list) > 1 /\ list[1] = v => k = 1 /\ rest # <<>> /\ rest[1] = list[2]
      <3>1. list[1] = v => k = 1
        BY <1>1, <2>1 DEF UniqueNames
      <3>2. Len(list) > 1 => 1 \in 1..(Len(list) - 1)
        BY <1>1
      <3>3. Len(list) > 1 /\ k = 1 => rest[1] = list[1 + 1] /\ rest # <<>>
        BY <1>1, <2>5, <2>9, <3>2
      <3>. QED  BY <3>1, <3>3
    <2>. QED  BY <2>5, <2>7, <2>8, <2>10, <2>11 DEF rest
  <1>. QED  BY <1>2, <1>3

\* What linking leaves: v is in the list once, in front if it is to be the
\* default, and else behind the default of the others.
LEMMA LinkedFacts ==
    ASSUME NEW S, NEW list \in Seq(S), UniqueNames(list), NEW v \in S, Fits(list, v),
           NEW dflt \in BOOLEAN
    PROVE  /\ Linked(list, v, dflt) \in Seq(S) /\ UniqueNames(Linked(list, v, dflt))
           /\ ToSet(Linked(list, v, dflt)) = ToSet(list) \cup {v}
           /\ Linked(list, v, dflt) # <<>>
           /\ dflt \/ ToSet(list) \subseteq {v} => Linked(list, v, dflt)[1] = v
           /\ ~dflt /\ list # <<>> /\ list[1] # v =>
                /\ Len(Linked(list, v, dflt)) > 1
                /\ Linked(list, v, dflt)[1] = list[1] /\ Linked(list, v, dflt)[2] = v
  <1>. DEFINE rest == Unlinked(list, v)
              new == Linked(list, v, dflt)
  <1>1. /\ rest \in Seq(S) /\ UniqueNames(rest) /\ ToSet(rest) = ToSet(list) \ {v}
        /\ list # <<>> /\ list[1] # v => rest # <<>> /\ rest[1] = list[1]
    BY UnlinkedFacts
  <1>2. Len(rest) \in Nat /\ DOMAIN rest = 1..Len(rest) /\ (rest # <<>> => Len(rest) > 0)
    BY <1>1, ElementFacts
  <1>3. \A i \in 1..Len(rest) : rest[i] # v /\ rest[i].name # v.name
    <2>1. \A i \in 1..Len(rest) : rest[i] \in ToSet(list) \ {v}
      BY <1>1, ElementFacts
    <2>. QED  BY <2>1 DEF Fits
  <1>. HIDE DEF rest
  <1>4. PICK at \in {1, 2} :
            /\ at = 2 => rest # <<>> /\ ~dflt
            /\ at = 1 => dflt \/ rest = <<>>
            /\ new \in Seq(S) /\ Len(new) = Len(rest) + 1
            /\ new[at] = v
            /\ \A i \in 1..Len(rest) : i < at => new[i] = rest[i]
            /\ \A i \in 1..Len(rest) : i >= at => new[i + 1] = rest[i]
    <2>1. CASE dflt \/ rest = <<>>
      <3>1. new = <<v>> \o rest
        BY <2>1 DEF Linked, rest
      <3>2. <<v>> \in Seq(S) /\ Len(<<v>>) = 1 /\ <<v>>[1] = v
        OBVIOUS
      <3>3. /\ new \in Seq(S) /\ Len(new) = 1 + Len(rest)
            /\ \A i \in 1..(1 + Len(rest)) : new[i] = IF i <= 1 THEN <<v>>[i] ELSE rest[i - 1]
        BY <1>1, <3>1, <3>2, ConcatProperties
      <3>4. new[1] = v /\ \A i \in 1..Len(rest) : i >= 1 => new[i + 1] = rest[i]
        BY <1>2, <3>2, <3>3
      <3>. QED  BY <1>2, <2>1, <3>3, <3>4
    <2>2. CASE ~dflt /\ rest # <<>>
      <3>. DEFINE tail == Tail(rest)
                  pair == <<Head(rest), v>>
      <3>1. new = pair \o tail
        BY <2>2 DEF Linked, rest
      <3>2. Head(rest) = rest[1] /\ rest[1] \in S
        BY <1>1, <1>2, <2>2, ElementFacts
      <3>3. pair \in Seq(S) /\ Len(pair) = 2 /\ pair[1] = rest[1] /\ pair[2] = v
        BY <3>2
      <3>4. /\ tail \in Seq(S) /\ Len(tail) = Len(rest) - 1
            /\ \A i \in 1..(Len(rest) - 1) : tail[i] = rest[i + 1]
        BY <1>1, <2>2, HeadTailProperties
      <3>. HIDE DEF tail, pair, new
      <3>5. /\ new \in Seq(S) /\ Len(new) = 2 + Len(tail)
            /\ \A i \in 1..(2 + Len(tail)) : new[i] = IF i <= 2 THEN pair[i] ELSE tail[i - 2]
        <4>1. /\ pair \o tail \in Seq(S) /\ Len(pair \o tail) = Len(pair) + Len(tail)
              /\ \A i \in 1..(Len(pair) + Len(tail)) :
                    (pair \o tail)[i] = IF i <= Len(pair) THEN pair[i] ELSE tail[i - Len(pair)]
          BY <3>3, <3>4, ConcatProperties
        <4>. QED  BY <3>1, <3>3, <4>1
      <3>6. Len(new) = Len(rest) + 1 /\ new[1] = rest[1] /\ new[2] = v
        BY <1>2, <2>2, <3>3, <3>4, <3>5
      <3>7. ASSUME NEW i \in 1..Len(rest), i >= 2
            PROVE  new[i + 1] = rest[i]
        <4>1. PICK m \in 1..(Len(rest) - 1) : m = (i + 1) - 2 /\ i = m + 1
          BY <1>2, <3>7
        <4>2. new[i + 1] = tail[m] /\ tail[m] = rest[m + 1]
          BY <1>2, <3>4, <3>5, <3>7, <4>1
        <4>. QED  BY <4>1, <4>2
      <3>8. \A i \in 1..Len(rest) : i < 2 => new[i] = rest[i]
        BY <1>2, <3>6
      <3>. QED  BY <2>2, <3>5, <3>6, <3>7, <3>8
    <2>. QED  BY <2>1, <2>2
  <1>. HIDE DEF new
  <1>5. DOMAIN new = 1..(Len(rest) + 1) /\ at \in 1..(Len(rest) + 1) /\ new # <<>>
    BY <1>2, <1>4, LenProperties, EmptySeq
  <1>6. \A i \in 1..(Len(rest) + 1) :
            i # at => \E m \in 1..Len(rest) : i = (IF m < at THEN m ELSE m + 1) /\ new[i] = rest[m]
    <2>1. SUFFICES ASSUME NEW i \in 1..(Len(rest) + 1), i # at
                   PROVE  \E m \in 1..Len(rest) :
                            i = (IF m < at THEN m ELSE m + 1) /\ new[i] = rest[m]
      OBVIOUS
    <2>2. CASE i < at
      BY <1>2, <1>4, <1>5, <2>1, <2>2
    <2>3. CASE i > at
      <3>1. PICK m \in 1..Len(rest) : i = m + 1 /\ m >= at
        BY <1>2, <1>5, <2>1, <2>3
      <3>2. new[i] = rest[m] /\ ~(m < at)
        BY <1>2, <1>4, <3>1
      <3>. QED  BY <3>1, <3>2
    <2>. QED  BY <1>2, <1>5, <2>1, <2>2, <2>3
  <1>7. UniqueNames(new)
    <2>1. SUFFICES ASSUME NEW i \in 1..(Len(rest) + 1), NEW j \in 1..(Len(rest) + 1),
                          new[i].name = new[j].name
                   PROVE  i = j
      BY <1>5 DEF UniqueNames
    <2>2. CASE i = at \/ j = at
      BY <1>3, <1>4, <1>6, <2>1, <2>2
    <2>3. CASE i # at /\ j # at
      <3>1. PICK m \in 1..Len(rest) : i = (IF m < at THEN m ELSE m + 1) /\ new[i] = rest[m]
        BY <1>6, <2>3
      <3>2. PICK n \in 1..Len(rest) : j = (IF n < at THEN n ELSE n + 1) /\ new[j] = rest[n]
        BY <1>6, <2>3
      <3>3. m = n
        BY <1>1, <1>2, <2>1, <3>1, <3>2 DEF UniqueNames
      <3>. QED  BY <3>1, <3>2, <3>3
    <2>. QED  BY <2>2, <2>3
  <1>8. ToSet(new) = ToSet(list) \cup {v}
    <2>1. ToSet(new) \subseteq ToSet(rest) \cup {v}
      <3>1. SUFFICES ASSUME NEW i \in 1..(Len(rest) + 1), i # at
                     PROVE  new[i] \in ToSet(rest)
        BY <1>4, <1>5 DEF ToSet
      <3>2. PICK m \in 1..Len(rest) : new[i] = rest[m]
        BY <1>6, <3>1
      <3>. QED  BY <1>2, <3>2 DEF ToSet
    <2>2. v \in ToSet(new)
      BY <1>4, <1>5 DEF ToSet
    <2>3. ASSUME NEW u \in ToSet(rest)
          PROVE  u \in ToSet(new)
      <3>1. PICK m \in 1..Len(rest) : u = rest[m]
        BY <1>2 DEF ToSet
      <3>2. m \in DOMAIN new /\ m + 1 \in DOMAIN new
        BY <1>2, <1>5
      <3>3. u = new[m] \/ u = new[m + 1]
        BY <1>2, <1>4, <3>1
      <3>. QED  BY <3>2, <3>3 DEF ToSet
    <2>. QED  BY <1>1, <2>1, <2>2, <2>3
  <1>9. dflt \/ ToSet(list) \subseteq {v} => new[1] = v
    <2>1. ToSet(list) \subseteq {v} => rest = <<>>
      <3>1. rest # <<>> => rest[1] \in ToSet(rest)
        BY <1>1, <1>2, ElementFacts
      <3>. QED  BY <1>1, <3>1
    <2>. QED  BY <1>4, <2>1
  <1>10. ~dflt /\ list # <<>> /\ list[1] # v =>
            Len(new) > 1 /\ new[1] = list[1] /\ new[2] = v
    <2>1. ~dflt /\ rest # <<>> => at = 2 /\ Len(new) > 1 /\ new[2] = v /\ new[1] = rest[1]
      BY <1>2, <1>4
    <2>. QED  BY <1>1, <2>1
  <1>. QED  BY <1>4, <1>5, <1>7, <1>8, <1>9, <1>10 DEF new

\* What sqlite3_vfs_find answers.
LEMMA LookupFacts ==
    ASSUME NEW S, NoVfs \notin S, NEW q, q.list \in Seq(S), UniqueNames(q.list), NEW name
    PROVE  /\ Lookup(q, name) = NoVfs => \A u \in ToSet(q.list) : u.name # name
           /\ Lookup(q, name) # NoVfs =>
                /\ Lookup(q, name) \in ToSet(q.list) /\ Lookup(q, name).name = name
                /\ \A u \in ToSet(q.list) : u.name = name => u = Lookup(q, name)
  <1>. DEFINE at == {i \in DOMAIN q.list : q.list[i].name = name}
  <1>1. /\ \A i \in DOMAIN q.list : q.list[i] \in S /\ q.list[i] \in ToSet(q.list)
        /\ \A u \in ToSet(q.list) : \E i \in DOMAIN q.list : q.list[i] = u
    BY ElementFacts DEF ToSet
  <1>2. CASE at = {}
    <2>1. Lookup(q, name) = NoVfs
      BY <1>2 DEF Lookup
    <2>. QED  BY <1>1, <1>2, <2>1
  <1>3. CASE at # {}
    <2>1. PICK k \in DOMAIN q.list : q.list[k].name = name
      BY <1>3
    <2>2. at = {k}
      BY <2>1 DEF UniqueNames
    <2>3. Len(q.list) \in Nat /\ k \in 1..Len(q.list)
      BY <2>1, ElementFacts
    <2>4. Min(at) = k
      BY <2>2, <2>3 DEF Min
    <2>5. Lookup(q, name) = q.list[k]
      BY <1>3, <2>4 DEF Lookup
    <2>. QED  BY <1>1, <2>1, <2>2, <2>5
  <1>. QED  BY <1>2, <1>3

-----------------------------------------------------------------------------
(* SQLite's interface *)

LibraryStates == [list : Seq(Vfss), init : BOOLEAN, mem : {NoVfs, Mem}]

\* The list is one of VFSs with different names, and memvfs is in it only while
\* it owns its allocation.
ListOK(q) ==
    /\ q \in LibraryStates
    /\ UniqueNames(q.list)
    /\ Mem \in ToSet(q.list) => q.mem = Mem

\* Nothing takes memdb out of the list once the library was initialized.
LibraryOK(q) ==
    /\ ListOK(q)
    /\ Memdb \in ToSet(q.list) \/ (q.list = <<>> /\ ~q.init)

\* The VFSs that are told apart by owner and name.
LEMMA VfsFacts ==
    /\ Mem \in Vfss /\ Memdb \in Vfss /\ NoVfs \notin Vfss
    /\ Mem # Memdb /\ Mem.name # Memdb.name /\ Mem # NoVfs /\ Memdb # NoVfs
    /\ \A n \in PoolNames :
          /\ PoolVfs(n) \in Vfss /\ PoolVfs(n) \notin {Mem, Memdb, NoVfs}
          /\ PoolVfs(n).name = n
    /\ \A n \in ForeignNames :
          /\ Foreign(n) \in Vfss /\ Foreign(n) \notin {Mem, Memdb, NoVfs}
          /\ Foreign(n).name = n
    /\ \A m, n \in PoolNames : PoolVfs(m) = PoolVfs(n) => m = n
    /\ \A m \in PoolNames, n \in ForeignNames : PoolVfs(m) # Foreign(n)
  BY DEF Vfss, Mem, Memdb, NoVfs, PoolVfs, Foreign, Vfs

\* The name of memvfs is free or its own unless memvfs::install refuses.
LEMMA OursFacts ==
    ASSUME NEW q, ListOK(q), ~NotOurs(q)
    PROVE  Fits(q.list, Mem)
  <1>1. /\ Lookup(q, Mem.name) = NoVfs => \A u \in ToSet(q.list) : u.name # Mem.name
        /\ Lookup(q, Mem.name) # NoVfs =>
                \A u \in ToSet(q.list) : u.name = Mem.name => u = Lookup(q, Mem.name)
    BY LookupFacts, VfsFacts DEF ListOK, LibraryStates
  <1>. QED  BY <1>1 DEF NotOurs, ListOK, LibraryStates, Fits

\* What memvfs::install does to the list.
LEMMA InstallMemFacts ==
    ASSUME NEW q, ListOK(q), NEW d \in BOOLEAN
    PROVE  /\ InstallMem(q, d).ok \in BOOLEAN /\ ListOK(InstallMem(q, d).q)
           /\ ~InstallMem(q, d).ok => InstallMem(q, d).q = q
           /\ InstallMem(q, d).ok =>
                /\ InstallMem(q, d).q.mem = Mem /\ InstallMem(q, d).q.init = q.init
                /\ ToSet(InstallMem(q, d).q.list) = ToSet(q.list) \cup {Mem}
                /\ InstallMem(q, d).q.list # <<>>
                /\ d => InstallMem(q, d).q.list[1] = Mem
                /\ ~d /\ q.list # <<>> => InstallMem(q, d).q.list[1] = q.list[1]
  <1>. DEFINE r == InstallMem(q, d)
              l == Linked(q.list, Mem, d)
  <1>1. CASE NotOurs(q)
    <2>1. r = Answer(FALSE, q)
      BY <1>1 DEF InstallMem
    <2>. QED  BY <2>1 DEF Answer
  <1>2. CASE ~NotOurs(q)
    <2>1. Fits(q.list, Mem)
      BY <1>2, OursFacts
    <2>2. q \in LibraryStates /\ q.list \in Seq(Vfss) /\ UniqueNames(q.list) /\ q.mem \in {NoVfs, Mem}
      BY DEF ListOK, LibraryStates
    <2>3. /\ l \in Seq(Vfss) /\ UniqueNames(l)
          /\ ToSet(l) = ToSet(q.list) \cup {Mem} /\ l # <<>>
          /\ d => l[1] = Mem
          /\ ~d /\ q.list # <<>> /\ q.list[1] # Mem => l[1] = q.list[1]
      BY <2>1, <2>2, VfsFacts, LinkedFacts
    <2>4. q.list # <<>> => q.list[1] \in ToSet(q.list)
      BY <2>2, ElementFacts
    <2>. HIDE DEF l
    <2>5. CASE q.mem = NoVfs
      <3>1. r = Answer(TRUE, [q EXCEPT !.mem = Mem, !.list = l])
        BY <1>2, <2>5 DEF InstallMem, l
      <3>2. r.ok = TRUE /\ r.q \in LibraryStates /\ r.q.list = l /\ r.q.mem = Mem /\ r.q.init = q.init
        <4>1. r.ok = TRUE /\ r.q = [q EXCEPT !.mem = Mem, !.list = l]
          BY <3>1 DEF Answer
        <4>. QED  BY <2>2, <2>3, <4>1 DEF LibraryStates
      <3>3. Mem \notin ToSet(q.list)
        BY <2>5, VfsFacts DEF ListOK
      <3>. QED  BY <2>3, <2>4, <3>2, <3>3 DEF ListOK
    <2>6. CASE q.mem = Mem /\ (~Registered(q, q.mem) \/ d)
      <3>1. r = Answer(TRUE, [q EXCEPT !.list = l])
        BY <1>2, <2>6, VfsFacts DEF InstallMem, l
      <3>2. r.ok = TRUE /\ r.q \in LibraryStates /\ r.q.list = l /\ r.q.mem = Mem /\ r.q.init = q.init
        <4>1. r.ok = TRUE /\ r.q = [q EXCEPT !.list = l]
          BY <3>1 DEF Answer
        <4>. QED  BY <2>2, <2>3, <2>6, <4>1 DEF LibraryStates
      <3>3. ~d => Mem \notin ToSet(q.list)
        BY <2>6 DEF Registered
      <3>. QED  BY <2>3, <2>4, <3>2, <3>3 DEF ListOK
    <2>7. CASE q.mem = Mem /\ Registered(q, q.mem) /\ ~d
      <3>1. r = Answer(TRUE, q)
        BY <1>2, <2>7, VfsFacts DEF InstallMem
      <3>2. Mem \in ToSet(q.list) /\ q.list # <<>>
        BY <2>2, <2>7, ElementFacts DEF Registered
      <3>. QED  BY <2>7, <3>1, <3>2 DEF Answer
    <2>. QED  BY <2>2, <2>5, <2>6, <2>7
  <1>. QED  BY <1>1, <1>2

\* What a first call of SQLite finds, or a failed initialization leaves.
LEMMA InitializeFacts ==
    ASSUME NEW q, LibraryOK(q)
    PROVE  /\ Initialize(q).ok \in BOOLEAN /\ LibraryOK(Initialize(q).q)
           /\ ~Initialize(q).ok => Initialize(q).q = q
           /\ q.init => Initialize(q).ok /\ Initialize(q).q = q
           /\ Initialize(q).ok => Initialize(q).q.init /\ Initialize(q).q.list # <<>>
           /\ ToSet(q.list) \subseteq ToSet(Initialize(q).q.list)
           /\ ToSet(Initialize(q).q.list) \subseteq ToSet(q.list) \cup {Mem, Memdb}
           /\ Initialize(q).ok /\ ~q.init =>
                /\ Len(Initialize(q).q.list) > 1
                /\ Initialize(q).q.list[1] = Mem /\ Initialize(q).q.list[2] = Memdb
  <1>. DEFINE os == InstallMem(q, TRUE)
              i == Initialize(q)
  <1>1. ListOK(q) /\ q \in LibraryStates /\ q.init \in BOOLEAN
    BY DEF LibraryOK, ListOK, LibraryStates
  <1>2. /\ os.ok \in BOOLEAN /\ ListOK(os.q)
        /\ ~os.ok => os.q = q
        /\ os.ok =>
              /\ os.q.mem = Mem /\ ToSet(os.q.list) = ToSet(q.list) \cup {Mem}
              /\ os.q.list # <<>> /\ os.q.list[1] = Mem
    BY <1>1, InstallMemFacts
  <1>3. CASE q.init
    <2>1. i = Answer(TRUE, q)
      BY <1>3 DEF Initialize
    <2>2. i.ok = TRUE /\ i.q = q
      BY <2>1 DEF Answer
    <2>3. q.list # <<>>
      BY <1>3, <1>1, ElementFacts DEF LibraryOK, ListOK, LibraryStates
    <2>. QED  BY <1>3, <2>2, <2>3
  <1>4. CASE ~q.init /\ ~os.ok
    <2>1. i = os
      BY <1>4 DEF Initialize
    <2>. QED  BY <1>2, <1>4, <2>1
  <1>5. CASE ~q.init /\ os.ok
    <2>. DEFINE l == Linked(os.q.list, Memdb, FALSE)
    <2>. HIDE DEF os
    <2>1. i = Answer(TRUE, [os.q EXCEPT !.list = l, !.init = TRUE])
      BY <1>5 DEF Initialize, os
    <2>2. /\ os.q \in LibraryStates /\ os.q.list \in Seq(Vfss) /\ UniqueNames(os.q.list)
          /\ Mem # Memdb /\ Memdb \in Vfss
      BY <1>2, VfsFacts DEF ListOK, LibraryStates
    <2>3. Fits(os.q.list, Memdb)
      <3>1. CASE Memdb \in ToSet(q.list)
        <4>1. Memdb \in ToSet(os.q.list)
          BY <1>2, <1>5, <3>1
        <4>. QED  BY <2>2, <4>1, ElementFacts DEF Fits, UniqueNames
      <3>2. CASE q.list = <<>>
        <4>1. q.list \in Seq(Vfss)
          BY <1>1 DEF LibraryStates
        <4>2. ToSet(os.q.list) = {Mem}
          BY <1>2, <1>5, <3>2, <4>1, ElementFacts
        <4>. QED  BY <4>2, VfsFacts DEF Fits
      <3>. QED  BY <3>1, <3>2 DEF LibraryOK
    <2>4. /\ l \in Seq(Vfss) /\ UniqueNames(l) /\ l # <<>>
          /\ ToSet(l) = ToSet(os.q.list) \cup {Memdb}
          /\ Len(l) > 1 /\ l[1] = os.q.list[1] /\ l[2] = Memdb
      <3>1. PICK d \in BOOLEAN : d = FALSE
        OBVIOUS
      <3>2. l = Linked(os.q.list, Memdb, d)
        BY <3>1
      <3>. HIDE DEF l
      <3>. QED  BY <1>2, <1>5, <2>2, <2>3, <3>1, <3>2, LinkedFacts
    <2>. HIDE DEF l
    <2>5. i.ok = TRUE /\ i.q = [os.q EXCEPT !.list = l, !.init = TRUE]
      BY <2>1 DEF Answer
    <2>. HIDE DEF i
    <2>6. i.q \in LibraryStates /\ i.q.list = l /\ i.q.mem = os.q.mem /\ i.q.init = TRUE
      BY <1>2, <2>2, <2>4, <2>5 DEF LibraryStates
    <2>7. LibraryOK(i.q)
      BY <1>2, <1>5, <2>4, <2>6 DEF LibraryOK, ListOK
    <2>. QED  BY <1>2, <1>5, <2>4, <2>5, <2>6, <2>7 DEF i
  <1>. QED  BY <1>1, <1>2, <1>3, <1>4, <1>5

\* What sqlite3_vfs_register does: nothing unless SQLite can be initialized.
LEMMA RegisterFacts ==
    ASSUME NEW q, LibraryOK(q), NEW v \in Vfss \ {Mem, Memdb}, NEW d \in BOOLEAN,
           Initialize(q).ok => Fits(Initialize(q).q.list, v)
    PROVE  /\ Register(q, v, d).ok = Initialize(q).ok /\ LibraryOK(Register(q, v, d).q)
           /\ Register(q, v, d).q.mem = Initialize(q).q.mem
           /\ ~Initialize(q).ok => Register(q, v, d).q = q
           /\ Initialize(q).ok =>
                /\ ToSet(Register(q, v, d).q.list) = ToSet(Initialize(q).q.list) \cup {v}
                /\ Register(q, v, d).q.list # <<>>
                /\ d => Register(q, v, d).q.list[1] = v
                /\ ~d /\ v \notin ToSet(q.list) =>
                      Register(q, v, d).q.list[1] = Initialize(q).q.list[1]
  <1>. DEFINE i == Initialize(q)
              r == Register(q, v, d)
              l == Linked(i.q.list, v, d)
  <1>1. /\ i.ok \in BOOLEAN /\ LibraryOK(i.q) /\ (~i.ok => i.q = q)
        /\ i.ok => i.q.init /\ i.q.list # <<>>
        /\ ToSet(i.q.list) \subseteq ToSet(q.list) \cup {Mem, Memdb}
    BY InitializeFacts
  <1>2. CASE ~i.ok
    <2>1. r = i
      BY <1>2 DEF Register, Initialized
    <2>. QED  BY <1>1, <1>2, <2>1
  <1>3. CASE i.ok
    <2>. HIDE DEF i
    <2>1. r = Answer(TRUE, [i.q EXCEPT !.list = l])
      BY <1>3 DEF Register, Initialized, i
    <2>2. /\ i.q \in LibraryStates /\ i.q.list \in Seq(Vfss) /\ UniqueNames(i.q.list)
          /\ i.q.init /\ Memdb \in ToSet(i.q.list)
      BY <1>1, <1>3 DEF LibraryOK, ListOK, LibraryStates
    <2>3. /\ l \in Seq(Vfss) /\ UniqueNames(l) /\ l # <<>>
          /\ ToSet(l) = ToSet(i.q.list) \cup {v}
          /\ d => l[1] = v
          /\ ~d /\ i.q.list[1] # v => l[1] = i.q.list[1]
      BY <1>1, <1>3, <2>2, LinkedFacts DEF i
    <2>4. v \notin ToSet(q.list) => i.q.list[1] # v
      <3>1. i.q.list[1] \in ToSet(i.q.list)
        BY <1>1, <1>3, <2>2, ElementFacts
      <3>. QED  BY <1>1, <3>1
    <2>. HIDE DEF l
    <2>5. r.ok = TRUE /\ r.q = [i.q EXCEPT !.list = l]
      BY <2>1 DEF Answer
    <2>. HIDE DEF r
    <2>6. r.q \in LibraryStates /\ r.q.list = l /\ r.q.mem = i.q.mem /\ r.q.init = i.q.init
      BY <2>2, <2>3, <2>5 DEF LibraryStates
    <2>7. LibraryOK(r.q)
      BY <1>1, <2>2, <2>3, <2>6 DEF LibraryOK, ListOK
    <2>. QED  BY <1>3, <2>3, <2>4, <2>5, <2>6, <2>7 DEF r, i
  <1>. QED  BY <1>1, <1>2, <1>3

\* What sqlite3_vfs_unregister does, memdb excepted: no code asks for that.
LEMMA UnregisterFacts ==
    ASSUME NEW q, LibraryOK(q), NEW v \in Vfss \ {Memdb}
    PROVE  /\ Unregister(q, v).ok = Initialize(q).ok /\ LibraryOK(Unregister(q, v).q)
           /\ Unregister(q, v).q.mem = Initialize(q).q.mem
           /\ ~Initialize(q).ok => Unregister(q, v).q = q
           /\ Initialize(q).ok =>
                /\ ToSet(Unregister(q, v).q.list) = ToSet(Initialize(q).q.list) \ {v}
                /\ Unregister(q, v).q.list # <<>>
                /\ Initialize(q).q.list[1] # v =>
                      Unregister(q, v).q.list[1] = Initialize(q).q.list[1]
                /\ ~q.init /\ v = Mem => Unregister(q, v).q.list[1] = Memdb
  <1>. DEFINE i == Initialize(q)
              r == Unregister(q, v)
              l == Unlinked(i.q.list, v)
  <1>1. /\ i.ok \in BOOLEAN /\ LibraryOK(i.q) /\ (~i.ok => i.q = q)
        /\ i.ok => i.q.init /\ i.q.list # <<>>
        /\ i.ok /\ ~q.init => Len(i.q.list) > 1 /\ i.q.list[1] = Mem /\ i.q.list[2] = Memdb
    BY InitializeFacts
  <1>2. CASE ~i.ok
    <2>1. r = i
      BY <1>2 DEF Unregister, Initialized
    <2>. QED  BY <1>1, <1>2, <2>1
  <1>3. CASE i.ok
    <2>. HIDE DEF i
    <2>1. r = Answer(TRUE, [i.q EXCEPT !.list = l])
      BY <1>3 DEF Unregister, Initialized, i
    <2>2. /\ i.q \in LibraryStates /\ i.q.list \in Seq(Vfss) /\ UniqueNames(i.q.list)
          /\ i.q.init /\ Memdb \in ToSet(i.q.list)
      BY <1>1, <1>3 DEF LibraryOK, ListOK, LibraryStates
    <2>3. /\ l \in Seq(Vfss) /\ UniqueNames(l)
          /\ ToSet(l) = ToSet(i.q.list) \ {v}
          /\ i.q.list[1] # v => l[1] = i.q.list[1]
          /\ Len(i.q.list) > 1 /\ i.q.list[1] = v => l[1] = i.q.list[2]
      BY <1>1, <1>3, <2>2, UnlinkedFacts
    <2>. HIDE DEF l
    <2>4. Memdb \in ToSet(l) /\ l # <<>>
      BY <2>2, <2>3, ElementFacts
    <2>5. r.ok = TRUE /\ r.q = [i.q EXCEPT !.list = l]
      BY <2>1 DEF Answer
    <2>. HIDE DEF r
    <2>6. r.q \in LibraryStates /\ r.q.list = l /\ r.q.mem = i.q.mem /\ r.q.init = i.q.init
      BY <2>2, <2>3, <2>5 DEF LibraryStates
    <2>7. LibraryOK(r.q)
      BY <1>1, <2>2, <2>3, <2>4, <2>6 DEF LibraryOK, ListOK
    <2>. QED  BY <1>1, <1>3, <2>3, <2>4, <2>5, <2>6, <2>7 DEF r, i
  <1>. QED  BY <1>1, <1>2, <1>3

\* A call changed the list from q's to r's, for no pool: at most memvfs and
\* memdb are new, and no pool takes the default from a VFS that stays.
Calm(q, r) ==
    /\ LibraryOK(r)
    /\ ToSet(r.list) \subseteq ToSet(q.list) \cup {Mem, Memdb}
    /\ \A n \in PoolNames :
          Default(r) = PoolVfs(n) =>
              Default(q) = PoolVfs(n) \/ Default(q) \notin ToSet(r.list)

\* The same with v, registered as the default or not.
Grown(q, r, v, d) ==
    /\ LibraryOK(r)
    /\ ToSet(r.list) \subseteq ToSet(q.list) \cup {Mem, Memdb, v}
    /\ \A n \in PoolNames :
          Default(r) = PoolVfs(n) =>
              Default(q) = PoolVfs(n) \/ (d /\ v = PoolVfs(n) /\ Initialize(q).ok)

LEMMA DefaultFacts ==
    ASSUME NEW q, LibraryOK(q)
    PROVE  q.list # <<>> => Default(q) = q.list[1]
  BY ElementFacts DEF Default, LibraryOK, ListOK, LibraryStates

\* The default after an initialization is memvfs or what it was.
LEMMA InitializeDefault ==
    ASSUME NEW q, LibraryOK(q)
    PROVE  /\ Default(Initialize(q).q) \in {Mem, Default(q)}
           /\ Default(Initialize(q).q) # Default(q) => Initialize(q).ok /\ ~q.init
           /\ Initialize(q).ok => Default(Initialize(q).q) = Initialize(q).q.list[1]
  <1>. DEFINE i == Initialize(q)
  <1>1. /\ LibraryOK(i.q) /\ (~i.ok => i.q = q) /\ (q.init => i.q = q)
        /\ i.ok => i.q.list # <<>>
        /\ i.ok /\ ~q.init => i.q.list[1] = Mem
    BY InitializeFacts
  <1>. HIDE DEF i
  <1>2. i.ok => Default(i.q) = i.q.list[1]
    BY <1>1, DefaultFacts
  <1>. QED  BY <1>1, <1>2 DEF i

LEMMA InitializeIsCalm ==
    ASSUME NEW q, LibraryOK(q)
    PROVE  Calm(q, Initialize(q).q)
  BY InitializeFacts, InitializeDefault, VfsFacts DEF Calm

LEMMA UnregisterIsCalm ==
    ASSUME NEW q, LibraryOK(q), NEW v \in Vfss \ {Memdb}
    PROVE  Calm(q, Unregister(q, v).q)
  <1>. DEFINE i == Initialize(q)
              r == Unregister(q, v)
  <1>1. /\ LibraryOK(r.q) /\ (~i.ok => r.q = q)
        /\ i.ok =>
              /\ ToSet(r.q.list) = ToSet(i.q.list) \ {v} /\ r.q.list # <<>>
              /\ i.q.list[1] # v => r.q.list[1] = i.q.list[1]
              /\ ~q.init /\ v = Mem => r.q.list[1] = Memdb
    BY UnregisterFacts
  <1>2. /\ ToSet(i.q.list) \subseteq ToSet(q.list) \cup {Mem, Memdb}
        /\ i.ok /\ ~q.init => i.q.list[1] = Mem
        /\ q.init => i.q = q
    BY InitializeFacts
  <1>3. /\ Default(i.q) \in {Mem, Default(q)}
        /\ i.ok => Default(i.q) = i.q.list[1]
    BY InitializeDefault
  <1>. HIDE DEF i, r
  <1>4. i.ok => Default(r.q) = r.q.list[1]
    BY <1>1, DefaultFacts
  <1>5. ASSUME NEW n \in PoolNames, Default(r.q) = PoolVfs(n)
        PROVE  Default(q) = PoolVfs(n) \/ Default(q) \notin ToSet(r.q.list)
    <2>1. CASE ~i.ok
      BY <1>1, <1>5, <2>1
    <2>2. CASE i.ok /\ i.q.list[1] # v
      BY <1>1, <1>3, <1>4, <1>5, <2>2, VfsFacts
    <2>3. CASE i.ok /\ i.q.list[1] = v /\ q.init
      BY <1>1, <1>2, <1>3, <2>3
    <2>4. CASE i.ok /\ i.q.list[1] = v /\ ~q.init
      BY <1>1, <1>2, <1>4, <1>5, <2>4, VfsFacts
    <2>. QED  BY <2>1, <2>2, <2>3, <2>4
  <1>6. ToSet(r.q.list) \subseteq ToSet(q.list) \cup {Mem, Memdb}
    BY <1>1, <1>2
  <1>. QED  BY <1>1, <1>5, <1>6 DEF Calm, r

\* memvfs::install called by the application.
LEMMA MemInstallIsCalm ==
    ASSUME NEW q, LibraryOK(q), NEW d \in BOOLEAN
    PROVE  Calm(q, MemInstall(q, d).q)
  <1>. DEFINE i == Initialize(q)
              r == MemInstall(q, d)
  <1>1. CASE ~i.ok
    <2>1. r = i
      BY <1>1 DEF MemInstall, Initialized
    <2>. QED  BY <2>1, InitializeIsCalm
  <1>2. CASE i.ok
    <2>1. r = InstallMem(i.q, d)
      BY <1>2 DEF MemInstall, Initialized
    <2>2. LibraryOK(i.q) /\ ListOK(i.q) /\ i.q.list # <<>> /\ i.q.init /\ Calm(q, i.q)
      BY <1>2, InitializeFacts, InitializeIsCalm DEF LibraryOK
    <2>3. Default(i.q) \in {Mem, Default(q)} /\ Default(i.q) = i.q.list[1]
      BY <1>2, InitializeDefault
    <2>. HIDE DEF i
    <2>4. /\ r.ok \in BOOLEAN /\ ListOK(r.q)
          /\ ~r.ok => r.q = i.q
          /\ r.ok =>
                /\ r.q.init = i.q.init /\ ToSet(r.q.list) = ToSet(i.q.list) \cup {Mem}
                /\ r.q.list # <<>> /\ r.q.list[1] \in {Mem, i.q.list[1]}
      <3>. HIDE DEF r
      <3>1. /\ r.ok \in BOOLEAN /\ ListOK(r.q) /\ (~r.ok => r.q = i.q)
            /\ r.ok =>
                  /\ r.q.init = i.q.init /\ ToSet(r.q.list) = ToSet(i.q.list) \cup {Mem}
                  /\ r.q.list # <<>>
                  /\ d => r.q.list[1] = Mem
                  /\ ~d /\ i.q.list # <<>> => r.q.list[1] = i.q.list[1]
        BY <2>1, <2>2, InstallMemFacts
      <3>. QED  BY <2>2, <3>1
    <2>. HIDE DEF r
    <2>5. CASE ~r.ok
      BY <2>2, <2>4, <2>5 DEF r
    <2>6. CASE r.ok
      <3>1. LibraryOK(r.q)
        BY <2>2, <2>4, <2>6 DEF LibraryOK
      <3>2. Default(r.q) \in {Mem, Default(q)}
        BY <2>3, <2>4, <2>6, <3>1, DefaultFacts
      <3>3. ToSet(r.q.list) \subseteq ToSet(q.list) \cup {Mem, Memdb}
        BY <2>2, <2>4, <2>6 DEF Calm
      <3>. QED  BY <3>1, <3>2, <3>3, VfsFacts DEF Calm, r
    <2>. QED  BY <2>4, <2>5, <2>6
  <1>. QED  BY <1>1, <1>2, InitializeFacts

\* memvfs::uninstall on an initialized library, and sqlite3_os_end.
LEMMA UninstallMemFacts ==
    ASSUME NEW q, LibraryOK(q), q.init
    PROVE  /\ Calm(q, UninstallMem(q).q)
           /\ q.list[1] = Mem /\ q.list[2] = Memdb /\ Len(q.list) > 1 /\ q.mem = Mem =>
                Default(UninstallMem(q).q) = Memdb
           /\ q.list[1] # Mem => Default(UninstallMem(q).q) = Default(q)
           /\ q.mem = NoVfs => Default(UninstallMem(q).q) = Default(q)
  <1>. DEFINE r == UninstallMem(q)
              l == Unlinked(q.list, q.mem)
  <1>1. /\ q \in LibraryStates /\ q.list \in Seq(Vfss) /\ UniqueNames(q.list)
        /\ q.mem \in {NoVfs, Mem} /\ Memdb \in ToSet(q.list)
        /\ Mem \in ToSet(q.list) => q.mem = Mem
    BY DEF LibraryOK, ListOK, LibraryStates
  <1>2. q.list # <<>>
    BY <1>1, ElementFacts
  <1>3. Default(q) = q.list[1]
    BY <1>2, DefaultFacts
  <1>4. CASE q.mem = NoVfs
    <2>1. r.q = q
      BY <1>4 DEF UninstallMem, Answer
    <2>. QED  BY <1>4, <2>1, VfsFacts DEF Calm
  <1>5. CASE q.mem = Mem
    <2>1. r = Answer(TRUE, [q EXCEPT !.list = l, !.mem = NoVfs])
      BY <1>5, VfsFacts DEF UninstallMem
    <2>2. /\ l \in Seq(Vfss) /\ UniqueNames(l) /\ ToSet(l) = ToSet(q.list) \ {Mem}
          /\ q.list[1] # Mem => l[1] = q.list[1]
          /\ q.list[1] = Mem /\ Len(q.list) > 1 => l[1] = q.list[2]
      BY <1>1, <1>2, <1>5, UnlinkedFacts
    <2>. HIDE DEF l
    <2>3. r.q = [q EXCEPT !.list = l, !.mem = NoVfs]
      BY <2>1 DEF Answer
    <2>. HIDE DEF r
    <2>4. r.q \in LibraryStates /\ r.q.list = l /\ r.q.mem = NoVfs /\ r.q.init = q.init
      BY <1>1, <2>2, <2>3 DEF LibraryStates
    <2>5. Memdb \in ToSet(l) /\ l # <<>>
      BY <1>1, <2>2, VfsFacts, ElementFacts
    <2>6. LibraryOK(r.q)
      BY <2>2, <2>4, <2>5 DEF LibraryOK, ListOK
    <2>7. Default(r.q) = l[1]
      BY <2>4, <2>5, <2>6, DefaultFacts
    <2>. QED  BY <1>3, <1>5, <2>2, <2>4, <2>6, <2>7, VfsFacts DEF Calm, r
  <1>. QED  BY <1>1, <1>4, <1>5

LEMMA MemUninstallIsCalm ==
    ASSUME NEW q, LibraryOK(q)
    PROVE  Calm(q, MemUninstall(q).q)
  <1>. DEFINE i == Initialize(q)
              r == MemUninstall(q)
  <1>1. CASE ~i.ok
    <2>1. r.q = q
      BY <1>1 DEF MemUninstall, Answer
    <2>. QED  BY <2>1 DEF Calm
  <1>2. CASE i.ok
    <2>1. r = UninstallMem(i.q)
      BY <1>2 DEF MemUninstall
    <2>2. /\ LibraryOK(i.q) /\ i.q.init /\ (q.init => i.q = q)
          /\ ToSet(i.q.list) \subseteq ToSet(q.list) \cup {Mem, Memdb}
          /\ ~q.init => Len(i.q.list) > 1 /\ i.q.list[1] = Mem /\ i.q.list[2] = Memdb
      BY <1>2, InitializeFacts
    <2>3. ~q.init => i.q.mem = Mem
      <3>1. i.q.list \in Seq(Vfss) /\ (Mem \in ToSet(i.q.list) => i.q.mem = Mem)
        BY <2>2 DEF LibraryOK, ListOK, LibraryStates
      <3>. QED  BY <2>2, <3>1, ElementFacts
    <2>. HIDE DEF i
    <2>4. /\ Calm(i.q, r.q)
          /\ ~q.init => Default(r.q) = Memdb
      BY <2>1, <2>2, <2>3, UninstallMemFacts
    <2>5. CASE q.init
      BY <2>2, <2>4, <2>5
    <2>6. CASE ~q.init
      BY <2>2, <2>4, <2>6, VfsFacts DEF Calm
    <2>. QED  BY <2>5, <2>6
  <1>. QED  BY <1>1, <1>2

LEMMA ShutdownIsCalm ==
    ASSUME NEW q, LibraryOK(q)
    PROVE  Calm(q, Shutdown(q))
  <1>. DEFINE u == UninstallMem(q).q
              r == Shutdown(q)
  <1>1. CASE ~q.init
    BY <1>1 DEF Shutdown, Calm
  <1>2. CASE q.init
    <2>1. Calm(q, u)
      BY <1>2, UninstallMemFacts
    <2>2. r = [u EXCEPT !.init = FALSE]
      BY <1>2 DEF Shutdown
    <2>3. u \in LibraryStates /\ UniqueNames(u.list) /\ (Mem \in ToSet(u.list) => u.mem = Mem)
      BY <2>1 DEF Calm, LibraryOK, ListOK
    <2>. HIDE DEF u, r
    <2>4. r \in LibraryStates /\ r.list = u.list /\ r.mem = u.mem /\ r.init = FALSE
      BY <2>2, <2>3 DEF LibraryStates
    <2>5. LibraryOK(r)
      BY <2>1, <2>3, <2>4 DEF Calm, LibraryOK, ListOK
    <2>6. Default(r) = Default(u)
      BY <2>4 DEF Default
    <2>. QED  BY <2>1, <2>4, <2>5, <2>6 DEF Calm, r
  <1>. QED  BY <1>1, <1>2

\* A name that sqlite3_vfs_find did not find, or found to be v's own.
LEMMA FoundFacts ==
    ASSUME NEW q, LibraryOK(q), NEW v, Found(q, v.name) \in {NoVfs, v}
    PROVE  /\ Initialize(q).ok => Fits(Initialize(q).q.list, v)
           /\ Initialize(q).ok /\ Found(q, v.name) = NoVfs => v \notin ToSet(q.list)
  <1>. DEFINE i == Initialize(q)
  <1>1. LibraryOK(i.q) /\ ToSet(q.list) \subseteq ToSet(i.q.list)
    BY InitializeFacts
  <1>2. i.ok => Found(q, v.name) = Lookup(i.q, v.name)
    BY DEF Found
  <1>. HIDE DEF i
  <1>3. /\ Lookup(i.q, v.name) = NoVfs => \A u \in ToSet(i.q.list) : u.name # v.name
        /\ Lookup(i.q, v.name) # NoVfs =>
              \A u \in ToSet(i.q.list) : u.name = v.name => u = Lookup(i.q, v.name)
    BY <1>1, LookupFacts, VfsFacts DEF LibraryOK, ListOK, LibraryStates
  <1>. QED  BY <1>1, <1>2, <1>3 DEF Fits, i

\* Registering a VFS whose name is free or its own.
LEMMA RegisterGrows ==
    ASSUME NEW q, LibraryOK(q), NEW v \in Vfss \ {Mem, Memdb}, NEW d \in BOOLEAN,
           Found(q, v.name) \in {NoVfs, v}, Initialize(q).ok /\ ~d => v \notin ToSet(q.list)
    PROVE  /\ Register(q, v, d).ok = Initialize(q).ok
           /\ Grown(q, Register(q, v, d).q, v, d)
           /\ ~Initialize(q).ok => Register(q, v, d).q = q
  <1>. DEFINE i == Initialize(q)
              r == Register(q, v, d)
  <1>1. i.ok => Fits(i.q.list, v)
    BY FoundFacts
  <1>2. /\ r.ok = i.ok /\ LibraryOK(r.q) /\ (~i.ok => r.q = q)
        /\ i.ok =>
              /\ ToSet(r.q.list) = ToSet(i.q.list) \cup {v} /\ r.q.list # <<>>
              /\ d => r.q.list[1] = v
              /\ ~d => r.q.list[1] = i.q.list[1]
    BY <1>1, RegisterFacts
  <1>3. /\ i.ok \in BOOLEAN /\ ToSet(i.q.list) \subseteq ToSet(q.list) \cup {Mem, Memdb}
        /\ Default(i.q) \in {Mem, Default(q)} /\ (i.ok => Default(i.q) = i.q.list[1])
    BY InitializeFacts, InitializeDefault
  <1>4. i.ok => Default(r.q) = r.q.list[1]
    BY <1>2, DefaultFacts
  <1>. HIDE DEF i, r
  <1>5. ASSUME NEW n \in PoolNames, Default(r.q) = PoolVfs(n)
        PROVE  Default(q) = PoolVfs(n) \/ (d /\ v = PoolVfs(n) /\ i.ok)
    <2>1. CASE ~i.ok
      BY <1>2, <1>5, <2>1
    <2>2. CASE i.ok /\ d
      BY <1>2, <1>4, <1>5, <2>2
    <2>3. CASE i.ok /\ ~d
      BY <1>2, <1>3, <1>4, <1>5, <2>3, VfsFacts
    <2>. QED  BY <1>3, <2>1, <2>2, <2>3
  <1>6. ToSet(r.q.list) \subseteq ToSet(q.list) \cup {Mem, Memdb, v}
    BY <1>2, <1>3
  <1>. QED  BY <1>2, <1>5, <1>6 DEF Grown, i, r

-----------------------------------------------------------------------------
(* The inductive invariant *)

PoolRecords ==
    [state : {"Active", "Paused"}, dir : Directories, make_default : BOOLEAN,
     busy : BOOLEAN, held : BOOLEAN]
Calls == {NoCall, Waiting} \cup {Call("opening", o) : o \in Options}

PoolsTyped == pools \in [PoolNames -> {NoPool} \cup PoolRecords]
CallsTyped ==
    /\ call \in [Tasks -> Calls]
    /\ \A t \in Tasks : call[t].pc = "opening" <=> guard = t
    /\ calls \in 0..MaxCalls

\* SQLite can reach only pools that are installed and have their slots.
ListedPools ==
    \A n \in PoolNames : Registered(sq, PoolVfs(n)) => n \in Installed /\ pools[n].state = "Active"

\* Only resume awaits with a pool.
BusyIsPaused == \A n \in Installed : pools[n].busy => pools[n].state = "Paused"

\* What install found before it awaited still holds under the guard.
OpeningIsFree ==
    \A t \in Tasks :
        call[t].pc = "opening" =>
            /\ call[t].options.name \notin Installed
            /\ \A n \in Installed : pools[n].dir # call[t].options.dir

RegistryInv ==
    /\ LibraryOK(sq)
    /\ PoolsTyped /\ CallsTyped
    /\ ListedPools /\ OnePoolPerDirectory /\ BusyIsPaused /\ OpeningIsFree

\* The step promotes no pool that was not asked for.
Asked ==
    \A n \in PoolNames :
        Default(sq') = PoolVfs(n) /\ Default(sq) # PoolVfs(n) =>
            pools'[n].make_default \/ ~Registered(sq', Default(sq))

\* Pools and calls are told apart from none.
LEMMA RecordFacts ==
    /\ NoPool \notin PoolRecords /\ NoPool.state = "none"
    /\ NoCall.pc = "idle" /\ Waiting.pc = "waiting"
    /\ \A o \in Options : /\ Call("opening", o).pc = "opening" /\ Call("opening", o).options = o
                           /\ Call("opening", o) \in Calls
    /\ NoCall \in Calls /\ Waiting \in Calls
    /\ \A c \in Calls : c.pc = "opening" => c.options \in Options
    /\ \A d \in Directories, m \in BOOLEAN :
          /\ Pool(d, m) \in PoolRecords /\ Pool(d, m).dir = d /\ Pool(d, m).state = "Active"
          /\ ~Pool(d, m).busy /\ Pool(d, m).make_default = m
  <1>1. NoPool \notin PoolRecords /\ NoPool.state = "none"
    BY DEF NoPool, PoolRecords
  <1>2. NoCall.pc = "idle" /\ Waiting.pc = "waiting" /\ NoCall \in Calls /\ Waiting \in Calls
    BY DEF NoCall, Waiting, Call, Calls
  <1>3. \A o \in Options : /\ Call("opening", o).pc = "opening" /\ Call("opening", o).options = o
                            /\ Call("opening", o) \in Calls
    BY DEF Call, Calls
  <1>4. \A c \in Calls : c.pc = "opening" => c.options \in Options
    BY <1>2, <1>3 DEF Calls
  <1>5. \A d \in Directories, m \in BOOLEAN :
          /\ Pool(d, m) \in PoolRecords /\ Pool(d, m).dir = d /\ Pool(d, m).state = "Active"
          /\ ~Pool(d, m).busy /\ Pool(d, m).make_default = m
    BY DEF Pool, PoolRecords
  <1>. QED  BY <1>1, <1>2, <1>3, <1>4, <1>5

\* A step that ends or starts no opening keeps the guard with its task.
LEMMA CallFacts ==
    ASSUME CallsTyped, NEW t \in Tasks, NEW c \in Calls, call' = [call EXCEPT ![t] = c]
    PROVE  /\ call' \in [Tasks -> Calls] /\ call'[t] = c
           /\ \A u \in Tasks : u # t => call'[u] = call[u]
  BY DEF CallsTyped

\* The install of t ends: with it, t's guard.
LEMMA EndsFacts ==
    ASSUME RegistryInv, NEW t \in Tasks, Ends(t), calls' = calls,
           \/ guard' = guard /\ guard # t
           \/ Release(t)
    PROVE  /\ CallsTyped'
           /\ \A u \in Tasks : call'[u].pc = "opening" => call'[u] = call[u]
  <1>1. CallsTyped
    BY DEF RegistryInv
  <1>2. /\ call' \in [Tasks -> Calls] /\ call'[t] = NoCall
        /\ \A u \in Tasks : u # t => call'[u] = call[u]
    BY <1>1, CallFacts, RecordFacts DEF Ends
  <1>3. \A u \in Tasks : call'[u].pc = "opening" <=> guard' = u
    BY <1>1, <1>2, RecordFacts, TaskAssumption DEF CallsTyped, Release
  <1>. QED  BY <1>1, <1>2, <1>3, RecordFacts DEF CallsTyped

\* A pool keeps its directory, or none changes.
LEMMA PoolFacts ==
    ASSUME RegistryInv, PoolsTyped', NEW n \in Installed,
           pools'[n] \in PoolRecords, pools'[n].dir = pools[n].dir,
           \A m \in PoolNames : m # n => pools'[m] = pools[m]
    PROVE  /\ Installed' = Installed /\ OnePoolPerDirectory'
           /\ (\A u \in Tasks : call'[u].pc = "opening" => call'[u] = call[u]) => OpeningIsFree'
           /\ (pools'[n].busy => pools'[n].state = "Paused") => BusyIsPaused'
  <1>1. Installed' = Installed /\ n \in PoolNames
    BY RecordFacts DEF Installed
  <1>2. \A m \in Installed : m \in PoolNames /\ pools'[m].dir = pools[m].dir
    BY DEF Installed
  <1>3. OnePoolPerDirectory'
    BY <1>1, <1>2 DEF RegistryInv, OnePoolPerDirectory
  <1>4. (\A u \in Tasks : call'[u].pc = "opening" => call'[u] = call[u]) => OpeningIsFree'
    BY <1>1, <1>2 DEF RegistryInv, OpeningIsFree
  <1>5. (pools'[n].busy => pools'[n].state = "Paused") => BusyIsPaused'
    BY <1>1, <1>2 DEF RegistryInv, BusyIsPaused
  <1>. QED  BY <1>1, <1>3, <1>4, <1>5

\* The step of a call for no pool that leaves the pools alone.
LEMMA CalmStep ==
    ASSUME RegistryInv, Calm(sq, sq'), UNCHANGED pools, CallsTyped',
           \A u \in Tasks : call'[u].pc = "opening" => call'[u] = call[u]
    PROVE  RegistryInv' /\ Asked
  <1>1. Installed' = Installed
    BY DEF Installed
  <1>2. ListedPools'
    BY <1>1, VfsFacts DEF RegistryInv, Calm, ListedPools, Registered
  <1>3. Asked
    BY DEF Calm, Asked, Registered
  <1>. QED  BY <1>1, <1>2, <1>3
            DEF RegistryInv, Calm, PoolsTyped, OnePoolPerDirectory, BusyIsPaused, OpeningIsFree

-----------------------------------------------------------------------------
(* One lemma per action *)

LEMMA InstallCallStep ==
    ASSUME RegistryInv, NEW t \in Tasks, InstallCall(t)
    PROVE  RegistryInv' /\ Asked
  <1>1. call[t] = NoCall /\ call' = [call EXCEPT ![t] = Waiting] /\ UNCHANGED <<sq, pools, guard>>
    BY DEF InstallCall
  <1>2. CallsTyped /\ LibraryOK(sq)
    BY DEF RegistryInv
  <1>3. /\ call' \in [Tasks -> Calls] /\ call'[t] = Waiting
        /\ \A u \in Tasks : u # t => call'[u] = call[u]
    BY <1>1, <1>2, CallFacts, RecordFacts
  <1>4. calls' \in 0..MaxCalls
    BY <1>2, CallAssumption DEF InstallCall, CallsTyped
  <1>5. CallsTyped'
    BY <1>1, <1>2, <1>3, <1>4, RecordFacts DEF CallsTyped
  <1>6. Calm(sq, sq')
    BY <1>1, <1>2 DEF Calm
  <1>. QED  BY <1>1, <1>3, <1>5, <1>6, RecordFacts, CalmStep

LEMMA InstallRefusedStep ==
    ASSUME RegistryInv, NEW t \in Tasks, NEW o \in Options, InstallRefused(t, o)
    PROVE  RegistryInv' /\ Asked
  <1>1. call[t] = Waiting /\ guard = NoTask /\ Ends(t) /\ UNCHANGED <<pools, guard, calls>>
    BY DEF InstallRefused, Enter
  <1>2. Calm(sq, sq')
    BY InitializeIsCalm DEF InstallRefused, RegistryInv
  <1>. QED  BY <1>1, <1>2, TaskAssumption, EndsFacts, CalmStep

LEMMA InstallStopsStep ==
    ASSUME RegistryInv, NEW t \in Tasks, InstallStops(t)
    PROVE  RegistryInv' /\ Asked
  <1>1. Calm(sq, sq')
    BY DEF InstallStops, RegistryInv, Calm
  <1>. QED  BY <1>1, EndsFacts, CalmStep DEF InstallStops

\* OpfsSAHPool::new begins with what install found.
LEMMA InstallOpensStep ==
    ASSUME RegistryInv, NEW t \in Tasks, NEW o \in Options, InstallOpens(t, o)
    PROVE  RegistryInv' /\ Asked
  <1>1. /\ call[t] = Waiting /\ guard = NoTask /\ guard' = t /\ sq' = Initialize(sq).q
        /\ call' = [call EXCEPT ![t] = Call("opening", o)] /\ UNCHANGED <<pools, calls>>
        /\ o.name \notin Installed /\ \A n \in Installed : pools[n].dir # o.dir
    BY DEF InstallOpens, Enter, Installable, DirectoryFree
  <1>2. CallsTyped /\ LibraryOK(sq)
    BY DEF RegistryInv
  <1>3. LET c == Call("opening", o) IN c \in Calls /\ c.pc = "opening" /\ c.options = o
    BY RecordFacts
  <1>4. /\ call' \in [Tasks -> Calls] /\ call'[t].pc = "opening" /\ call'[t].options = o
        /\ \A u \in Tasks : u # t => call'[u] = call[u]
    BY <1>1, <1>2, <1>3, CallFacts
  <1>5. \A u \in Tasks : call[u].pc # "opening"
    BY <1>1, <1>2, TaskAssumption DEF CallsTyped
  <1>6. CallsTyped'
    BY <1>1, <1>2, <1>4, <1>5 DEF CallsTyped
  <1>7. Calm(sq, sq')
    BY <1>1, <1>2, InitializeIsCalm
  <1>8. Installed' = Installed
    BY <1>1 DEF Installed
  <1>9. OpeningIsFree'
    BY <1>1, <1>4, <1>5, <1>8 DEF OpeningIsFree
  <1>10. ListedPools'
    BY <1>1, <1>7, <1>8, VfsFacts DEF RegistryInv, Calm, ListedPools, Registered
  <1>11. Asked
    BY <1>7 DEF Calm, Asked, Registered
  <1>. QED  BY <1>1, <1>6, <1>7, <1>8, <1>9, <1>10, <1>11
            DEF RegistryInv, Calm, PoolsTyped, OnePoolPerDirectory, BusyIsPaused

LEMMA EnvironmentStep ==
    ASSUME RegistryInv, Environment
    PROVE  RegistryInv' /\ Asked
  <1>1. UNCHANGED <<pools, call, guard, calls>> /\ LibraryOK(sq)
    BY DEF Environment, RegistryInv
  <1>2. CallsTyped'
    BY <1>1 DEF RegistryInv, CallsTyped
  <1>3. sq.mem \in {NoVfs, Mem}
    BY <1>1 DEF LibraryOK, ListOK, LibraryStates
  <1>4. CASE OtherCall
    <2>1. Calm(sq, sq')
      BY <1>1, <1>4, MemInstallIsCalm, MemUninstallIsCalm, InitializeIsCalm, ShutdownIsCalm
         DEF OtherCall
    <2>. QED  BY <1>1, <1>2, <2>1, CalmStep
  <1>5. CASE RawUnregister
    <2>1. PICK v \in Vfss \ {Memdb} : sq' = Unregister(sq, v).q
      BY <1>3, <1>5, VfsFacts DEF RawUnregister, Installed
    <2>2. Calm(sq, sq')
      BY <1>1, <2>1, UnregisterIsCalm
    <2>. QED  BY <1>1, <1>2, <2>2, CalmStep
  <1>6. CASE ForeignCode
    <2>1. PICK n \in ForeignNames :
            \/ \E default \in BOOLEAN :
                  /\ Found(sq, n) = NoVfs
                  /\ sq' = Register(sq, Foreign(n), default).q
            \/ sq' = Unregister(sq, Foreign(n)).q
      BY <1>6 DEF ForeignCode
    <2>2. PICK v \in Vfss \ {Mem, Memdb} :
            v = Foreign(n) /\ v.name = n /\ \A m \in PoolNames : v # PoolVfs(m)
      BY VfsFacts
    <2>3. CASE sq' = Unregister(sq, v).q
      <3>1. Calm(sq, sq')
        BY <1>1, <2>3, UnregisterIsCalm
      <3>. QED  BY <1>1, <1>2, <3>1, CalmStep
    <2>4. ASSUME NEW d \in BOOLEAN, Found(sq, n) = NoVfs, sq' = Register(sq, v, d).q
          PROVE  RegistryInv' /\ Asked
      <3>1. Found(sq, v.name) \in {NoVfs, v} /\ (Initialize(sq).ok => v \notin ToSet(sq.list))
        BY <1>1, <2>2, <2>4, FoundFacts
      <3>2. Grown(sq, sq', v, d)
        BY <1>1, <2>4, <3>1, RegisterGrows
      <3>3. Installed' = Installed
        BY <1>1 DEF Installed
      <3>4. ListedPools'
        BY <1>1, <2>2, <3>2, <3>3, VfsFacts DEF RegistryInv, Grown, ListedPools, Registered
      <3>5. Asked
        BY <2>2, <3>2 DEF Grown, Asked
      <3>. QED  BY <1>1, <1>2, <3>2, <3>3, <3>4, <3>5
                DEF RegistryInv, Grown, PoolsTyped, OnePoolPerDirectory, BusyIsPaused, OpeningIsFree
    <2>. QED  BY <2>1, <2>2, <2>3, <2>4
  <1>. QED  BY <1>4, <1>5, <1>6 DEF Environment

\* install finds a pool of its name: it may promote it, when it is active.
LEMMA InstallReusesStep ==
    ASSUME RegistryInv, NEW t \in Tasks, NEW o \in Options, InstallReuses(t, o)
    PROVE  RegistryInv' /\ Asked
  <1>. DEFINE n == o.name
              v == PoolVfs(n)
              r == Promote(o)
  <1>1. /\ guard = NoTask /\ Ends(t) /\ UNCHANGED <<guard, calls>> /\ sq' = r.q
        /\ n \in Installed /\ ~pools[n].busy /\ Found(sq, n) \in {NoVfs, v}
        /\ pools' = [pools EXCEPT ![n].make_default = @ \/ (o.default /\ r.ok),
                                  ![n].held = @ \/ (o.default /\ pools[n].state = "Paused")]
    BY DEF InstallReuses, Enter, Reusable, NotBusy, NameFree
  <1>2. /\ LibraryOK(sq) /\ PoolsTyped /\ n \in PoolNames /\ o.default \in BOOLEAN
        /\ pools[n] \in PoolRecords
    BY <1>1 DEF RegistryInv, PoolsTyped, Options, Installed
  <1>3. CallsTyped' /\ \A u \in Tasks : call'[u].pc = "opening" => call'[u] = call[u]
    BY <1>1, TaskAssumption, EndsFacts
  <1>4. /\ v \in Vfss \ {Mem, Memdb} /\ v.name = n
        /\ \A m \in PoolNames : PoolVfs(m) = v => m = n
    BY <1>2, VfsFacts
  <1>5. \/ Calm(sq, sq')
        \/ pools[n].state = "Active" /\ o.default /\ Grown(sq, sq', v, TRUE) /\ r.ok = Initialize(sq).ok
    <2>1. CASE o.default /\ pools[n].state = "Active"
      <3>1. r = Register(sq, v, TRUE)
        BY <2>1 DEF Promote
      <3>2. PICK d \in BOOLEAN : d = TRUE
        OBVIOUS
      <3>3. Grown(sq, Register(sq, v, d).q, v, d) /\ Register(sq, v, d).ok = Initialize(sq).ok
        BY <1>1, <1>2, <1>4, <3>2, RegisterGrows
      <3>. QED  BY <1>1, <2>1, <3>1, <3>2, <3>3
    <2>2. CASE ~(o.default /\ pools[n].state = "Active")
      <3>1. r = Answer(TRUE, Initialize(sq).q)
        BY <2>2 DEF Promote
      <3>2. sq' = Initialize(sq).q
        BY <1>1, <3>1 DEF Answer
      <3>. QED  BY <1>2, <3>2, InitializeIsCalm
    <2>. QED  BY <2>1, <2>2
  <1>. HIDE DEF r, v, n
  <1>6. /\ \A m \in PoolNames : m # n => pools'[m] = pools[m]
        /\ pools'[n].dir = pools[n].dir /\ pools'[n].state = pools[n].state
        /\ pools'[n].busy = pools[n].busy
        /\ o.default /\ r.ok => pools'[n].make_default
        /\ pools'[n] \in PoolRecords /\ PoolsTyped'
    <2>1. PICK p \in PoolRecords :
            /\ pools' = [pools EXCEPT ![n] = p]
            /\ p.dir = pools[n].dir /\ p.state = pools[n].state /\ p.busy = pools[n].busy
            /\ o.default /\ r.ok => p.make_default
      <3>. DEFINE p == [pools[n] EXCEPT !.make_default = @ \/ (o.default /\ r.ok),
                                        !.held = @ \/ (o.default /\ pools[n].state = "Paused")]
      <3>1. pools' = [pools EXCEPT ![n] = p]
        BY <1>1, <1>2 DEF PoolsTyped
      <3>2. p \in PoolRecords
        BY <1>2 DEF PoolRecords
      <3>3. p.dir = pools[n].dir /\ p.state = pools[n].state /\ p.busy = pools[n].busy
        BY <1>2 DEF PoolRecords
      <3>4. o.default /\ r.ok => p.make_default
        BY <1>2 DEF PoolRecords
      <3>. QED  BY <3>1, <3>2, <3>3, <3>4
    <2>. QED  BY <1>2, <2>1 DEF PoolsTyped
  <1>7. Installed' = Installed /\ OnePoolPerDirectory' /\ OpeningIsFree' /\ BusyIsPaused'
    BY <1>1, <1>3, <1>6, PoolFacts
  <1>8. ListedPools'
    <2>1. SUFFICES ASSUME NEW m \in PoolNames, PoolVfs(m) \in ToSet(sq'.list)
                   PROVE  m \in Installed /\ pools'[m].state = "Active"
      BY <1>7 DEF ListedPools, Registered
    <2>2. PoolVfs(m) \in ToSet(sq.list) \/ (m = n /\ pools[n].state = "Active")
      BY <1>4, <1>5, <2>1, VfsFacts DEF Calm, Grown
    <2>3. m \in Installed /\ pools[m].state = "Active"
      BY <1>1, <2>2 DEF RegistryInv, ListedPools, Registered
    <2>. QED  BY <1>6, <2>3
  <1>9. Asked
    BY <1>4, <1>5, <1>6 DEF Calm, Grown, Asked, Registered
  <1>. QED  BY <1>3, <1>5, <1>6, <1>7, <1>8, <1>9 DEF RegistryInv, Calm, Grown

\* The pool is there: it is registered under its name, or given up.
LEMMA InstallRegistersStep ==
    ASSUME RegistryInv, NEW t \in Tasks, InstallRegisters(t)
    PROVE  RegistryInv' /\ Asked
  <1>. DEFINE o == call[t].options
              n == o.name
              v == PoolVfs(n)
              r == Registration(o)
  <1>1. /\ call[t].pc = "opening" /\ sq' = r.q /\ Release(t) /\ Ends(t) /\ calls' = calls
        /\ pools' = IF r.ok THEN [pools EXCEPT ![n] = Pool(o.dir, o.default)] ELSE pools
    BY DEF InstallRegisters
  <1>2. LibraryOK(sq) /\ PoolsTyped /\ CallsTyped
    BY DEF RegistryInv
  <1>3. o \in Options /\ n \in PoolNames /\ o.dir \in Directories /\ o.default \in BOOLEAN
    BY <1>1, <1>2, RecordFacts DEF CallsTyped, Options
  <1>4. CallsTyped' /\ \A u \in Tasks : call'[u].pc = "opening" => call'[u] = call[u]
    BY <1>1, EndsFacts
  <1>5. \A u \in Tasks : call'[u].pc # "opening"
    <2>1. guard = t /\ guard' = NoTask
      BY <1>1, <1>2 DEF CallsTyped, Release
    <2>. QED  BY <1>4, <2>1, TaskAssumption DEF CallsTyped
  <1>6. n \notin Installed /\ \A m \in Installed : pools[m].dir # o.dir
    BY <1>1 DEF RegistryInv, OpeningIsFree
  <1>7. /\ v \in Vfss \ {Mem, Memdb} /\ v.name = n
        /\ \A m \in PoolNames : PoolVfs(m) = v => m = n
    BY <1>3, VfsFacts
  <1>. HIDE DEF v, n, o
  <1>8. CASE ~r.ok
    <2>1. Calm(sq, sq')
      <3>1. CASE Found(sq, n) # NoVfs
        <4>1. r = Answer(FALSE, Initialize(sq).q)
          BY <3>1 DEF Registration, n
        <4>. QED  BY <1>1, <1>2, <4>1, InitializeIsCalm DEF Answer
      <3>2. CASE Found(sq, n) = NoVfs
        <4>1. r = Register(sq, v, o.default)
          BY <3>2 DEF Registration, n, v
        <4>2. Initialize(sq).ok => v \notin ToSet(sq.list)
          BY <1>2, <1>7, <3>2, FoundFacts
        <4>3. r.q = sq
          BY <1>2, <1>3, <1>7, <1>8, <3>2, <4>1, <4>2, RegisterGrows
        <4>. QED  BY <1>1, <1>2, <4>3 DEF Calm
      <3>. QED  BY <3>1, <3>2
    <2>2. UNCHANGED pools
      BY <1>1, <1>8
    <2>. QED  BY <1>4, <2>1, <2>2, CalmStep
  <1>9. CASE r.ok
    <2>1. Found(sq, n) = NoVfs /\ r = Register(sq, v, o.default)
      BY <1>9 DEF Registration, Answer, n, v
    <2>2. Initialize(sq).ok => v \notin ToSet(sq.list)
      BY <1>2, <1>7, <2>1, FoundFacts
    <2>3. Grown(sq, sq', v, o.default) /\ r.ok = Initialize(sq).ok
      BY <1>1, <1>2, <1>3, <1>7, <2>1, <2>2, RegisterGrows
    <2>. HIDE DEF r
    <2>4. PICK p \in PoolRecords :
            /\ pools' = [pools EXCEPT ![n] = p] /\ p.dir = o.dir /\ p.state = "Active"
            /\ ~p.busy /\ p.make_default = o.default
      <3>1. LET p == Pool(o.dir, o.default)
            IN  /\ p \in PoolRecords /\ p.dir = o.dir /\ p.state = "Active" /\ ~p.busy
                /\ p.make_default = o.default
        BY <1>3, RecordFacts
      <3>. QED  BY <1>1, <1>9, <3>1
    <2>5. /\ PoolsTyped' /\ pools'[n] = p
          /\ \A m \in PoolNames : m # n => pools'[m] = pools[m]
      BY <1>2, <1>3, <2>4 DEF PoolsTyped
    <2>6. Installed' = Installed \cup {n}
      BY <1>3, <2>5, RecordFacts DEF Installed
    <2>7. ListedPools'
      BY <1>7, <2>3, <2>4, <2>5, <2>6, VfsFacts DEF RegistryInv, Grown, ListedPools, Registered, Installed
    <2>8. OnePoolPerDirectory'
      BY <1>6, <2>4, <2>5, <2>6 DEF RegistryInv, OnePoolPerDirectory, Installed
    <2>9. BusyIsPaused' /\ OpeningIsFree'
      BY <1>5, <2>4, <2>5, <2>6 DEF RegistryInv, BusyIsPaused, OpeningIsFree, Installed
    <2>10. Asked
      BY <1>7, <2>3, <2>4, <2>5 DEF Grown, Asked
    <2>. QED  BY <1>4, <2>3, <2>5, <2>7, <2>8, <2>9, <2>10 DEF RegistryInv, Grown
  <1>. QED  BY <1>8, <1>9

\* pause takes the VFS out of the list before the pool loses its slots.
LEMMA PauseStep ==
    ASSUME RegistryInv, NEW n \in PoolNames, Pause(n)
    PROVE  RegistryInv' /\ Asked
  <1>. DEFINE v == PoolVfs(n)
              r == Unregister(sq, v)
  <1>1. /\ n \in Installed /\ ~pools[n].busy /\ sq' = r.q /\ UNCHANGED <<call, guard, calls>>
        /\ pools' = IF r.ok
                    THEN [pools EXCEPT ![n].state = "Paused",
                                       ![n].held = Default(Initialize(sq).q) = v]
                    ELSE pools
    BY DEF Pause, NotBusy
  <1>2. LibraryOK(sq) /\ PoolsTyped /\ pools[n] \in PoolRecords
    BY <1>1 DEF RegistryInv, PoolsTyped, Installed
  <1>3. CallsTyped'
    BY <1>1 DEF RegistryInv, CallsTyped
  <1>4. v \in Vfss \ {Memdb} /\ \A m \in PoolNames : PoolVfs(m) = v => m = n
    BY VfsFacts
  <1>5. Calm(sq, sq')
    BY <1>1, <1>2, <1>4, UnregisterIsCalm
  <1>6. r.ok => ~Registered(sq', v)
    <2>1. r.ok => ToSet(r.q.list) = ToSet(Initialize(sq).q.list) \ {v}
      BY <1>2, <1>4, UnregisterFacts
    <2>. QED  BY <1>1, <2>1 DEF Registered
  <1>. HIDE DEF v, r
  <1>7. CASE ~r.ok
    BY <1>1, <1>3, <1>5, <1>7, CalmStep
  <1>8. CASE r.ok
    <2>1. PICK p \in PoolRecords :
            pools' = [pools EXCEPT ![n] = p] /\ p.dir = pools[n].dir /\ p.busy = pools[n].busy
      <3>. DEFINE p == [pools[n] EXCEPT !.state = "Paused", !.held = Default(Initialize(sq).q) = v]
      <3>1. pools' = [pools EXCEPT ![n] = p]
        BY <1>1, <1>2, <1>8 DEF PoolsTyped
      <3>2. p \in PoolRecords /\ p.dir = pools[n].dir /\ p.busy = pools[n].busy
        BY <1>2 DEF PoolRecords
      <3>. QED  BY <3>1, <3>2
    <2>2. /\ PoolsTyped' /\ pools'[n] = p
          /\ \A m \in PoolNames : m # n => pools'[m] = pools[m]
      BY <1>2, <2>1 DEF PoolsTyped
    <2>3. Installed' = Installed /\ OnePoolPerDirectory' /\ OpeningIsFree' /\ BusyIsPaused'
      BY <1>1, <2>1, <2>2, PoolFacts
    <2>4. ListedPools'
      BY <1>4, <1>5, <1>6, <1>8, <2>2, <2>3, VfsFacts
         DEF RegistryInv, Calm, ListedPools, Registered, v
    <2>5. Asked
      BY <1>5 DEF Calm, Asked, Registered
    <2>. QED  BY <1>3, <1>5, <2>2, <2>3, <2>4, <2>5 DEF RegistryInv, Calm
  <1>. QED  BY <1>7, <1>8

\* resume looks the name up and begins, or ends at once.
LEMMA ResumeBeginStep ==
    ASSUME RegistryInv, NEW n \in PoolNames, ResumeBegin(n)
    PROVE  RegistryInv' /\ Asked
  <1>1. /\ n \in Installed /\ pools[n].state = "Paused" /\ sq' = Initialize(sq).q
        /\ pools' = [pools EXCEPT ![n].busy = NameFree(n)] /\ UNCHANGED <<call, guard, calls>>
    BY DEF ResumeBegin, NotBusy
  <1>2. LibraryOK(sq) /\ PoolsTyped /\ pools[n] \in PoolRecords
    BY <1>1 DEF RegistryInv, PoolsTyped, Installed
  <1>3. CallsTyped'
    BY <1>1 DEF RegistryInv, CallsTyped
  <1>4. Calm(sq, sq')
    BY <1>1, <1>2, InitializeIsCalm
  <1>5. NameFree(n) \in BOOLEAN
    BY DEF NameFree
  <1>6. /\ PoolsTyped' /\ pools'[n] \in PoolRecords /\ pools'[n].dir = pools[n].dir
        /\ pools'[n].state = pools[n].state
        /\ \A m \in PoolNames : m # n => pools'[m] = pools[m]
    BY <1>1, <1>2, <1>5 DEF PoolsTyped, PoolRecords
  <1>7. Installed' = Installed /\ OnePoolPerDirectory' /\ OpeningIsFree' /\ BusyIsPaused'
    BY <1>1, <1>6, PoolFacts
  <1>8. ListedPools'
    BY <1>4, <1>6, <1>7, VfsFacts DEF RegistryInv, Calm, ListedPools, Registered
  <1>9. Asked
    BY <1>4 DEF Calm, Asked, Registered
  <1>. QED  BY <1>3, <1>4, <1>6, <1>7, <1>8, <1>9 DEF RegistryInv, Calm

\* resume has the slots again, and the name is still free.
LEMMA ResumeRegistersStep ==
    ASSUME RegistryInv, NEW n \in PoolNames, ResumeRegisters(n)
    PROVE  RegistryInv' /\ Asked
  <1>. DEFINE v == PoolVfs(n)
              d == pools[n].make_default
              r == Register(sq, v, d)
  <1>1. /\ n \in Installed /\ pools[n].busy /\ Found(sq, n) \in {NoVfs, v} /\ sq' = r.q
        /\ pools' = [pools EXCEPT ![n].busy = FALSE, ![n].state = IF r.ok THEN "Active" ELSE @,
                                  ![n].held = @ /\ ~r.ok]
        /\ UNCHANGED <<call, guard, calls>>
    BY DEF ResumeRegisters, NameFree
  <1>2. LibraryOK(sq) /\ PoolsTyped /\ pools[n] \in PoolRecords /\ d \in BOOLEAN
    BY <1>1 DEF RegistryInv, PoolsTyped, PoolRecords, Installed
  <1>3. CallsTyped'
    BY <1>1 DEF RegistryInv, CallsTyped
  <1>4. /\ v \in Vfss \ {Mem, Memdb} /\ v.name = n
        /\ \A m \in PoolNames : PoolVfs(m) = v => m = n
    BY VfsFacts
  <1>5. v \notin ToSet(sq.list)
    BY <1>1 DEF RegistryInv, BusyIsPaused, ListedPools, Registered
  <1>6. /\ r.ok = Initialize(sq).ok /\ Grown(sq, sq', v, d) /\ (~r.ok => sq' = sq)
        /\ r.ok \in BOOLEAN
    BY <1>1, <1>2, <1>4, <1>5, RegisterGrows, InitializeFacts
  <1>. HIDE DEF v, r
  <1>7. PICK p \in PoolRecords :
            /\ pools' = [pools EXCEPT ![n] = p] /\ p.dir = pools[n].dir /\ ~p.busy
            /\ p.make_default = d /\ (r.ok => p.state = "Active")
    <2>. DEFINE p == [pools[n] EXCEPT !.busy = FALSE, !.state = IF r.ok THEN "Active" ELSE @,
                                      !.held = @ /\ ~r.ok]
    <2>1. pools' = [pools EXCEPT ![n] = p]
      BY <1>1, <1>2 DEF PoolsTyped
    <2>2. p \in PoolRecords /\ p.dir = pools[n].dir /\ ~p.busy /\ p.make_default = d
      BY <1>2 DEF PoolRecords
    <2>3. r.ok => p.state = "Active"
      BY <1>2 DEF PoolRecords
    <2>. QED  BY <2>1, <2>2, <2>3
  <1>8. /\ PoolsTyped' /\ pools'[n] = p
        /\ \A m \in PoolNames : m # n => pools'[m] = pools[m]
    BY <1>2, <1>7 DEF PoolsTyped
  <1>9. Installed' = Installed /\ OnePoolPerDirectory' /\ OpeningIsFree' /\ BusyIsPaused'
    BY <1>1, <1>7, <1>8, PoolFacts
  <1>10. ListedPools'
    <2>1. SUFFICES ASSUME NEW m \in PoolNames, PoolVfs(m) \in ToSet(sq'.list)
                   PROVE  m \in Installed /\ pools'[m].state = "Active"
      BY <1>9 DEF ListedPools, Registered
    <2>2. CASE m = n
      BY <1>1, <1>5, <1>6, <1>7, <1>8, <2>1, <2>2 DEF v
    <2>3. CASE m # n
      <3>1. PoolVfs(m) \in ToSet(sq.list)
        BY <1>4, <1>6, <2>1, <2>3, VfsFacts DEF Grown
      <3>. QED  BY <1>8, <2>3, <3>1 DEF RegistryInv, ListedPools, Registered
    <2>. QED  BY <2>2, <2>3
  <1>11. Asked
    BY <1>4, <1>6, <1>7, <1>8 DEF Grown, Asked
  <1>. QED  BY <1>3, <1>6, <1>8, <1>9, <1>10, <1>11 DEF RegistryInv, Grown

LEMMA ResumeStopsStep ==
    ASSUME RegistryInv, NEW n \in PoolNames, ResumeStops(n)
    PROVE  RegistryInv' /\ Asked
  <1>1. /\ n \in Installed /\ sq' \in {sq, Initialize(sq).q}
        /\ pools' = [pools EXCEPT ![n].busy = FALSE] /\ UNCHANGED <<call, guard, calls>>
    BY DEF ResumeStops
  <1>2. LibraryOK(sq) /\ PoolsTyped /\ pools[n] \in PoolRecords
    BY <1>1 DEF RegistryInv, PoolsTyped, Installed
  <1>3. CallsTyped'
    BY <1>1 DEF RegistryInv, CallsTyped
  <1>4. Calm(sq, sq')
    <2>1. Calm(sq, sq)
      BY <1>2 DEF Calm
    <2>. QED  BY <1>1, <1>2, <2>1, InitializeIsCalm
  <1>6. /\ PoolsTyped' /\ pools'[n] \in PoolRecords /\ pools'[n].dir = pools[n].dir
        /\ pools'[n].state = pools[n].state /\ ~pools'[n].busy
        /\ \A m \in PoolNames : m # n => pools'[m] = pools[m]
    BY <1>1, <1>2 DEF PoolsTyped, PoolRecords
  <1>7. Installed' = Installed /\ OnePoolPerDirectory' /\ OpeningIsFree' /\ BusyIsPaused'
    BY <1>1, <1>6, PoolFacts
  <1>8. ListedPools'
    BY <1>4, <1>6, <1>7, VfsFacts DEF RegistryInv, Calm, ListedPools, Registered
  <1>9. Asked
    BY <1>4 DEF Calm, Asked, Registered
  <1>. QED  BY <1>3, <1>4, <1>6, <1>7, <1>8, <1>9 DEF RegistryInv, Calm

\* uninstall frees the pool once SQLite has let go of it.
LEMMA UninstallStep ==
    ASSUME RegistryInv, NEW n \in PoolNames, Uninstall(n)
    PROVE  RegistryInv' /\ Asked
  <1>. DEFINE v == PoolVfs(n)
              r == Unregister(sq, v)
  <1>1. /\ n \in Installed /\ sq' = r.q /\ UNCHANGED <<call, guard, calls>>
        /\ pools' = IF r.ok THEN [pools EXCEPT ![n] = NoPool] ELSE pools
    BY DEF Uninstall, NotBusy
  <1>2. LibraryOK(sq) /\ PoolsTyped
    BY DEF RegistryInv
  <1>3. CallsTyped'
    BY <1>1 DEF RegistryInv, CallsTyped
  <1>4. v \in Vfss \ {Memdb} /\ \A m \in PoolNames : PoolVfs(m) = v => m = n
    BY VfsFacts
  <1>5. Calm(sq, sq')
    BY <1>1, <1>2, <1>4, UnregisterIsCalm
  <1>6. r.ok => ~Registered(sq', v)
    <2>1. r.ok => ToSet(r.q.list) = ToSet(Initialize(sq).q.list) \ {v}
      BY <1>2, <1>4, UnregisterFacts
    <2>. QED  BY <1>1, <2>1 DEF Registered
  <1>. HIDE DEF v, r
  <1>7. CASE ~r.ok
    BY <1>1, <1>3, <1>5, <1>7, CalmStep
  <1>8. CASE r.ok
    <2>1. /\ PoolsTyped' /\ pools'[n] = NoPool
          /\ \A m \in PoolNames : m # n => pools'[m] = pools[m]
      BY <1>1, <1>2, <1>8 DEF PoolsTyped
    <2>2. Installed' = Installed \ {n}
      BY <2>1 DEF Installed
    <2>3. ListedPools'
      BY <1>4, <1>5, <1>6, <1>8, <2>1, <2>2, VfsFacts
         DEF RegistryInv, Calm, ListedPools, Registered, v
    <2>4. OnePoolPerDirectory' /\ BusyIsPaused'
      BY <2>1, <2>2 DEF RegistryInv, OnePoolPerDirectory, BusyIsPaused, Installed
    <2>5. OpeningIsFree'
      BY <1>1, <2>1, <2>2 DEF RegistryInv, OpeningIsFree, Installed
    <2>6. Asked
      BY <1>5 DEF Calm, Asked, Registered
    <2>. QED  BY <1>3, <1>5, <2>1, <2>3, <2>4, <2>5, <2>6 DEF RegistryInv, Calm
  <1>. QED  BY <1>7, <1>8

-----------------------------------------------------------------------------
(* The theorems *)

LEMMA InitialRegistry == Init => RegistryInv
  <1>. SUFFICES ASSUME Init PROVE RegistryInv
    OBVIOUS
  <1>1. LibraryOK(sq)
    <2>1. <<>> \in Seq(Vfss) /\ ToSet(<<>>) = {} /\ UniqueNames(<<>>)
      BY EmptySeq DEF ToSet, UniqueNames
    <2>. QED  BY <2>1 DEF Init, Library, LibraryOK, ListOK, LibraryStates
  <1>2. PoolsTyped /\ Installed = {}
    BY DEF Init, PoolsTyped, Installed
  <1>3. CallsTyped /\ \A t \in Tasks : call[t].pc # "opening"
    BY RecordFacts, TaskAssumption, CallAssumption DEF Init, CallsTyped
  <1>4. ListedPools
    <2>1. sq.list = <<>> /\ sq.list \in Seq(Vfss)
      BY <1>1 DEF Init, Library, LibraryOK, ListOK, LibraryStates
    <2>. QED  BY <2>1, ElementFacts DEF ListedPools, Registered
  <1>. QED  BY <1>1, <1>2, <1>3, <1>4
            DEF RegistryInv, OnePoolPerDirectory, BusyIsPaused, OpeningIsFree

LEMMA RegistryInvStep ==
    ASSUME RegistryInv, [Next]_vars
    PROVE  RegistryInv' /\ (Asked \/ UNCHANGED vars)
  <1>1. ASSUME NEW t \in Tasks, InstallCall(t) \/ InstallRegisters(t) \/ InstallStops(t)
        PROVE  RegistryInv' /\ Asked
    BY <1>1, InstallCallStep, InstallRegistersStep, InstallStopsStep
  <1>2. ASSUME NEW t \in Tasks, NEW o \in Options,
               InstallReuses(t, o) \/ InstallRefused(t, o) \/ InstallOpens(t, o)
        PROVE  RegistryInv' /\ Asked
    BY <1>2, InstallReusesStep, InstallRefusedStep, InstallOpensStep
  <1>3. ASSUME NEW n \in PoolNames,
               Pause(n) \/ ResumeBegin(n) \/ ResumeRegisters(n) \/ ResumeStops(n) \/ Uninstall(n)
        PROVE  RegistryInv' /\ Asked
    BY <1>3, PauseStep, ResumeBeginStep, ResumeRegistersStep, ResumeStopsStep, UninstallStep
  <1>4. CASE Environment
    BY <1>4, EnvironmentStep
  <1>5. CASE UNCHANGED vars
    BY <1>5 DEF vars, RegistryInv, PoolsTyped, CallsTyped, ListedPools, OnePoolPerDirectory,
       BusyIsPaused, OpeningIsFree, Installed
  <1>. QED  BY <1>1, <1>2, <1>3, <1>4, <1>5 DEF Next

\* The inductive invariant: SQLite's list, the installed pools and the running
\* installs agree in every state.
THEOREM RegistryInvariant == Spec => []RegistryInv
  <1>1. RegistryInv /\ [Next]_vars => RegistryInv'
    BY RegistryInvStep
  <1>. QED  BY <1>1, InitialRegistry, PTL DEF Spec

\* Every variable keeps its type, and the guard is with the task that opens.
THEOREM RegistryTypeCorrect == Spec => []TypeOK
  <1>1. RegistryInv => TypeOK
    BY DEF RegistryInv, TypeOK, LibraryOK, ListOK, LibraryStates, PoolsTyped, PoolRecords,
       CallsTyped, Calls
  <1>. QED  BY <1>1, RegistryInvariant, PTL

\* SQLite's list never holds a VFS whose memory was freed, whatever fails.
THEOREM ListIsLive == Spec => []NoFreedVfsInList
  <1>1. RegistryInv => NoFreedVfsInList
    <2>1. SUFFICES ASSUME RegistryInv, NEW v \in ToSet(sq.list)
                   PROVE  v \in Live
      BY DEF NoFreedVfsInList
    <2>2. v \in Vfss /\ (v = Mem => sq.mem = Mem)
      BY <2>1, ElementFacts DEF RegistryInv, LibraryOK, ListOK, LibraryStates
    <2>3. ASSUME NEW n \in PoolNames, v = PoolVfs(n)
          PROVE  n \in Installed
      BY <2>1, <2>3 DEF RegistryInv, ListedPools, Registered
    <2>. QED  BY <2>2, <2>3 DEF Vfss, Live
  <1>. QED  BY <1>1, RegistryInvariant, PTL

\* No registered VFS is shadowed by another of its name.
THEOREM NoVfsIsShadowed == Spec => []NamesAreUnique
  <1>1. RegistryInv => NamesAreUnique
    BY DEF RegistryInv, LibraryOK, ListOK, UniqueNames, NamesAreUnique
  <1>. QED  BY <1>1, RegistryInvariant, PTL

\* No directory gets a second pool, also while its own is paused.
THEOREM DirectoriesHaveOneOwner == Spec => []OnePoolPerDirectory
  <1>1. RegistryInv => OnePoolPerDirectory
    BY DEF RegistryInv
  <1>. QED  BY <1>1, RegistryInvariant, PTL

\* SQLite reaches a pool only while the pool has its slots.
THEOREM PausedPoolsAreUnreachable == Spec => []ListedPoolsAreActive
  <1>1. RegistryInv => ListedPoolsAreActive
    BY DEF RegistryInv, ListedPools, ListedPoolsAreActive, Installed
  <1>. QED  BY <1>1, RegistryInvariant, PTL

\* No step makes a pool the default unless some install asked for that.
THEOREM DefaultIsNotTaken == Spec => PromotionIsAsked
  <1>1. RegistryInv /\ [Next]_vars =>
          [\A n \in PoolNames :
            Default(sq') = PoolVfs(n) /\ Default(sq) # PoolVfs(n) =>
                pools'[n].make_default \/ ~Registered(sq', Default(sq))]_vars
    BY RegistryInvStep DEF Asked
  <1>. QED  BY <1>1, RegistryInvariant, PTL DEF Spec, PromotionIsAsked

=============================================================================
