---------------------------- MODULE SahLeaseProofs ----------------------------
(***************************************************************************)
(* Proofs about the lease of SahLease, for any workers and slots, any      *)
(* number of attempts and any number of abandoned requests.                *)
(***************************************************************************)
EXTENDS SahLease, TLAPS

-----------------------------------------------------------------------------
(* The inductive invariant *)

Kinds == {"none", "install", "resume", "add", "release"}
Phases == {"idle", "lease", "entries", "slot", "grow", "create", "closing"}
Operations == [kind : Kinds, pc : Phases, todo : SUBSET Slots, left : Nat]
Acquisitions ==
    [file : Files \cup {NoFile}, stage : {"none", "creating", "requested", "ready"}]

Orphans ==
    {NoOrphan} \cup [worker : Workers, file : Files, stage : {"requested", "granted"}]

LeaseTypeOK ==
    /\ present \subseteq Slots /\ creating \subseteq Slots
    /\ holder \in [Files -> Workers \cup {Nobody}]
    /\ state \in [Workers -> {"none", "Active", "Paused"}]
    /\ op \in [Workers -> Operations]
    /\ task \in [Workers -> Acquisitions]
    /\ orphan \in [Tasks -> Orphans]
    /\ lease \in [Workers -> BOOLEAN]
    /\ slots \in [Workers -> SUBSET Slots]
    /\ got \in [Workers -> SUBSET Slots]

\* What each phase awaits.
Awaits(w) ==
    /\ op[w].pc \in {"idle", "entries", "grow", "closing"} => task[w] = NoAcquisition
    /\ op[w].pc = "lease" =>
          task[w].file = Lock /\ task[w].stage \in {"requested", "ready"}
    /\ op[w].pc = "slot" =>
          task[w].file \in Slots \ got[w] /\ task[w].stage \in {"requested", "ready"}
    /\ op[w].pc = "create" =>
          /\ task[w].file \in Slots \ (slots[w] \cup got[w])
          /\ task[w].stage \in {"creating", "requested", "ready"}

\* Which operation is in which phase, and on which pool.
Runs(w) ==
    /\ op[w].pc = "idle" <=> op[w].kind = "none"
    /\ op[w].pc \in {"lease", "entries", "slot"} => op[w].kind \in {"install", "resume"}
    /\ op[w].pc \in {"grow", "create"} => op[w].kind \in {"install", "add"}
    /\ op[w].pc = "grow" => op[w].left > 0
    /\ op[w].kind = "install" => state[w] = "none"
    /\ op[w].kind = "resume" => state[w] = "Paused"
    /\ op[w].kind = "add" => state[w] = "Active"
    /\ op[w].kind = "release" => op[w].pc = "closing" /\ state[w] # "Active"

\* What a worker has in each phase: slots under the lease alone, but for the
\* moment in which install drops its pool.
Has(w) ==
    /\ op[w].pc = "idle" => got[w] = {}
    /\ op[w].pc = "idle" /\ state[w] # "Active" => ~lease[w] /\ slots[w] = {}
    /\ op[w].pc = "lease" => ~lease[w] /\ slots[w] = {} /\ got[w] = {}
    /\ op[w].pc \in {"entries", "slot"} => slots[w] = {}
    /\ op[w].pc \in {"entries", "slot", "grow", "create"} => lease[w]
    /\ state[w] = "Active" => lease[w]
    /\ slots[w] \cup got[w] # {} =>
          lease[w] \/ (op[w].kind = "install" /\ op[w].pc = "closing")

\* The browser's view is no larger than the workers': whoever has a handle
\* uses it, has just been given it, or will close it in the background.
HandlesAreKnown ==
    \A w \in Workers, f \in Files :
        holder[f] = w =>
            \/ f \in Uses(w)
            \/ task[w].file = f /\ Awaiting(w, "ready")
            \/ Stray(w, f)

LeaseInv ==
    /\ LeaseTypeOK
    /\ \A w \in Workers : Awaits(w)
    /\ \A w \in Workers : Runs(w)
    /\ \A w \in Workers : Has(w)
    /\ HandlesAreGranted
    /\ HandlesAreKnown

-----------------------------------------------------------------------------
(* Values and single steps of one worker *)

\* The values the steps store.
LEMMA ValueFacts ==
    /\ Lock \in Files /\ Slots \subseteq Files /\ Lock \notin Slots
    /\ NoFile \notin Files
    /\ NoAcquisition \in Acquisitions
    /\ NoAcquisition.stage = "none" /\ NoAcquisition.file = NoFile
    /\ \A k \in Kinds, p \in Phases :
          /\ Operation(k, p) \in Operations
          /\ Operation(k, p).kind = k /\ Operation(k, p).pc = p
          /\ Operation(k, p).left = MaxAttempts
    /\ \A f \in Files, g \in {"none", "creating", "requested", "ready"} :
          /\ Acquisition(f, g) \in Acquisitions
          /\ Acquisition(f, g).file = f /\ Acquisition(f, g).stage = g
  BY FileAssumption, AttemptAssumption
     DEF Files, NoAcquisition, Acquisition, Acquisitions, Operation, Operations

\* An operation of w that is replaced.
LEMMA OperationFacts ==
    ASSUME LeaseTypeOK, NEW w \in Workers, NEW o \in Operations, op' = [op EXCEPT ![w] = o]
    PROVE  /\ op' \in [Workers -> Operations] /\ op'[w] = o
           /\ \A v \in Workers : v # w => op'[v] = op[v]
  BY DEF LeaseTypeOK

\* An operation of w that begins, or begins anew in a phase.
LEMMA BeginFacts ==
    ASSUME LeaseTypeOK, NEW w \in Workers, NEW k \in Kinds, NEW p \in Phases,
           op' = [op EXCEPT ![w] = Operation(k, p)]
    PROVE  /\ op' \in [Workers -> Operations]
           /\ op'[w].kind = k /\ op'[w].pc = p /\ op'[w].left = MaxAttempts
           /\ \A v \in Workers : v # w => op'[v] = op[v]
  <1>1. LET o == Operation(k, p)
        IN  o \in Operations /\ o.pc = p /\ o.kind = k /\ o.left = MaxAttempts
    BY ValueFacts
  <1>. QED  BY <1>1, OperationFacts

LEMMA EnterFacts ==
    ASSUME LeaseTypeOK, NEW w \in Workers, NEW p \in Phases, Enter(w, p)
    PROVE  /\ op' \in [Workers -> Operations]
           /\ op'[w].kind = op[w].kind /\ op'[w].pc = p /\ op'[w].left = MaxAttempts
           /\ \A v \in Workers : v # w => op'[v] = op[v]
  <1>1. op[w].kind \in Kinds
    BY DEF LeaseTypeOK, Operations
  <1>2. op' = [op EXCEPT ![w] = Operation(op[w].kind, p)]
    BY DEF Enter
  <1>. QED  BY <1>1, <1>2, BeginFacts

\* An operation of w that goes on with its next attempt.
LEMMA AttemptFacts ==
    ASSUME LeaseTypeOK, NEW w \in Workers, NEW p \in Phases, NEW left \in Nat,
           op' = [op EXCEPT ![w].pc = p, ![w].left = left]
    PROVE  /\ op' \in [Workers -> Operations]
           /\ op'[w].pc = p /\ op'[w].kind = op[w].kind /\ op'[w].left = left
           /\ \A v \in Workers : v # w => op'[v] = op[v]
  <1>1. op[w] \in Operations
    BY DEF LeaseTypeOK
  <1>2. LET o == [op[w] EXCEPT !.pc = p, !.left = left]
        IN  o \in Operations /\ o.pc = p /\ o.kind = op[w].kind /\ o.left = left
    BY <1>1 DEF Operations
  <1>3. op' = [op EXCEPT ![w] = [op[w] EXCEPT !.pc = p, !.left = left]]
    BY <1>1 DEF LeaseTypeOK
  <1>. QED  BY <1>2, <1>3, OperationFacts

\* The acquisition of w that is replaced.
LEMMA TaskFacts ==
    ASSUME LeaseTypeOK, NEW w \in Workers, NEW a \in Acquisitions, task' = [task EXCEPT ![w] = a]
    PROVE  /\ task' \in [Workers -> Acquisitions] /\ task'[w] = a
           /\ \A v \in Workers : v # w => task'[v] = task[v]
  BY DEF LeaseTypeOK

\* HandlesAreGranted and HandlesAreKnown, of one worker and of the tasks.
Granted(w) ==
    /\ \A f \in Uses(w) :
        /\ holder[f] = w /\ ~Stray(w, f)
        /\ task[w].file = f => ~Awaiting(w, "ready")
    /\ slots[w] \cap got[w] = {}
    /\ Awaiting(w, "ready") => holder[task[w].file] = w /\ ~Stray(w, task[w].file)

Known(w) ==
    \A f \in Files :
        holder[f] = w =>
            \/ f \in Uses(w)
            \/ task[w].file = f /\ Awaiting(w, "ready")
            \/ Stray(w, f)

StraysAreGranted ==
    \A t \in Tasks : orphan[t].stage = "granted" =>
        /\ holder[orphan[t].file] = orphan[t].worker
        /\ \A u \in Tasks \ {t} : orphan[u] # orphan[t]

Local(w) == Awaits(w) /\ Runs(w) /\ Has(w) /\ Granted(w) /\ Known(w)

LEMMA LocalFacts ==
    LeaseInv <=> LeaseTypeOK /\ StraysAreGranted /\ \A w \in Workers : Local(w)
  BY DEF LeaseInv, Local, HandlesAreGranted, HandlesAreKnown, Granted, Known, StraysAreGranted

\* The record of a task in the background.
LEMMA OrphanFacts ==
    /\ NoOrphan.stage = "none" /\ NoOrphan.worker = Nobody
    /\ \A o \in Orphans : o.stage \in {"none", "requested", "granted"}
    /\ \A o \in Orphans : o.stage # "none" =>
          o.worker \in Workers /\ o.file \in Files /\ o = Orphan(o.worker, o.file, o.stage)
    /\ \A w \in Workers, f \in Files, g \in {"requested", "granted"} :
          /\ Orphan(w, f, g) \in Orphans
          /\ Orphan(w, f, g).worker = w /\ Orphan(w, f, g).file = f /\ Orphan(w, f, g).stage = g
  BY DEF Orphans, NoOrphan, Orphan

\* A granted task is a stray handle, and the browser's holder is its worker.
LEMMA StrayFacts ==
    ASSUME LeaseTypeOK, StraysAreGranted
    PROVE  /\ \A t \in Tasks : orphan[t].stage = "granted" =>
                 Stray(orphan[t].worker, orphan[t].file)
           /\ \A w \in Workers, f \in Files : Stray(w, f) => holder[f] = w
  <1>1. \A t \in Tasks : orphan[t] \in Orphans
    BY DEF LeaseTypeOK
  <1>2. \A t \in Tasks : orphan[t].stage = "granted" => Stray(orphan[t].worker, orphan[t].file)
    BY <1>1, OrphanFacts DEF Stray
  <1>3. ASSUME NEW w \in Workers, NEW f \in Files, Stray(w, f)
        PROVE  holder[f] = w
    <2>1. PICK t \in Tasks : orphan[t] = Orphan(w, f, "granted")
      BY <1>3 DEF Stray
    <2>. QED  BY <2>1, OrphanFacts DEF StraysAreGranted
  <1>. QED  BY <1>2, <1>3

\* Without a step of a task the stray handles are the same.
LEMMA SameStrays ==
    ASSUME UNCHANGED orphan
    PROVE  \A w, f : Stray(w, f)' <=> Stray(w, f)
  BY DEF Stray

\* A worker disturbs no other one if it opens only free handles and closes
\* only its own.
LEMMA WorkerStep ==
    ASSUME LeaseInv, NEW w \in Workers, LeaseTypeOK', Local(w)', StraysAreGranted',
           \A v \in Workers : v # w =>
               /\ op'[v] = op[v] /\ state'[v] = state[v] /\ task'[v] = task[v]
               /\ lease'[v] = lease[v] /\ slots'[v] = slots[v] /\ got'[v] = got[v]
               /\ \A f \in Files : Stray(v, f)' <=> Stray(v, f),
           \A f \in Files : holder'[f] = holder[f]
               \/ (holder[f] \in {w, Nobody} /\ holder'[f] \in {w, Nobody})
    PROVE  LeaseInv'
  <1>1. ASSUME NEW v \in Workers, v # w
        PROVE  Local(v)'
    <2>1. Local(v)
      BY LocalFacts
    <2>2. Awaits(v)' /\ Runs(v)' /\ Has(v)'
      BY <1>1, <2>1 DEF Local, Awaits, Runs, Has
    <2>3. Uses(v)' = Uses(v) /\ Uses(v) \subseteq Files
      BY <1>1, ValueFacts DEF Uses, LeaseFile, LeaseInv, LeaseTypeOK
    <2>4. \A f \in Files : holder'[f] = v <=> holder[f] = v
      BY <1>1, WorkerAssumption
    <2>5. Awaiting(v, "ready") => task[v].file \in Files
      BY <2>1, ValueFacts DEF Local, Awaits, Awaiting, LeaseInv, LeaseTypeOK, Operations, Phases
    <2>6. \A f \in Files : Stray(v, f)' <=> Stray(v, f)
      BY <1>1
    <2>7. Granted(v)'
      BY <1>1, <2>1, <2>3, <2>4, <2>5, <2>6 DEF Local, Granted, Awaiting
    <2>8. Known(v)'
      BY <1>1, <2>1, <2>3, <2>4, <2>6 DEF Local, Known, Awaiting
    <2>. QED  BY <2>2, <2>7, <2>8 DEF Local
  <1>2. \A v \in Workers : Local(v)'
    BY <1>1
  <1>3. LeaseTypeOK' /\ StraysAreGranted' /\ (\A v \in Workers : Local(v)') => LeaseInv'
    BY DEF LeaseInv, Local, HandlesAreGranted, HandlesAreKnown, Granted, Known, StraysAreGranted
  <1>. QED  BY <1>2, <1>3

\* The same, when no task in the background is concerned.
LEMMA ForegroundStep ==
    ASSUME LeaseInv, NEW w \in Workers, LeaseTypeOK', Local(w)', UNCHANGED orphan,
           \A v \in Workers : v # w =>
               /\ op'[v] = op[v] /\ state'[v] = state[v] /\ task'[v] = task[v]
               /\ lease'[v] = lease[v] /\ slots'[v] = slots[v] /\ got'[v] = got[v],
           \A f \in Files : holder'[f] = holder[f]
               \/ (holder[f] \in {w, Nobody} /\ holder'[f] \in {w, Nobody} /\ ~Stray(w, f))
    PROVE  LeaseInv'
  <1>1. LeaseTypeOK /\ StraysAreGranted
    BY LocalFacts
  <1>2. \A v, f : Stray(v, f)' <=> Stray(v, f)
    BY SameStrays
  <1>3. StraysAreGranted'
    <2>1. SUFFICES ASSUME NEW t \in Tasks, orphan[t].stage = "granted"
                   PROVE  holder'[orphan[t].file] = orphan[t].worker
      BY <1>1 DEF StraysAreGranted
    <2>2. /\ orphan[t].worker \in Workers /\ orphan[t].file \in Files
          /\ Stray(orphan[t].worker, orphan[t].file) /\ holder[orphan[t].file] = orphan[t].worker
      BY <1>1, <2>1, OrphanFacts, StrayFacts DEF LeaseTypeOK
    <2>. QED  BY <2>2, WorkerAssumption
  <1>. QED  BY <1>2, <1>3, WorkerStep

-----------------------------------------------------------------------------
(* The browser *)

\* The handle an operation awaits is granted.
LEMMA GrantStep ==
    ASSUME LeaseInv, NEW w \in Workers, Grant(w)
    PROVE  LeaseInv'
  <1>. DEFINE f == task[w].file
  <1>1. /\ task[w].stage = "requested" /\ holder[f] = Nobody
        /\ holder' = [holder EXCEPT ![f] = w]
        /\ task' = [task EXCEPT ![w].stage = "ready"]
        /\ UNCHANGED <<present, creating, state, op, orphan, lease, slots, got>>
    BY DEF Grant, Awaiting, Free, directory, files
  <1>2. LeaseTypeOK /\ StraysAreGranted /\ Local(w)
    BY LocalFacts
  <1>3. f \in Files
    BY <1>1, <1>2, ValueFacts DEF LeaseTypeOK, Local, Awaits, Operations, Phases
  <1>4. /\ task' \in [Workers -> Acquisitions] /\ task'[w].file = f /\ task'[w].stage = "ready"
        /\ \A v \in Workers : v # w => task'[v] = task[v]
    BY <1>1, <1>2, <1>3 DEF LeaseTypeOK, Acquisitions
  <1>5. /\ holder' \in [Files -> Workers \cup {Nobody}] /\ holder'[f] = w
        /\ \A g \in Files : g # f => holder'[g] = holder[g]
    BY <1>1, <1>2, <1>3 DEF LeaseTypeOK
  <1>6. LeaseTypeOK'
    BY <1>1, <1>2, <1>4, <1>5 DEF LeaseTypeOK
  <1>7. Awaits(w)' /\ Runs(w)' /\ Has(w)'
    BY <1>1, <1>2, <1>3, <1>4, ValueFacts DEF Local, Awaits, Runs, Has
  <1>8. Uses(w)' = Uses(w) /\ Uses(w) \subseteq Files
    BY <1>1, <1>2, ValueFacts DEF Uses, LeaseFile, LeaseTypeOK
  <1>9. ~Stray(w, f) /\ f \notin Uses(w)
    BY <1>1, <1>2, <1>3, StrayFacts, WorkerAssumption DEF Local, Granted
  <1>10. \A g : Stray(w, g)' <=> Stray(w, g)
    BY <1>1, SameStrays
  <1>11. Granted(w)'
    BY <1>1, <1>2, <1>3, <1>4, <1>5, <1>8, <1>9, <1>10 DEF Local, Granted, Awaiting
  <1>12. Known(w)'
    BY <1>1, <1>2, <1>4, <1>5, <1>8, <1>10 DEF Local, Known, Awaiting
  <1>. QED  BY <1>1, <1>4, <1>5, <1>6, <1>7, <1>9, <1>11, <1>12, ForegroundStep DEF Local

\* The handles are the same, and in the same hands.
LEMMA SameHandles ==
    ASSUME NEW w \in Workers, Local(w), UNCHANGED <<holder, orphan>>,
           Uses(w)' = Uses(w), slots'[w] \cap got'[w] = {},
           task[w].stage # "ready", task'[w].stage # "ready"
    PROVE  Granted(w)' /\ Known(w)'
  <1>1. \A f : Stray(w, f)' <=> Stray(w, f)
    BY SameStrays
  <1>. QED  BY <1>1 DEF Local, Granted, Known, Awaiting

\* The browser refuses the handle, and the operation fails.
LEMMA RefuseStep ==
    ASSUME LeaseInv, NEW w \in Workers, Refuse(w)
    PROVE  LeaseInv'
  <1>1. /\ task[w].stage = "requested" /\ task' = [task EXCEPT ![w] = NoAcquisition]
        /\ Enter(w, "closing")
        /\ UNCHANGED <<present, creating, holder, state, orphan, lease, slots, got>>
    BY DEF Refuse, Awaiting, directory, files
  <1>2. LeaseTypeOK /\ Local(w)
    BY LocalFacts
  <1>3. /\ task' \in [Workers -> Acquisitions] /\ task'[w] = NoAcquisition
        /\ \A v \in Workers : v # w => task'[v] = task[v]
    BY <1>1, <1>2, ValueFacts, TaskFacts
  <1>4. /\ op' \in [Workers -> Operations] /\ op'[w].pc = "closing" /\ op'[w].kind = op[w].kind
        /\ \A v \in Workers : v # w => op'[v] = op[v]
    BY <1>1, <1>2, EnterFacts DEF Phases
  <1>5. LeaseTypeOK'
    BY <1>1, <1>2, <1>3, <1>4 DEF LeaseTypeOK
  <1>6. op[w].pc \in {"lease", "slot", "create"}
    BY <1>1, <1>2, ValueFacts DEF Local, Awaits, LeaseTypeOK, Operations, Phases
  <1>7. Awaits(w)' /\ Runs(w)' /\ Has(w)'
    BY <1>1, <1>2, <1>3, <1>4, <1>6 DEF Local, Awaits, Runs, Has
  <1>8. Granted(w)' /\ Known(w)'
    <2>1. Uses(w)' = Uses(w) /\ slots'[w] \cap got'[w] = {}
      BY <1>1, <1>2 DEF Uses, LeaseFile, Local, Granted
    <2>. QED  BY <1>1, <1>2, <1>3, <2>1, ValueFacts, SameHandles
  <1>. QED  BY <1>1, <1>3, <1>4, <1>5, <1>7, <1>8, ForegroundStep DEF Local

\* An acquisition nobody awaits is granted, refused, or closed.
LEMMA BackgroundStep ==
    ASSUME LeaseInv, NEW t \in Tasks, Background(t)
    PROVE  LeaseInv'
  <1>1. UNCHANGED <<present, creating, state, op, task, lease, slots, got>>
    BY DEF Background, OrphanGranted, OrphanRefused, OrphanCloses, directory, files
  <1>2. LeaseTypeOK /\ StraysAreGranted /\ orphan[t] \in Orphans
    BY LocalFacts DEF LeaseTypeOK
  <1>3. orphan[t].stage # "none"
    BY DEF Background, OrphanGranted, OrphanRefused, OrphanCloses
  <1>4. PICK w \in Workers, f \in Files :
            /\ orphan[t].worker = w /\ orphan[t].file = f
            /\ orphan[t] = Orphan(w, f, orphan[t].stage)
    BY <1>2, <1>3, OrphanFacts
  <1>5. Local(w)
    BY LocalFacts
  <1>6. PICK o \in {NoOrphan, Orphan(w, f, "granted")} :
            /\ orphan' = [orphan EXCEPT ![t] = o]
            /\ \/ /\ o = Orphan(w, f, "granted") /\ orphan[t].stage = "requested"
                  /\ holder[f] = Nobody /\ holder' = [holder EXCEPT ![f] = w]
               \/ o = NoOrphan /\ orphan[t].stage = "requested" /\ holder' = holder
               \/ /\ o = NoOrphan /\ orphan[t].stage = "granted"
                  /\ holder' = [holder EXCEPT ![f] = Nobody]
    <2>1. CASE OrphanGranted(t)
      <3>1. orphan' = [orphan EXCEPT ![t] = [orphan[t] EXCEPT !.stage = "granted"]]
        BY <1>2, <2>1 DEF OrphanGranted, LeaseTypeOK
      <3>2. [orphan[t] EXCEPT !.stage = "granted"] = Orphan(w, f, "granted")
        BY <1>4 DEF Orphan
      <3>. QED  BY <1>4, <2>1, <3>1, <3>2 DEF OrphanGranted, Free
    <2>2. CASE OrphanRefused(t) \/ OrphanCloses(t)
      BY <1>4, <2>2 DEF OrphanRefused, OrphanCloses
    <2>. QED  BY <2>1, <2>2 DEF Background
  <1>7. /\ orphan' \in [Tasks -> Orphans] /\ orphan'[t] = o
        /\ \A u \in Tasks : u # t => orphan'[u] = orphan[u]
    BY <1>2, <1>4, <1>6, OrphanFacts DEF LeaseTypeOK, Orphans
  <1>8. /\ holder' \in [Files -> Workers \cup {Nobody}]
        /\ \A g \in Files : g # f => holder'[g] = holder[g]
        /\ \/ o = Orphan(w, f, "granted") /\ holder[f] = Nobody /\ holder'[f] = w
           \/ o = NoOrphan /\ orphan[t].stage = "requested" /\ holder'[f] = holder[f]
           \/ o = NoOrphan /\ orphan[t].stage = "granted" /\ holder[f] = w /\ holder'[f] = Nobody
    BY <1>2, <1>4, <1>6 DEF LeaseTypeOK, StraysAreGranted
  <1>9. LeaseTypeOK'
    BY <1>1, <1>2, <1>7, <1>8 DEF LeaseTypeOK
  <1>10. \A v \in Workers, g \in Files : v # w \/ g # f => (Stray(v, g)' <=> Stray(v, g))
    BY <1>2, <1>4, <1>6, <1>7, OrphanFacts DEF Stray, LeaseTypeOK
  <1>11. /\ o = Orphan(w, f, "granted") => Stray(w, f)'
         /\ o = NoOrphan /\ orphan[t].stage = "granted" => Stray(w, f) /\ ~Stray(w, f)'
         /\ o = NoOrphan /\ orphan[t].stage = "requested" => (Stray(w, f)' <=> Stray(w, f))
         /\ holder[f] = Nobody => ~Stray(w, f)
    <2>1. o = Orphan(w, f, "granted") => Stray(w, f)'
      BY <1>7 DEF Stray
    <2>2. ASSUME o = NoOrphan, orphan[t].stage = "granted"
          PROVE  Stray(w, f) /\ ~Stray(w, f)'
      <3>1. \A u \in Tasks : u # t => orphan'[u] # Orphan(w, f, "granted")
        BY <1>2, <1>4, <1>7, <2>2 DEF StraysAreGranted
      <3>2. orphan'[t] # Orphan(w, f, "granted")
        BY <1>4, <1>7, <2>2, OrphanFacts
      <3>. QED  BY <1>4, <2>2, <3>1, <3>2 DEF Stray
    <2>3. ASSUME o = NoOrphan, orphan[t].stage = "requested"
          PROVE  Stray(w, f)' <=> Stray(w, f)
      <3>1. orphan'[t] # Orphan(w, f, "granted") /\ orphan[t] # Orphan(w, f, "granted")
        BY <1>4, <1>7, <2>3, OrphanFacts
      <3>. QED  BY <1>7, <3>1 DEF Stray
    <2>4. holder[f] = Nobody => ~Stray(w, f)
      BY <1>2, <1>4, StrayFacts, WorkerAssumption
    <2>. QED  BY <2>1, <2>2, <2>3, <2>4
  <1>12. StraysAreGranted'
    <2>1. SUFFICES ASSUME NEW u \in Tasks, orphan'[u].stage = "granted"
                   PROVE  /\ holder'[orphan'[u].file] = orphan'[u].worker
                          /\ \A x \in Tasks \ {u} : orphan'[x] # orphan'[u]
      BY DEF StraysAreGranted
    <2>2. CASE u = t
      <3>1. o = Orphan(w, f, "granted") /\ holder[f] = Nobody /\ holder'[f] = w
        BY <1>7, <1>8, <2>1, <2>2, OrphanFacts
      <3>2. \A x \in Tasks : orphan[x] # Orphan(w, f, "granted")
        BY <1>11, <3>1 DEF Stray
      <3>. QED  BY <1>4, <1>7, <2>2, <3>1, <3>2, OrphanFacts
    <2>3. CASE u # t
      <3>1. /\ orphan'[u] = orphan[u] /\ orphan[u].stage = "granted"
            /\ orphan[u].worker \in Workers /\ orphan[u].file \in Files
            /\ holder[orphan[u].file] = orphan[u].worker
            /\ \A x \in Tasks \ {u} : orphan[x] # orphan[u]
            /\ orphan[u] = Orphan(orphan[u].worker, orphan[u].file, "granted")
        BY <1>2, <1>7, <2>1, <2>3, OrphanFacts DEF StraysAreGranted, LeaseTypeOK
      <3>2. holder[f] = Nobody => orphan[u].file # f
        BY <3>1, WorkerAssumption
      <3>3. orphan[t].stage = "granted" => orphan[u].file # f
        BY <1>2, <1>4, <2>3, <3>1 DEF StraysAreGranted
      <3>4. orphan[u] # o
        BY <1>8, <3>1, <3>2, OrphanFacts, <1>4
      <3>. QED  BY <1>7, <1>8, <2>3, <3>1, <3>2, <3>3, <3>4
    <2>. QED  BY <2>2, <2>3
  <1>13. Awaits(w)' /\ Runs(w)' /\ Has(w)'
    BY <1>1, <1>5 DEF Local, Awaits, Runs, Has
  <1>14. Uses(w)' = Uses(w) /\ Uses(w) \subseteq Files
    BY <1>1, <1>2, <1>4, ValueFacts DEF Uses, LeaseFile, LeaseTypeOK
  <1>15. Awaiting(w, "ready") => task[w].file \in Files
    BY <1>2, <1>4, <1>5, ValueFacts DEF Local, Awaits, Awaiting, LeaseTypeOK, Operations, Phases
  <1>16. Granted(w)'
    BY <1>1, <1>4, <1>5, <1>8, <1>10, <1>11, <1>14, <1>15, WorkerAssumption DEF Local, Granted, Awaiting
  <1>17. Known(w)'
    BY <1>1, <1>4, <1>5, <1>8, <1>10, <1>11, <1>14, WorkerAssumption DEF Local, Known, Awaiting
  <1>18. Local(w)'
    BY <1>13, <1>16, <1>17 DEF Local
  <1>. QED  BY <1>1, <1>4, <1>8, <1>9, <1>10, <1>12, <1>18, WorkerStep

\* A creation whose caller is gone lands.
LEMMA CreationLandsStep ==
    ASSUME LeaseInv, NEW s \in Slots, CreationLands(s)
    PROVE  LeaseInv'
  <1>1. LeaseTypeOK' /\ UNCHANGED <<holder, state, op, task, orphan, lease, slots, got>>
    BY DEF CreationLands, LeaseInv, LeaseTypeOK, acquisitions, files
  <1>. QED  BY <1>1 DEF LeaseInv, Awaits, Runs, Has, HandlesAreGranted, HandlesAreKnown,
                        Uses, LeaseFile, Awaiting, Stray

-----------------------------------------------------------------------------
(* Taking the directory *)

\* install, resume and add_capacity begin.
LEMMA BeginStep ==
    ASSUME LeaseInv, NEW w \in Workers, InstallBegin(w) \/ ResumeBegin(w) \/ AddBegin(w)
    PROVE  LeaseInv'
  <1>1. /\ op[w].pc = "idle"
        /\ UNCHANGED <<present, creating, holder, state, orphan, lease, slots, got>>
    BY DEF InstallBegin, ResumeBegin, AddBegin, InPhase, directory, acquisitions, files
  <1>2. LeaseTypeOK /\ Local(w)
    BY LocalFacts
  <1>3. PICK k \in Kinds, p \in Phases, a \in Acquisitions :
            /\ op' = [op EXCEPT ![w] = Operation(k, p)] /\ task' = [task EXCEPT ![w] = a]
            /\ \/ /\ k = "install" /\ p = "lease" /\ state[w] = "none"
                  /\ a = Acquisition(Lock, "requested")
               \/ /\ k = "resume" /\ p = "lease" /\ state[w] = "Paused"
                  /\ a = Acquisition(Lock, "requested")
               \/ k = "add" /\ p = "grow" /\ state[w] = "Active" /\ a = NoAcquisition
    <2>1. task[w] = NoAcquisition /\ task = [task EXCEPT ![w] = NoAcquisition]
      BY <1>1, <1>2 DEF Local, Awaits, LeaseTypeOK
    <2>2. Acquisition(Lock, "requested") \in Acquisitions /\ NoAcquisition \in Acquisitions
      BY ValueFacts
    <2>. QED  BY <2>1, <2>2 DEF InstallBegin, ResumeBegin, AddBegin, Request, acquisitions, Kinds, Phases
  <1>4. /\ op' \in [Workers -> Operations] /\ op'[w].kind = k /\ op'[w].pc = p /\ op'[w].left = MaxAttempts
        /\ \A v \in Workers : v # w => op'[v] = op[v]
    BY <1>2, <1>3, BeginFacts
  <1>5. /\ task' \in [Workers -> Acquisitions] /\ task'[w] = a
        /\ \A v \in Workers : v # w => task'[v] = task[v]
    BY <1>2, <1>3, TaskFacts
  <1>6. LeaseTypeOK'
    BY <1>1, <1>2, <1>4, <1>5 DEF LeaseTypeOK
  <1>7. Awaits(w)' /\ Runs(w)' /\ Has(w)'
    BY <1>1, <1>2, <1>3, <1>4, <1>5, ValueFacts, AttemptAssumption DEF Local, Awaits, Runs, Has
  <1>8. Granted(w)' /\ Known(w)'
    <2>1. Uses(w)' = Uses(w) /\ slots'[w] \cap got'[w] = {}
      BY <1>1, <1>2 DEF Uses, LeaseFile, Local, Granted
    <2>2. task[w].stage # "ready" /\ task'[w].stage # "ready"
      BY <1>1, <1>2, <1>3, <1>5, ValueFacts DEF Local, Awaits
    <2>. QED  BY <1>1, <1>2, <2>1, <2>2, SameHandles
  <1>. QED  BY <1>1, <1>4, <1>5, <1>6, <1>7, <1>8, ForegroundStep DEF Local

\* An awaited handle becomes a SyncAccessFile: the lease, or a slot.
LEMMA TakeStep ==
    ASSUME LeaseInv, NEW w \in Workers, TakeLease(w) \/ TakeSlot(w) \/ AddKeeps(w)
    PROVE  LeaseInv'
  <1>. DEFINE f == task[w].file
  <1>1. /\ task[w].stage = "ready" /\ task' = [task EXCEPT ![w] = NoAcquisition]
        /\ UNCHANGED <<present, creating, holder, state, orphan, slots>>
    BY DEF TakeLease, TakeSlot, AddKeeps, Awaiting, directory
  <1>2. LeaseTypeOK /\ Local(w)
    BY LocalFacts
  <1>3. /\ task' \in [Workers -> Acquisitions] /\ task'[w] = NoAcquisition
        /\ \A v \in Workers : v # w => task'[v] = task[v]
    BY <1>1, <1>2, ValueFacts, TaskFacts
  <1>4. /\ op' \in [Workers -> Operations] /\ op'[w].kind = op[w].kind
        /\ \A v \in Workers : v # w => op'[v] = op[v]
        /\ \/ TakeLease(w) /\ op[w].pc = "lease" /\ op'[w].pc = "entries"
           \/ TakeSlot(w) /\ op[w].pc = "slot" /\ op'[w].pc = "entries"
           \/ AddKeeps(w) /\ op[w].pc = "create" /\ op'[w].pc = "grow" /\ op'[w].left = MaxAttempts
    <2>1. CASE TakeLease(w)
      BY <1>2, <2>1 DEF TakeLease, InPhase, LeaseTypeOK, Operations, Phases
    <2>2. CASE TakeSlot(w)
      BY <1>2, <2>2 DEF TakeSlot, Goto, InPhase, LeaseTypeOK, Operations, Phases
    <2>3. CASE AddKeeps(w)
      BY <1>2, <2>3, EnterFacts DEF AddKeeps, InPhase, Phases
    <2>. QED  BY <2>1, <2>2, <2>3
  <1>5. f \in Files /\ (op[w].pc = "lease" => f = Lock) /\ (op[w].pc # "lease" => f \in Slots)
    BY <1>2, <1>4, ValueFacts DEF Local, Awaits
  <1>6. /\ lease' \in [Workers -> BOOLEAN] /\ got' \in [Workers -> SUBSET Slots]
        /\ \A v \in Workers : v # w => lease'[v] = lease[v] /\ got'[v] = got[v]
        /\ TakeLease(w) => lease'[w] = TRUE /\ got'[w] = got[w]
        /\ ~TakeLease(w) => lease'[w] = lease[w] /\ got'[w] = got[w] \cup {f}
    <2>1. CASE TakeLease(w)
      BY <1>2, <2>1 DEF TakeLease, LeaseTypeOK
    <2>2. CASE ~TakeLease(w)
      BY <1>2, <1>4, <1>5, <2>2 DEF TakeSlot, AddKeeps, LeaseTypeOK
    <2>. QED  BY <2>1, <2>2
  <1>7. LeaseTypeOK'
    BY <1>1, <1>2, <1>3, <1>4, <1>6 DEF LeaseTypeOK
  <1>8. Awaits(w)' /\ Runs(w)'
    BY <1>1, <1>2, <1>3, <1>4, AttemptAssumption DEF Local, Awaits, Runs
  <1>9. Has(w)'
    BY <1>1, <1>2, <1>4, <1>5, <1>6 DEF Local, Awaits, Runs, Has
  <1>10. Uses(w)' = Uses(w) \cup {f} /\ Uses(w) \subseteq Files
    <2>1. Uses(w) \subseteq Files
      BY <1>2, ValueFacts DEF Uses, LeaseFile, LeaseTypeOK
    <2>2. CASE TakeLease(w)
      <3>1. f = Lock /\ lease'[w] = TRUE /\ got'[w] = got[w] /\ slots'[w] = slots[w]
        BY <1>1, <1>5, <1>6, <2>2 DEF TakeLease, InPhase
      <3>. QED  BY <2>1, <3>1 DEF Uses, LeaseFile
    <2>3. CASE ~TakeLease(w)
      <3>1. lease'[w] = lease[w] /\ got'[w] = got[w] \cup {f} /\ slots'[w] = slots[w]
        BY <1>1, <1>6, <2>3
      <3>. QED  BY <2>1, <3>1 DEF Uses, LeaseFile
    <2>. QED  BY <2>2, <2>3
  <1>11. f \notin Uses(w)
    BY <1>1, <1>2 DEF Local, Granted, Awaiting
  <1>12. slots'[w] \cap got'[w] = {}
    BY <1>1, <1>2, <1>6, <1>11 DEF Local, Granted, Uses
  <1>13. Granted(w)' /\ Known(w)'
    <2>1. \A g : Stray(w, g)' <=> Stray(w, g)
      BY <1>1, SameStrays
    <2>. QED  BY <1>1, <1>2, <1>3, <1>10, <1>12, <2>1, ValueFacts DEF Local, Granted, Known, Awaiting
  <1>. QED  BY <1>1, <1>3, <1>4, <1>6, <1>7, <1>8, <1>9, <1>13, ForegroundStep DEF Local
\* The next entry of the directory, or a new file, is asked for.
LEMMA RequestStep ==
    ASSUME LeaseInv, NEW w \in Workers, NEW s \in Slots, NextEntry(w, s) \/ AddCreates(w, s)
    PROVE  LeaseInv'
  <1>1. UNCHANGED <<present, creating, holder, state, orphan, lease, slots, got>>
    BY DEF NextEntry, AddCreates, directory, files
  <1>2. LeaseTypeOK /\ Local(w)
    BY LocalFacts
  <1>3. /\ op' \in [Workers -> Operations] /\ op'[w].kind = op[w].kind
        /\ \A v \in Workers : v # w => op'[v] = op[v]
        /\ \/ /\ op[w].pc = "entries" /\ op'[w].pc = "slot" /\ s \notin got[w]
              /\ task' = [task EXCEPT ![w] = Acquisition(s, "requested")]
           \/ /\ op[w].pc = "grow" /\ op'[w].pc = "create" /\ s \notin slots[w] \cup got[w]
              /\ task' = [task EXCEPT ![w] = Acquisition(s, "creating")]
    <2>1. CASE NextEntry(w, s)
      BY <1>2, <2>1 DEF NextEntry, Goto, Request, InPhase, LeaseTypeOK, Operations, Phases
    <2>2. CASE AddCreates(w, s)
      <3>1. op[w].left - 1 \in Nat
        BY <1>2, <2>2 DEF AddCreates, InPhase, Local, Runs, LeaseTypeOK, Operations
      <3>2. /\ op[w].pc = "grow" /\ s \notin slots[w] \cup got[w]
            /\ op' = [op EXCEPT ![w].pc = "create", ![w].left = op[w].left - 1]
            /\ task' = [task EXCEPT ![w] = Acquisition(s, "creating")]
        BY <2>2 DEF AddCreates, InPhase
      <3>. QED  BY <1>2, <3>1, <3>2, AttemptFacts DEF Phases
    <2>. QED  BY <2>1, <2>2
  <1>4. /\ task' \in [Workers -> Acquisitions]
        /\ task'[w].file = s
        /\ op[w].pc = "entries" => task'[w].stage = "requested"
        /\ op[w].pc = "grow" => task'[w].stage = "creating"
        /\ \A v \in Workers : v # w => task'[v] = task[v]
    <2>1. LET r == Acquisition(s, "requested")
              c == Acquisition(s, "creating")
          IN  /\ r \in Acquisitions /\ r.file = s /\ r.stage = "requested"
              /\ c \in Acquisitions /\ c.file = s /\ c.stage = "creating"
      BY ValueFacts
    <2>. QED  BY <1>2, <1>3, <2>1, TaskFacts
  <1>5. LeaseTypeOK'
    BY <1>1, <1>2, <1>3, <1>4 DEF LeaseTypeOK
  <1>6. Awaits(w)' /\ Runs(w)' /\ Has(w)'
    BY <1>1, <1>2, <1>3, <1>4, ValueFacts DEF Local, Awaits, Runs, Has
  <1>7. Granted(w)' /\ Known(w)'
    <2>1. Uses(w)' = Uses(w) /\ slots'[w] \cap got'[w] = {}
      BY <1>1, <1>2 DEF Uses, LeaseFile, Local, Granted
    <2>2. task[w].stage # "ready" /\ task'[w].stage # "ready"
      BY <1>2, <1>3, <1>4, ValueFacts DEF Local, Awaits
    <2>. QED  BY <1>1, <1>2, <2>1, <2>2, SameHandles
  <1>. QED  BY <1>1, <1>3, <1>4, <1>5, <1>6, <1>7, ForegroundStep DEF Local

\* What an operation acquired becomes the pool's.
LEMMA PublishStep ==
    ASSUME LeaseInv, NEW w \in Workers, ResumeFinishes(w) \/ InstallAdopts(w) \/ GrowFinishes(w)
    PROVE  LeaseInv'
  <1>1. UNCHANGED <<present, creating, holder, task, orphan, lease>>
    BY DEF ResumeFinishes, InstallAdopts, GrowFinishes, Adopt, directory, acquisitions
  <1>2. LeaseTypeOK /\ Local(w)
    BY LocalFacts
  <1>3. /\ op' \in [Workers -> Operations]
        /\ \A v \in Workers : v # w => op'[v] = op[v]
        /\ \/ /\ op[w].pc = "entries" /\ op[w].kind = "resume"
              /\ op'[w].pc = "idle" /\ op'[w].kind = "none"
           \/ /\ op[w].pc = "entries" /\ op[w].kind = "install"
              /\ op'[w].pc = "grow" /\ op'[w].kind = "install" /\ op'[w].left = MaxAttempts
           \/ op[w].pc = "grow" /\ op'[w].pc = "idle" /\ op'[w].kind = "none"
    <2>1. CASE ResumeFinishes(w)
      BY <1>2, <2>1, BeginFacts DEF ResumeFinishes, Adopt, InPhase, Idle, Kinds, Phases
    <2>2. CASE InstallAdopts(w)
      BY <1>2, <2>2, EnterFacts DEF InstallAdopts, Adopt, InPhase, Phases
    <2>3. CASE GrowFinishes(w)
      BY <1>2, <2>3, BeginFacts DEF GrowFinishes, InPhase, Idle, Kinds, Phases
    <2>. QED  BY <2>1, <2>2, <2>3
  <1>4. /\ slots' \in [Workers -> SUBSET Slots] /\ got' \in [Workers -> SUBSET Slots]
        /\ slots'[w] = slots[w] \cup got[w] /\ got'[w] = {}
        /\ \A v \in Workers : v # w => slots'[v] = slots[v] /\ got'[v] = got[v]
    <2>1. op[w].pc = "entries" => slots[w] = {}
      BY <1>2 DEF Local, Has
    <2>2. CASE ResumeFinishes(w) \/ InstallAdopts(w)
      BY <1>2, <2>1, <2>2 DEF ResumeFinishes, InstallAdopts, Adopt, InPhase, LeaseTypeOK
    <2>3. CASE GrowFinishes(w)
      BY <1>2, <2>3 DEF GrowFinishes, LeaseTypeOK
    <2>. QED  BY <2>2, <2>3
  <1>5. /\ state' \in [Workers -> {"none", "Active", "Paused"}]
        /\ \A v \in Workers : v # w => state'[v] = state[v]
        /\ op'[w].pc = "idle" => state'[w] = "Active"
        /\ op'[w].pc = "grow" => state'[w] = state[w]
    <2>1. CASE InstallAdopts(w)
      BY <1>2, <2>1, EnterFacts DEF InstallAdopts, LeaseTypeOK, Phases
    <2>2. CASE ResumeFinishes(w) \/ GrowFinishes(w)
      <3>1. op' = [op EXCEPT ![w] = Idle] /\ state' = [state EXCEPT ![w] = "Active"]
        BY <2>2 DEF ResumeFinishes, GrowFinishes
      <3>2. op'[w].pc = "idle"
        BY <1>2, <3>1, BeginFacts DEF Idle, Kinds, Phases
      <3>. QED  BY <1>2, <3>1, <3>2 DEF LeaseTypeOK
    <2>. QED  BY <2>1, <2>2
  <1>6. LeaseTypeOK'
    BY <1>1, <1>2, <1>3, <1>4, <1>5 DEF LeaseTypeOK
  <1>7. Awaits(w)' /\ Runs(w)' /\ Has(w)'
    BY <1>1, <1>2, <1>3, <1>4, <1>5, AttemptAssumption DEF Local, Awaits, Runs, Has
  <1>8. Granted(w)' /\ Known(w)'
    <2>1. Uses(w)' = Uses(w) /\ slots'[w] \cap got'[w] = {}
      BY <1>1, <1>4 DEF Uses, LeaseFile
    <2>2. task[w].stage # "ready" /\ task'[w].stage # "ready"
      BY <1>1, <1>2, <1>3, ValueFacts DEF Local, Awaits
    <2>. QED  BY <1>1, <1>2, <2>1, <2>2, SameHandles
  <1>. QED  BY <1>1, <1>3, <1>4, <1>5, <1>6, <1>7, <1>8, ForegroundStep DEF Local

-----------------------------------------------------------------------------
(* Growing *)

\* The phase after an attempt that found its name taken.
LEMMA TryAnotherFacts ==
    ASSUME LeaseTypeOK, NEW w \in Workers, NEW left \in Nat, TryAnother(w, left)
    PROVE  /\ op' \in [Workers -> Operations] /\ op'[w].kind = op[w].kind
           /\ op'[w].pc \in {"grow", "closing"} /\ (op'[w].pc = "grow" => op'[w].left > 0)
           /\ \A v \in Workers : v # w => op'[v] = op[v]
  <1>1. CASE left = 0
    BY <1>1, EnterFacts DEF TryAnother, Phases
  <1>2. CASE left # 0
    <2>1. op' = [op EXCEPT ![w].pc = "grow", ![w].left = left] /\ left > 0
      BY <1>2 DEF TryAnother
    <2>2. "grow" \in Phases
      BY DEF Phases
    <2>. QED  BY <2>1, <2>2, AttemptFacts
  <1>. QED  BY <1>1, <1>2

\* The random name is that of one of the pool's slots, or of a file with contents.
LEMMA CollisionStep ==
    ASSUME LeaseInv, NEW w \in Workers, AddSkips(w) \/ AddCollides(w)
    PROVE  LeaseInv'
  <1>. DEFINE f == task[w].file
  <1>1. UNCHANGED <<present, creating, state, orphan, lease, slots, got>>
    BY DEF AddSkips, AddCollides, directory, acquisitions, files
  <1>2. LeaseTypeOK /\ Local(w)
    BY LocalFacts
  <1>3. \/ AddSkips(w) /\ op[w].pc = "grow" /\ holder' = holder /\ task' = task
        \/ /\ AddCollides(w) /\ op[w].pc = "create" /\ task[w].stage = "ready"
           /\ holder' = [holder EXCEPT ![f] = Nobody]
           /\ task' = [task EXCEPT ![w] = NoAcquisition]
    BY DEF AddSkips, AddCollides, InPhase, Awaiting, acquisitions
  <1>4. /\ op' \in [Workers -> Operations] /\ op'[w].kind = op[w].kind
        /\ op'[w].pc \in {"grow", "closing"} /\ (op'[w].pc = "grow" => op'[w].left > 0)
        /\ \A v \in Workers : v # w => op'[v] = op[v]
    <2>1. PICK left \in Nat : TryAnother(w, left)
      BY <1>2 DEF AddSkips, AddCollides, InPhase, Local, Runs, LeaseTypeOK, Operations
    <2>. QED  BY <1>2, <2>1, TryAnotherFacts
  <1>5. /\ task' \in [Workers -> Acquisitions] /\ task'[w] = NoAcquisition
        /\ \A v \in Workers : v # w => task'[v] = task[v]
    BY <1>2, <1>3, ValueFacts, TaskFacts DEF Local, Awaits, LeaseTypeOK
  <1>6. AddCollides(w) => f \in Files /\ holder[f] = w /\ f \notin Uses(w) /\ ~Stray(w, f)
    BY <1>2, <1>3, ValueFacts DEF Local, Awaits, Granted, Awaiting, AddCollides, InPhase
  <1>7. /\ holder' \in [Files -> Workers \cup {Nobody}]
        /\ \A g \in Files : g # f => holder'[g] = holder[g]
        /\ holder' = holder \/ (f \in Files /\ holder[f] = w /\ holder'[f] = Nobody)
    BY <1>2, <1>3, <1>6 DEF LeaseTypeOK
  <1>8. LeaseTypeOK'
    BY <1>1, <1>2, <1>4, <1>5, <1>7 DEF LeaseTypeOK
  <1>9. Awaits(w)' /\ Runs(w)' /\ Has(w)'
    BY <1>1, <1>2, <1>3, <1>4, <1>5 DEF Local, Awaits, Runs, Has
  <1>10. Uses(w)' = Uses(w) /\ Uses(w) \subseteq Files
    BY <1>1, <1>2, ValueFacts DEF Uses, LeaseFile, LeaseTypeOK
  <1>11. \A g : Stray(w, g)' <=> Stray(w, g)
    BY <1>1, SameStrays
  <1>12. Granted(w)'
    <2>1. f \notin Uses(w)
      <3>1. AddSkips(w) => f = NoFile
        BY <1>2, ValueFacts DEF AddSkips, InPhase, Local, Awaits
      <3>. QED  BY <1>6, <1>10, <3>1, ValueFacts
    <2>2. ~Awaiting(w, "ready")'
      BY <1>5, ValueFacts DEF Awaiting
    <2>3. \A g \in Uses(w) : holder'[g] = w /\ ~Stray(w, g)
      BY <1>2, <1>7, <1>10, <2>1 DEF Local, Granted
    <2>4. slots'[w] \cap got'[w] = {}
      BY <1>1, <1>2 DEF Local, Granted
    <2>. QED  BY <1>10, <1>11, <2>2, <2>3, <2>4 DEF Granted
  <1>13. Known(w)'
    <2>1. CASE AddSkips(w)
      <3>1. holder' = holder /\ task[w] = NoAcquisition
        BY <1>2, <2>1 DEF AddSkips, InPhase, Local, Awaits
      <3>. QED  BY <1>2, <1>5, <1>10, <1>11, <3>1 DEF Local, Known, Awaiting
    <2>2. CASE AddCollides(w)
      <3>1. f \in Files /\ holder'[f] = Nobody /\ holder[f] = w
        BY <1>2, <1>6, <2>2 DEF AddCollides, LeaseTypeOK
      <3>. QED  BY <1>2, <1>5, <1>7, <1>10, <1>11, <3>1, WorkerAssumption DEF Local, Known, Awaiting
    <2>. QED  BY <2>1, <2>2
  <1>. QED  BY <1>1, <1>3, <1>4, <1>5, <1>6, <1>7, <1>8, <1>9, <1>12, <1>13, ForegroundStep DEF Local

\* get_file_handle creates the file, and its handle is asked for.
LEMMA AddRequestsStep ==
    ASSUME LeaseInv, NEW w \in Workers, AddRequests(w)
    PROVE  LeaseInv'
  <1>. DEFINE f == task[w].file
  <1>1. /\ task[w].stage = "creating" /\ present' = present \cup {f}
        /\ task' = [task EXCEPT ![w] = Acquisition(f, "requested")]
        /\ UNCHANGED <<creating, holder, state, op, orphan, lease, slots, got>>
    BY DEF AddRequests, Awaiting, Request, files
  <1>2. LeaseTypeOK /\ Local(w)
    BY LocalFacts
  <1>3. op[w].pc = "create" /\ f \in Slots
    BY <1>1, <1>2, ValueFacts DEF Local, Awaits, LeaseTypeOK, Operations, Phases
  <1>4. /\ task' \in [Workers -> Acquisitions] /\ task'[w].file = f /\ task'[w].stage = "requested"
        /\ \A v \in Workers : v # w => task'[v] = task[v]
    <2>1. LET a == Acquisition(f, "requested")
          IN  a \in Acquisitions /\ a.file = f /\ a.stage = "requested"
      BY <1>3, ValueFacts
    <2>. QED  BY <1>1, <1>2, <2>1, TaskFacts
  <1>5. LeaseTypeOK'
    BY <1>1, <1>2, <1>3, <1>4 DEF LeaseTypeOK
  <1>6. Awaits(w)' /\ Runs(w)' /\ Has(w)'
    BY <1>1, <1>2, <1>3, <1>4 DEF Local, Awaits, Runs, Has
  <1>7. Granted(w)' /\ Known(w)'
    <2>1. Uses(w)' = Uses(w) /\ slots'[w] \cap got'[w] = {}
      BY <1>1, <1>2 DEF Uses, LeaseFile, Local, Granted
    <2>. QED  BY <1>1, <1>2, <1>4, <2>1, SameHandles
  <1>. QED  BY <1>1, <1>4, <1>5, <1>6, <1>7, ForegroundStep DEF Local

-----------------------------------------------------------------------------
(* Giving up and releasing *)

\* The future is dropped, or a step of it fails: a stored handle is closed, a
\* pending one goes on in the background.
LEMMA GiveUpStep ==
    ASSUME LeaseInv, NEW w \in Workers, GiveUp(w)
    PROVE  LeaseInv'
  <1>1. /\ op[w].pc \notin {"idle", "closing"}
        /\ task' = [task EXCEPT ![w] = NoAcquisition] /\ Enter(w, "closing")
        /\ UNCHANGED <<present, state, lease, slots, got>>
    BY DEF GiveUp, Abandon, files
  <1>2. LeaseTypeOK /\ StraysAreGranted /\ Local(w)
    BY LocalFacts
  <1>3. PICK f : f = task[w].file
    OBVIOUS
  <1>4. /\ task' \in [Workers -> Acquisitions] /\ task'[w] = NoAcquisition
        /\ \A v \in Workers : v # w => task'[v] = task[v]
    BY <1>1, <1>2, ValueFacts, TaskFacts
  <1>5. /\ op' \in [Workers -> Operations] /\ op'[w].pc = "closing" /\ op'[w].kind = op[w].kind
        /\ \A v \in Workers : v # w => op'[v] = op[v]
    BY <1>1, <1>2, EnterFacts DEF Phases
  <1>6. /\ task[w].stage # "none" => f \in Files
        /\ task[w].stage = "creating" => f \in Slots
        /\ task[w].stage = "ready" => holder[f] = w /\ ~Stray(w, f) /\ f \notin Uses(w)
    BY <1>2, <1>3, ValueFacts DEF Local, Awaits, Granted, Awaiting, LeaseTypeOK, Operations, Phases
  <1>7. creating' \subseteq Slots
    BY <1>2, <1>3, <1>6 DEF GiveUp, Abandon, Awaiting, LeaseTypeOK
  <1>8. Awaits(w)' /\ Runs(w)' /\ Has(w)'
    BY <1>1, <1>2, <1>4, <1>5 DEF Local, Awaits, Runs, Has
  <1>9. Uses(w)' = Uses(w) /\ Uses(w) \subseteq Files
    BY <1>1, <1>2, ValueFacts DEF Uses, LeaseFile, LeaseTypeOK
  <1>10. CASE task[w].stage # "requested"
    <2>1. /\ orphan' = orphan
          /\ holder' = IF task[w].stage = "ready" THEN [holder EXCEPT ![f] = Nobody] ELSE holder
      BY <1>3, <1>10 DEF GiveUp, Abandon, Awaiting
    <2>2. /\ holder' \in [Files -> Workers \cup {Nobody}]
          /\ \A g \in Files : g # f => holder'[g] = holder[g]
          /\ task[w].stage = "ready" => holder'[f] = Nobody
          /\ task[w].stage # "ready" => holder' = holder
      BY <1>2, <1>6, <2>1 DEF LeaseTypeOK
    <2>3. LeaseTypeOK'
      BY <1>1, <1>2, <1>4, <1>5, <1>7, <2>1, <2>2 DEF LeaseTypeOK
    <2>4. \A g : Stray(w, g)' <=> Stray(w, g)
      BY <2>1, SameStrays
    <2>5. Granted(w)'
      BY <1>1, <1>2, <1>4, <1>6, <1>9, <2>2, <2>4, ValueFacts DEF Local, Granted, Awaiting
    <2>6. Known(w)'
      BY <1>2, <1>3, <1>4, <1>6, <1>9, <2>2, <2>4, WorkerAssumption DEF Local, Known, Awaiting
    <2>. QED  BY <1>1, <1>4, <1>5, <1>6, <1>8, <2>1, <2>2, <2>3, <2>5, <2>6, ForegroundStep DEF Local
  <1>11. CASE task[w].stage = "requested"
    <2>1. PICK t \in Tasks : orphan[t] = NoOrphan
                          /\ orphan' = [orphan EXCEPT ![t] = Orphan(w, f, "requested")]
      BY <1>3, <1>11 DEF GiveUp, Abandon, Awaiting
    <2>2. holder' = holder
      BY <1>11 DEF GiveUp, Abandon, Awaiting
    <2>3. /\ orphan' \in [Tasks -> Orphans] /\ orphan'[t] = Orphan(w, f, "requested")
          /\ orphan'[t].stage = "requested" /\ orphan[t].stage = "none"
          /\ \A u \in Tasks : u # t => orphan'[u] = orphan[u]
      BY <1>2, <1>6, <1>11, <2>1, OrphanFacts DEF LeaseTypeOK
    <2>4. LeaseTypeOK'
      BY <1>1, <1>2, <1>4, <1>5, <1>7, <2>2, <2>3 DEF LeaseTypeOK
    <2>5. \A v \in Workers, g \in Files : Stray(v, g)' <=> Stray(v, g)
      <3>1. \A v \in Workers, g \in Files : /\ orphan'[t] # Orphan(v, g, "granted")
                                            /\ orphan[t] # Orphan(v, g, "granted")
        BY <2>3, OrphanFacts
      <3>. QED  BY <2>3, <3>1 DEF Stray
    <2>6. StraysAreGranted'
      BY <1>2, <2>2, <2>3 DEF StraysAreGranted
    <2>7. Granted(w)' /\ Known(w)'
      BY <1>1, <1>2, <1>4, <1>9, <1>11, <2>2, <2>5, ValueFacts DEF Local, Granted, Known, Awaiting
    <2>. QED  BY <1>1, <1>4, <1>5, <1>8, <2>2, <2>4, <2>5, <2>6, <2>7, WorkerStep DEF Local
  <1>. QED  BY <1>10, <1>11

\* pause and uninstall stop the pool and begin to close its handles.
LEMMA ReleaseStep ==
    ASSUME LeaseInv, NEW w \in Workers, Pause(w) \/ Uninstall(w)
    PROVE  LeaseInv'
  <1>1. /\ op[w].pc = "idle" /\ op' = [op EXCEPT ![w] = Operation("release", "closing")]
        /\ UNCHANGED <<present, creating, holder, task, orphan, lease, slots, got>>
    BY DEF Pause, Uninstall, InPhase, directory, acquisitions, files
  <1>2. LeaseTypeOK /\ Local(w)
    BY LocalFacts
  <1>3. /\ op' \in [Workers -> Operations] /\ op'[w].kind = "release" /\ op'[w].pc = "closing"
        /\ \A v \in Workers : v # w => op'[v] = op[v]
    BY <1>1, <1>2, BeginFacts DEF Kinds, Phases
  <1>4. /\ state' \in [Workers -> {"none", "Active", "Paused"}] /\ state'[w] # "Active"
        /\ \A v \in Workers : v # w => state'[v] = state[v]
    BY <1>2 DEF Pause, Uninstall, LeaseTypeOK
  <1>5. LeaseTypeOK'
    BY <1>1, <1>2, <1>3, <1>4 DEF LeaseTypeOK
  <1>6. Awaits(w)' /\ Runs(w)' /\ Has(w)'
    BY <1>1, <1>2, <1>3, <1>4 DEF Local, Awaits, Runs, Has
  <1>7. Granted(w)' /\ Known(w)'
    <2>1. Uses(w)' = Uses(w) /\ slots'[w] \cap got'[w] = {}
      BY <1>1, <1>2 DEF Uses, LeaseFile, Local, Granted
    <2>2. task[w].stage # "ready" /\ task'[w].stage # "ready"
      BY <1>1, <1>2, ValueFacts DEF Local, Awaits
    <2>. QED  BY <1>1, <1>2, <2>1, <2>2, SameHandles
  <1>. QED  BY <1>1, <1>3, <1>4, <1>5, <1>6, <1>7, ForegroundStep DEF Local

\* A SyncAccessFile is dropped.
LEMMA CloseStep ==
    ASSUME LeaseInv, NEW w \in Workers, NEW f \in Files, Close(w, f)
    PROVE  LeaseInv'
  <1>1. /\ op[w].pc = "closing" /\ f \in ClosesNext(w)
        /\ holder' = [holder EXCEPT ![f] = Nobody]
        /\ lease' = [lease EXCEPT ![w] = lease[w] /\ f # Lock]
        /\ slots' = [slots EXCEPT ![w] = slots[w] \ {f}]
        /\ got' = [got EXCEPT ![w] = got[w] \ {f}]
        /\ UNCHANGED <<present, creating, state, op, task, orphan>>
    BY DEF Close, InPhase, directory, acquisitions
  <1>2. LeaseTypeOK /\ Local(w)
    BY LocalFacts
  <1>3. /\ holder' \in [Files -> Workers \cup {Nobody}] /\ holder'[f] = Nobody
        /\ \A g \in Files : g # f => holder'[g] = holder[g]
    BY <1>1, <1>2 DEF LeaseTypeOK
  <1>4. /\ lease' \in [Workers -> BOOLEAN] /\ lease'[w] = (lease[w] /\ f # Lock)
        /\ slots' \in [Workers -> SUBSET Slots] /\ slots'[w] = slots[w] \ {f}
        /\ got' \in [Workers -> SUBSET Slots] /\ got'[w] = got[w] \ {f}
        /\ \A v \in Workers : v # w =>
              lease'[v] = lease[v] /\ slots'[v] = slots[v] /\ got'[v] = got[v]
    BY <1>1, <1>2 DEF LeaseTypeOK
  <1>5. LeaseTypeOK'
    BY <1>1, <1>2, <1>3, <1>4 DEF LeaseTypeOK
  <1>6. f \in Uses(w) /\ Uses(w)' = Uses(w) \ {f} /\ Uses(w) \subseteq Files
    <2>1. f \in Uses(w)
      BY <1>1 DEF ClosesNext, FirstOf, Uses, LeaseFile
    <2>2. Uses(w)' = Uses(w) \ {f}
      BY <1>2, <1>4, ValueFacts DEF Uses, LeaseFile, LeaseTypeOK
    <2>3. Uses(w) \subseteq Files
      BY <1>2, ValueFacts DEF Uses, LeaseFile, LeaseTypeOK
    <2>. QED  BY <2>1, <2>2, <2>3
  <1>7. f = Lock => op[w].kind = "install" \/ (slots[w] = {} /\ got[w] = {})
    BY <1>1, <1>2, ValueFacts DEF ClosesNext, FirstOf, LeaseFile, LeaseTypeOK
  <1>8. f = Lock => op[w].kind # "add"
    BY <1>1, <1>2, ValueFacts DEF ClosesNext, FirstOf, LeaseFile, LeaseTypeOK
  <1>9. Awaits(w)' /\ Runs(w)'
    BY <1>1, <1>2 DEF Local, Awaits, Runs
  <1>10. Has(w)'
    <2>1. state[w] = "Active" => op[w].kind = "add"
      BY <1>1, <1>2 DEF Local, Runs, LeaseTypeOK, Operations, Kinds
    <2>. QED  BY <1>1, <1>2, <1>4, <1>7, <1>8, <2>1 DEF Local, Has
  <1>11. holder[f] = w /\ ~Stray(w, f) /\ task[w] = NoAcquisition
    BY <1>1, <1>2, <1>6 DEF Local, Granted, Awaits
  <1>12. \A g : Stray(w, g)' <=> Stray(w, g)
    BY <1>1, SameStrays
  <1>13. Granted(w)'
    BY <1>1, <1>2, <1>3, <1>4, <1>6, <1>11, <1>12, ValueFacts DEF Local, Granted, Awaiting
  <1>14. Known(w)'
    BY <1>1, <1>2, <1>3, <1>6, <1>12, WorkerAssumption DEF Local, Known, Awaiting
  <1>. QED  BY <1>1, <1>3, <1>4, <1>5, <1>9, <1>10, <1>11, <1>13, <1>14, ForegroundStep DEF Local

\* Everything to close is closed.
LEMMA ClosedStep ==
    ASSUME LeaseInv, NEW w \in Workers, Closed(w)
    PROVE  LeaseInv'
  <1>1. /\ op[w].pc = "closing" /\ ClosesNext(w) = {}
        /\ op' = [op EXCEPT ![w] = Operation("none", "idle")]
        /\ UNCHANGED <<present, creating, holder, state, task, orphan, lease, slots, got>>
    BY DEF Closed, InPhase, Idle, directory, acquisitions, files
  <1>2. LeaseTypeOK /\ Local(w)
    BY LocalFacts
  <1>3. /\ op' \in [Workers -> Operations] /\ op'[w].kind = "none" /\ op'[w].pc = "idle"
        /\ \A v \in Workers : v # w => op'[v] = op[v]
    BY <1>1, <1>2, BeginFacts DEF Kinds, Phases
  <1>4. LeaseTypeOK'
    BY <1>1, <1>2, <1>3 DEF LeaseTypeOK
  <1>5. got[w] = {} /\ (op[w].kind # "add" => ~lease[w] /\ slots[w] = {})
    BY <1>1 DEF ClosesNext, FirstOf, LeaseFile
  <1>6. Awaits(w)' /\ Runs(w)' /\ Has(w)'
    BY <1>1, <1>2, <1>3, <1>5 DEF Local, Awaits, Runs, Has
  <1>7. Granted(w)' /\ Known(w)'
    <2>1. Uses(w)' = Uses(w) /\ slots'[w] \cap got'[w] = {}
      BY <1>1, <1>2 DEF Uses, LeaseFile, Local, Granted
    <2>2. task[w].stage # "ready" /\ task'[w].stage # "ready"
      BY <1>1, <1>2, ValueFacts DEF Local, Awaits
    <2>. QED  BY <1>1, <1>2, <2>1, <2>2, SameHandles
  <1>. QED  BY <1>1, <1>3, <1>4, <1>6, <1>7, ForegroundStep DEF Local

\* The browser closes the handles of a worker that ends, and no others.
LEMMA WorkerDiesStep ==
    ASSUME LeaseInv, NEW w \in Workers, WorkerDies(w)
    PROVE  LeaseInv'
  <1>1. LeaseTypeOK /\ StraysAreGranted /\ Local(w)
    BY LocalFacts
  <1>2. /\ holder' \in [Files -> Workers \cup {Nobody}]
        /\ \A f \in Files : holder'[f] = IF holder[f] = w THEN Nobody ELSE holder[f]
    BY <1>1 DEF WorkerDies, LeaseTypeOK
  <1>3. /\ op' \in [Workers -> Operations] /\ op'[w].kind = "none" /\ op'[w].pc = "idle"
        /\ \A v \in Workers : v # w => op'[v] = op[v]
    BY <1>1, BeginFacts DEF WorkerDies, Idle, Kinds, Phases
  <1>4. /\ task' \in [Workers -> Acquisitions] /\ task'[w] = NoAcquisition
        /\ \A v \in Workers : v # w => task'[v] = task[v]
    BY <1>1, ValueFacts, TaskFacts DEF WorkerDies
  <1>5. /\ orphan' \in [Tasks -> Orphans]
        /\ \A t \in Tasks : orphan'[t] = IF orphan[t].worker = w THEN NoOrphan ELSE orphan[t]
    BY <1>1 DEF WorkerDies, LeaseTypeOK, Orphans
  <1>6. /\ state' \in [Workers -> {"none", "Active", "Paused"}] /\ state'[w] = "none"
        /\ lease' \in [Workers -> BOOLEAN] /\ lease'[w] = FALSE
        /\ slots' \in [Workers -> SUBSET Slots] /\ slots'[w] = {}
        /\ got' \in [Workers -> SUBSET Slots] /\ got'[w] = {}
        /\ \A v \in Workers : v # w => /\ state'[v] = state[v] /\ lease'[v] = lease[v]
                                       /\ slots'[v] = slots[v] /\ got'[v] = got[v]
    BY <1>1 DEF WorkerDies, LeaseTypeOK
  <1>7. present' \subseteq Slots /\ creating' \subseteq Slots
    <2>1. Awaiting(w, "creating") => task[w].file \in Slots
      BY <1>1, ValueFacts DEF Local, Awaits, Awaiting, LeaseTypeOK, Operations, Phases
    <2>. QED  BY <1>1, <2>1 DEF WorkerDies, LeaseTypeOK
  <1>8. LeaseTypeOK'
    BY <1>2, <1>3, <1>4, <1>5, <1>6, <1>7 DEF LeaseTypeOK
  <1>9. Awaits(w)' /\ Runs(w)' /\ Has(w)'
    BY <1>3, <1>4, <1>6 DEF Awaits, Runs, Has
  <1>10. \A v \in Workers, f \in Files : v # w => (Stray(v, f)' <=> Stray(v, f))
    BY <1>5, OrphanFacts, WorkerAssumption DEF Stray
  <1>11. StraysAreGranted'
    <2>1. SUFFICES ASSUME NEW t \in Tasks, orphan'[t].stage = "granted"
                   PROVE  /\ holder'[orphan'[t].file] = orphan'[t].worker
                          /\ \A u \in Tasks \ {t} : orphan'[u] # orphan'[t]
      BY DEF StraysAreGranted
    <2>2. /\ orphan'[t] = orphan[t] /\ orphan[t].worker # w /\ orphan[t].stage = "granted"
          /\ orphan[t].file \in Files
      BY <1>1, <1>5, <2>1, OrphanFacts DEF LeaseTypeOK
    <2>3. holder[orphan[t].file] = orphan[t].worker /\ \A u \in Tasks \ {t} : orphan[u] # orphan[t]
      BY <1>1, <2>2 DEF StraysAreGranted
    <2>. QED  BY <1>2, <1>5, <2>2, <2>3, OrphanFacts
  <1>12. Granted(w)' /\ Known(w)'
    <2>1. Uses(w)' = {} /\ task'[w].stage # "ready" /\ \A f \in Files : holder'[f] # w
      BY <1>2, <1>4, <1>6, ValueFacts, WorkerAssumption DEF Uses, LeaseFile
    <2>. QED  BY <1>6, <2>1 DEF Granted, Known, Awaiting
  <1>. QED  BY <1>2, <1>3, <1>4, <1>6, <1>8, <1>9, <1>10, <1>11, <1>12, WorkerStep DEF Local

-----------------------------------------------------------------------------
(* The theorems *)

\* No worker has anything at first.
LEMMA InitialLease ==
    ASSUME Init
    PROVE  LeaseInv
  <1>1. LeaseTypeOK
    <2>1. Idle \in Operations
      BY ValueFacts DEF Idle, Kinds, Phases
    <2>. QED  BY <2>1, ValueFacts DEF Init, LeaseTypeOK, Orphans
  <1>2. StraysAreGranted
    BY OrphanFacts DEF Init, StraysAreGranted
  <1>3. ASSUME NEW w \in Workers
        PROVE  Local(w)
    <2>1. /\ op[w].pc = "idle" /\ op[w].kind = "none" /\ task[w] = NoAcquisition
          /\ state[w] = "none" /\ lease[w] = FALSE /\ slots[w] = {} /\ got[w] = {}
          /\ \A f \in Files : holder[f] = Nobody
      BY ValueFacts DEF Init, Idle, Kinds, Phases
    <2>2. Awaits(w) /\ Runs(w) /\ Has(w)
      BY <2>1 DEF Awaits, Runs, Has
    <2>3. Granted(w) /\ Known(w)
      BY <2>1, ValueFacts, WorkerAssumption DEF Granted, Known, Awaiting, Uses, LeaseFile
    <2>. QED  BY <2>2, <2>3 DEF Local
  <1>. QED  BY <1>1, <1>2, <1>3, LocalFacts

\* No step of a worker, of the browser or of a task in the background breaks it.
LEMMA LeaseInvStep ==
    ASSUME LeaseInv, [Next]_vars
    PROVE  LeaseInv'
  <1>1. ASSUME NEW w \in Workers, Progress(w)
        PROVE  LeaseInv'
    BY <1>1, GrantStep, RefuseStep, TakeStep, PublishStep, RequestStep, CollisionStep,
       AddRequestsStep, CloseStep, ClosedStep
       DEF Progress
  <1>2. ASSUME NEW w \in Workers, Choice(w)
        PROVE  LeaseInv'
    BY <1>2, BeginStep, GiveUpStep, ReleaseStep, WorkerDiesStep DEF Choice
  <1>3. CASE \E t \in Tasks : Background(t)
    BY <1>3, BackgroundStep
  <1>4. CASE \E s \in Slots : CreationLands(s)
    BY <1>4, CreationLandsStep
  <1>5. CASE UNCHANGED vars
    BY <1>5 DEF vars, directory, acquisitions, files, LeaseInv, LeaseTypeOK, Awaits, Runs, Has,
       HandlesAreGranted, HandlesAreKnown, Uses, LeaseFile, Awaiting, Stray
  <1>. QED  BY <1>1, <1>2, <1>3, <1>4, <1>5 DEF Next

\* The inductive invariant holds in every state of every set of workers.
THEOREM LeaseInvariant == Spec => []LeaseInv
  <1>1. Init => LeaseInv
    BY InitialLease
  <1>2. LeaseInv /\ [Next]_vars => LeaseInv'
    BY LeaseInvStep
  <1>. QED  BY <1>1, <1>2, PTL DEF Spec

\* A SyncAccessFile is always a handle the browser grants its worker, and no
\* background task closes a handle that is in use.
THEOREM HandlesStayGranted == Spec => []HandlesAreGranted
  <1>1. LeaseInv => HandlesAreGranted
    BY DEF LeaseInv
  <1>. QED  BY <1>1, LeaseInvariant, PTL

\* Two workers never have the lease.
LEMMA OneLease ==
    ASSUME LeaseInv, NEW w \in Workers, NEW v \in Workers, lease[w], lease[v]
    PROVE  w = v
  <1>1. Lock \in Uses(w) /\ Lock \in Uses(v)
    BY DEF Uses, LeaseFile
  <1>. QED  BY <1>1 DEF LeaseInv, HandlesAreGranted

\* The .lock file gives a directory at most one active, growing or adopting pool.
THEOREM OnePoolPerDirectory == Spec => []DirectoryHasOnePool
  <1>1. ASSUME LeaseInv, NEW w \in Workers, NEW v \in Workers \ {w},
               state[w] = "Active"
        PROVE  state[v] # "Active" /\ op[v].pc \notin {"entries", "slot", "grow", "create"}
    <2>1. lease[w]
      BY <1>1 DEF LeaseInv, Has
    <2>2. ~lease[v]
      BY <1>1, <2>1, OneLease
    <2>3. Has(v)
      BY <1>1 DEF LeaseInv
    <2>. QED  BY <2>2, <2>3 DEF Has
  <1>2. LeaseInv => DirectoryHasOnePool
    BY <1>1 DEF DirectoryHasOnePool
  <1>. QED  BY <1>2, LeaseInvariant, PTL

\* Whoever has the lease finds every slot free, but for handles of cancelled
\* acquisitions and of a pool that install is dropping.
THEOREM LeaseholderFindsSlots == Spec => []LeaseFindsSlotsFree
  <1>1. ASSUME LeaseInv, NEW w \in Workers, NEW v \in Workers, NEW s \in Slots,
               lease[w], v # w, holder[s] = v
        PROVE  Stray(v, s) \/ (op[v].kind = "install" /\ op[v].pc = "closing")
    <2>1. ~lease[v]
      BY <1>1, OneLease
    <2>2. s \in Uses(v) => s \in slots[v] \cup got[v]
      BY <2>1 DEF Uses, LeaseFile
    <2>3. LeaseTypeOK /\ Local(v)
      BY <1>1, LocalFacts
    <2>4. task[v].file = s /\ Awaiting(v, "ready") => op[v].pc \in {"slot", "create"}
      BY <2>3, ValueFacts DEF Local, LeaseTypeOK, Awaits, Awaiting, Operations, Phases
    <2>5. s \in Uses(v) \/ (task[v].file = s /\ Awaiting(v, "ready")) \/ Stray(v, s)
      BY <1>1, ValueFacts DEF LeaseInv, HandlesAreKnown
    <2>. QED  BY <2>1, <2>2, <2>3, <2>4, <2>5 DEF Local, Has
  <1>2. LeaseInv => LeaseFindsSlotsFree
    BY <1>1 DEF LeaseFindsSlotsFree, InPhase
  <1>. QED  BY <1>2, LeaseInvariant, PTL

===============================================================================
