--------------------------- MODULE GpuArrayProofs ---------------------------
(***************************************************************************)
(* Theorems about GpuArray, for any arrays, any program habits and any     *)
(* number of writes.                                                       *)
(***************************************************************************)
EXTENDS GpuArray, TLAPS

(* What each residency says of the two copies; a kernel's outputs are the  *)
(* exception until they are marked.                                        *)
HostIsNewest(a) ==
  \/ residency[a] \in {"HostOnly", "HostDirty"}
  \/ residency[a] = "Synced" /\ a \notin unmarked
  => host[a] = newest[a]

DeviceIsNewest(a) ==
  a \notin Empty /\ residency[a] \in {"Synced", "DeviceOnly"} => dev[a] = newest[a]

OnDevice(a) == a \in bound \union unmarked => residency[a] \in {"Synced", "DeviceOnly"}

NothingForEmpty(a) == a \in Empty => storage[a] = "none"

Coherent(a) == HostIsNewest(a) /\ DeviceIsNewest(a) /\ OnDevice(a) /\ NothingForEmpty(a)

MarkedBeforeBound == bound # {} => unmarked = {}

Coherence == Shapes /\ (\A a \in Arrays : Coherent(a)) /\ MarkedBeforeBound

AnyStep == ArrayNext \/ \E a \in Arrays : Panics(a)

LEMMA CoherenceInit == ArrayInit => Coherence
<1> SUFFICES ASSUME ArrayInit PROVE Coherence
  OBVIOUS
<1>1. 0 \in Writes
  BY ArrayAssumption DEF Writes
<1>2. Shapes
  BY <1>1 DEF ArrayInit, Shapes, Residencies
<1>3. \A a \in Arrays : Coherent(a)
  BY DEF ArrayInit, Coherent, HostIsNewest, DeviceIsNewest, OnDevice, NothingForEmpty
<1>4. MarkedBeforeBound
  BY DEF ArrayInit, MarkedBeforeBound
<1> QED BY <1>2, <1>3, <1>4 DEF Coherence

LEMMA ShapesStep == Shapes /\ [AnyStep]_arrayVars => Shapes'
<1> USE ArrayAssumption DEF Shapes, Writes, NoView, Residencies
<1> SUFFICES ASSUME Shapes, [AnyStep]_arrayVars PROVE Shapes'
  OBVIOUS
<1>1. ASSUME NEW a \in Arrays, EnsureEmpty(a) PROVE Shapes'
  BY <1>1 DEF EnsureEmpty, Goes, histVars
<1>2. ASSUME NEW a \in Arrays, EnsureUpload(a) PROVE Shapes'
  BY <1>2 DEF EnsureUpload, Goes, histVars
<1>3. ASSUME NEW a \in Arrays, EnsureReupload(a) PROVE Shapes'
  BY <1>3 DEF EnsureReupload, Goes, histVars
<1>4. ASSUME NEW a \in Arrays, EnsureResident(a) PROVE Shapes'
  BY <1>4 DEF EnsureResident, copies, histVars
<1>5. ASSUME NEW a \in Arrays, EnsureFails(a) PROVE Shapes'
  BY <1>5 DEF EnsureFails, copies, histVars
<1>6. ASSUME NEW a \in Arrays, MarkDeviceDirty(a) PROVE Shapes'
  BY <1>6 DEF MarkDeviceDirty, Goes, histVars
<1>7. ASSUME NEW a \in Arrays, Deref(a) PROVE Shapes'
  <2>1. host' \in [Arrays -> Writes]
    BY <1>7 DEF Deref, SyncedHost
  <2>2. residency' \in [Arrays -> Residencies]
    BY <1>7 DEF Deref
  <2>3. view' \in [Arrays -> Writes \union {NoView}]
    BY <1>7, <2>1 DEF Deref
  <2> QED BY <1>7, <2>1, <2>2, <2>3 DEF Deref, launchVars
<1>8. ASSUME NEW a \in Arrays, DropView(a) PROVE Shapes'
  BY <1>8 DEF DropView, copies, launchVars, histVars
<1>9. ASSUME NEW a \in Arrays, DerefMut(a) PROVE Shapes'
  <2>1. newest[a] + 1 \in Writes
    BY <1>9 DEF DerefMut
  <2> QED BY <1>9, <2>1 DEF DerefMut, Goes, launchVars
<1>10. ASSUME NEW outs \in SUBSET Arrays, Launch(outs) PROVE Shapes'
  <2>1. \A a \in outs : newest[a] + 1 \in Writes
    BY <1>10 DEF Launch
  <2>2. newest' \in [Arrays -> Writes] /\ dev' \in [Arrays -> Writes]
    BY <1>10, <2>1 DEF Launch
  <2> QED BY <1>10, <2>2 DEF Launch
<1>11. ASSUME NEW a \in Arrays, Panics(a) PROVE Shapes'
  BY <1>11 DEF Panics, EnsurePanics, DerefPanics, copies, launchVars, histVars
<1>12. CASE UNCHANGED arrayVars
  BY <1>12 DEF arrayVars, copies, launchVars, histVars
<1> QED
  BY <1>1, <1>2, <1>3, <1>4, <1>5, <1>6, <1>7, <1>8, <1>9, <1>10, <1>11, <1>12
  DEF AnyStep, ArrayNext, Bind, Access

LEMMA CoherenceStep == Coherence /\ [AnyStep]_arrayVars => Coherence'
<1> SUFFICES ASSUME Coherence, [AnyStep]_arrayVars PROVE Coherence'
  OBVIOUS
<1>0. Shapes'
  BY ShapesStep DEF Coherence
<1> DEFINE Rest == (\A b \in Arrays : Coherent(b)) /\ MarkedBeforeBound
<1> USE DEF Coherence, Shapes, Coherent, HostIsNewest, DeviceIsNewest, OnDevice,
            NothingForEmpty, MarkedBeforeBound, Writes, Residencies
<1>1. ASSUME NEW a \in Arrays, EnsureEmpty(a) PROVE Rest'
  BY <1>1 DEF EnsureEmpty, Binding, Goes, histVars
<1>2. ASSUME NEW a \in Arrays, EnsureUpload(a) PROVE Rest'
  BY <1>2 DEF EnsureUpload, Binding, Goes, histVars
<1>3. ASSUME NEW a \in Arrays, EnsureReupload(a) PROVE Rest'
  BY <1>3 DEF EnsureReupload, Binding, Goes, histVars
<1>4. ASSUME NEW a \in Arrays, EnsureResident(a) PROVE Rest'
  BY <1>4 DEF EnsureResident, Binding, copies, histVars
<1>5. ASSUME NEW a \in Arrays, EnsureFails(a) PROVE Rest'
  BY <1>5 DEF EnsureFails, Binding, copies, histVars
<1>6. ASSUME NEW a \in Arrays, MarkDeviceDirty(a) PROVE Rest'
  BY <1>6 DEF MarkDeviceDirty, Goes, histVars
<1>7. ASSUME NEW a \in Arrays, Deref(a) PROVE Rest'
  BY <1>7 DEF Deref, Reading, StaleOnHost, SyncedHost, launchVars
<1>8. ASSUME NEW a \in Arrays, DropView(a) PROVE Rest'
  BY <1>8 DEF DropView, copies, launchVars, histVars
<1>9. ASSUME NEW a \in Arrays, DerefMut(a) PROVE Rest'
  BY <1>9 DEF DerefMut, Reading, Goes, launchVars
<1>10. ASSUME NEW outs \in SUBSET Arrays, Launch(outs) PROVE Rest'
  BY <1>10 DEF Launch
<1>11. ASSUME NEW a \in Arrays, Panics(a) PROVE Rest'
  BY <1>11 DEF Panics, EnsurePanics, DerefPanics, copies, launchVars, histVars
<1>12. CASE UNCHANGED arrayVars
  BY <1>12 DEF arrayVars, copies, launchVars, histVars
<1>13. Rest'
  BY <1>1, <1>2, <1>3, <1>4, <1>5, <1>6, <1>7, <1>8, <1>9, <1>10, <1>11, <1>12
  DEF AnyStep, ArrayNext, Bind, Access
<1> QED BY <1>0, <1>13

(* Whatever the program does, panicking included, the residency tells      *)
(* which copy holds the newest write.                                      *)
THEOREM CopiesAreCoherent == AnyProgram => []Coherence
<1>1. ArrayInit => Coherence
  BY CoherenceInit
<1>2. Coherence /\ [AnyStep]_arrayVars => Coherence'
  BY CoherenceStep
<1> QED BY <1>1, <1>2, PTL DEF AnyProgram, AnyStep

-----------------------------------------------------------------------------
(* Every step of the code is one of the single copy, or none.              *)
LEMMA InitIsOneCopy == ArrayInit => Copy!CopyInit
  BY DEF ArrayInit, Copy!CopyInit

LEMMA StepIsOneCopy ==
  Coherence /\ [ArrayNext]_arrayVars => [Copy!CopyNext]_Copy!copyVars
<1> SUFFICES ASSUME Coherence, [ArrayNext]_arrayVars
             PROVE  [Copy!CopyNext]_Copy!copyVars
  OBVIOUS
<1> USE DEF Copy!copyVars
<1>1. ASSUME NEW a \in Arrays, Bind(a) PROVE UNCHANGED <<newest, seen>>
  BY <1>1 DEF Bind, EnsureEmpty, EnsureUpload, EnsureReupload, EnsureResident, EnsureFails,
     histVars
<1>2. ASSUME NEW a \in Arrays, MarkDeviceDirty(a) \/ DropView(a)
      PROVE  UNCHANGED <<newest, seen>>
  BY <1>2 DEF MarkDeviceDirty, DropView, histVars
<1>3. ASSUME NEW a \in Arrays, Reading(a), StaleOnHost(a) => storage[a] # "none"
      PROVE  SyncedHost(a)[a] = newest[a]
  <2>1. CASE StaleOnHost(a)
    <3>1. dev[a] = newest[a]
      BY <1>3, <2>1 DEF Coherence, Coherent, DeviceIsNewest, NothingForEmpty, StaleOnHost
    <3>2. host \in [Arrays -> Writes]
      BY DEF Coherence, Shapes
    <3> QED BY <2>1, <3>1, <3>2 DEF SyncedHost
  <2>2. CASE ~StaleOnHost(a)
    BY <1>3, <2>2 DEF Coherence, Shapes, Residencies, Coherent, HostIsNewest, Reading,
       StaleOnHost, SyncedHost
  <2> QED BY <2>1, <2>2
<1>4. ASSUME NEW a \in Arrays, Deref(a) PROVE Copy!HostReads(a)
  <2>1. host'[a] = newest[a] /\ seen' = [b \in {a} |-> host'[a]] /\ newest' = newest
    BY <1>3, <1>4 DEF Deref
  <2> QED BY <2>1 DEF Copy!HostReads
<1>5. ASSUME NEW a \in Arrays, DerefMut(a) PROVE Copy!HostWrites(a)
  <2>1. SyncedHost(a)[a] = newest[a]
    BY <1>3, <1>5 DEF DerefMut
  <2>2. seen' = [b \in {a} |-> SyncedHost(a)[a]] /\ newest' = [newest EXCEPT ![a] = @ + 1]
    BY <1>5 DEF DerefMut
  <2> QED BY <2>1, <2>2 DEF Copy!HostWrites
<1>6. ASSUME NEW outs \in SUBSET Arrays, Launch(outs) PROVE Copy!KernelRuns(bound, outs)
  <2>1. seen' = [a \in bound |-> IF a \in Empty THEN newest[a] ELSE dev[a]]
    BY <1>6 DEF Launch
  <2>2. \A a \in bound : a \notin Empty => dev[a] = newest[a]
    BY DEF Coherence, Shapes, Coherent, DeviceIsNewest, OnDevice
  <2>3. seen' = [a \in bound |-> newest[a]]
    BY <2>1, <2>2
  <2> QED BY <1>6, <2>3 DEF Launch, Copy!KernelRuns
<1>7. ASSUME NEW outs \in SUBSET Arrays, Launch(outs) PROVE Copy!CopyNext
  <2>1. bound \in SUBSET Arrays /\ outs \in SUBSET bound
    BY <1>7 DEF Coherence, Shapes, Launch
  <2> QED BY <1>6, <1>7, <2>1 DEF Copy!CopyNext
<1>8. CASE UNCHANGED arrayVars
  BY <1>8 DEF arrayVars, histVars
<1> QED
  BY <1>1, <1>2, <1>4, <1>5, <1>7, <1>8 DEF ArrayNext, Access, Copy!CopyNext

(* The two copies of every array behave as one, for every program,         *)
(* whatever it does, until a panic stops it.                               *)
THEOREM ArraysImplementOneCopy == ArraySpec => ImplementsOneCopy
<1>1. ArrayInit => Coherence
  BY CoherenceInit
<1>2. Coherence /\ [ArrayNext]_arrayVars => Coherence'
  BY CoherenceStep DEF AnyStep
<1>3. ArrayInit => Copy!CopyInit
  BY InitIsOneCopy
<1>4. Coherence /\ [ArrayNext]_arrayVars => [Copy!CopyNext]_Copy!copyVars
  BY StepIsOneCopy
<1> QED BY <1>1, <1>2, <1>3, <1>4, PTL DEF ArraySpec, ImplementsOneCopy, Copy!CopySpec

-----------------------------------------------------------------------------
(* Without the habits that the state machine does not expect, it never     *)
(* meets a state it does not expect.                                       *)
EmptyStaysPlain ==
  \A a \in Empty : residency[a] \in {"HostOnly", "Synced"} /\ a \notin unmarked

Expected == StorageAsExpected /\ EmptyStaysPlain /\ ~panicked

LEMMA ExpectedStep ==
  ASSUME Habits \intersect {"write_first", "bind_empty"} = {}
  PROVE  Coherence /\ Expected /\ [AnyStep]_arrayVars => Expected'
<1> SUFFICES ASSUME Coherence, Expected, [AnyStep]_arrayVars PROVE Expected'
  OBVIOUS
<1>0. "write_first" \notin Habits /\ "bind_empty" \notin Habits
  OBVIOUS
<1> USE ArrayAssumption DEF Expected, StorageAsExpected, EmptyStaysPlain,
        Coherence, Shapes, Residencies
<1>1. ASSUME NEW a \in Arrays, EnsureEmpty(a) PROVE Expected'
  BY <1>1 DEF EnsureEmpty, Goes
<1>2. ASSUME NEW a \in Arrays, EnsureUpload(a) PROVE Expected'
  BY <1>2 DEF EnsureUpload, Goes
<1>3. ASSUME NEW a \in Arrays, EnsureReupload(a) PROVE Expected'
  BY <1>3 DEF EnsureReupload, Goes
<1>4. ASSUME NEW a \in Arrays, EnsureResident(a) \/ EnsureFails(a) PROVE Expected'
  BY <1>4 DEF EnsureResident, EnsureFails, copies
<1>5. ASSUME NEW a \in Arrays, MarkDeviceDirty(a) PROVE Expected'
  BY <1>5 DEF MarkDeviceDirty, Goes, Coherent, OnDevice
<1>6. ASSUME NEW a \in Arrays, Deref(a) PROVE Expected'
  BY <1>6 DEF Deref, StaleOnHost, launchVars
<1>7. ASSUME NEW a \in Arrays, DropView(a) PROVE Expected'
  BY <1>7 DEF DropView, copies, launchVars
<1>8. ASSUME NEW a \in Arrays, DerefMut(a) PROVE Expected'
  BY <1>0, <1>8 DEF DerefMut, Goes, launchVars
<1>9. ASSUME NEW outs \in SUBSET Arrays, Launch(outs) PROVE Expected'
  BY <1>0, <1>9 DEF Launch
<1>10. ASSUME NEW a \in Arrays, Panics(a) PROVE FALSE
  BY <1>0, <1>10 DEF Panics, EnsurePanics, DerefPanics, Binding, StaleOnHost
<1>11. CASE UNCHANGED arrayVars
  BY <1>11 DEF arrayVars, copies, launchVars
<1> QED
  BY <1>1, <1>2, <1>3, <1>4, <1>5, <1>6, <1>7, <1>8, <1>9, <1>10, <1>11
  DEF AnyStep, ArrayNext, Bind, Access

LEMMA ExpectedInit == ArrayInit => Expected
  BY ArrayAssumption DEF ArrayInit, Expected, StorageAsExpected, EmptyStaysPlain

(* A program that uploads an array before it writes to it, and binds an    *)
(* empty array once and to no output, meets no failing expect, and every   *)
(* array has device storage exactly when it is no longer HostOnly.         *)
THEOREM CarefulProgramsAreSafe ==
  ASSUME Habits \intersect {"write_first", "bind_empty"} = {}
  PROVE  AnyProgram => [](ArrayTypeOK /\ NeverPanics)
<1>1. ArrayInit => Coherence /\ Expected
  BY CoherenceInit, ExpectedInit
<1>2. Coherence /\ Expected /\ [AnyStep]_arrayVars => (Coherence /\ Expected)'
  BY CoherenceStep, ExpectedStep
<1>3. Coherence /\ Expected => ArrayTypeOK /\ NeverPanics
  BY DEF Coherence, Expected, ArrayTypeOK, NeverPanics
<1> QED BY <1>1, <1>2, <1>3, PTL DEF AnyProgram, AnyStep

-----------------------------------------------------------------------------
(* A live view is of a host copy that is not stale.                        *)
ViewsAreFresh ==
  \A a \in Arrays : view[a] # NoView =>
    view[a] = host[a] /\ residency[a] # "DeviceOnly" /\ a \notin unmarked

LEMMA ViewsInit == ArrayInit => ViewsAreFresh
  BY DEF ArrayInit, ViewsAreFresh

LEMMA ViewsStep ==
  ASSUME "hold_view" \notin Habits
  PROVE  Coherence /\ ViewsAreFresh /\ [AnyStep]_arrayVars => ViewsAreFresh'
<1> SUFFICES ASSUME Coherence, ViewsAreFresh, [AnyStep]_arrayVars PROVE ViewsAreFresh'
  OBVIOUS
<1> USE DEF ViewsAreFresh, Coherence, Shapes, Residencies
<1>1. ASSUME NEW a \in Arrays, Bind(a) PROVE ViewsAreFresh'
  BY <1>1 DEF Bind, EnsureEmpty, EnsureUpload, EnsureReupload, EnsureResident, EnsureFails,
     Goes, copies, Binding
<1>2. ASSUME NEW a \in Arrays, MarkDeviceDirty(a) PROVE ViewsAreFresh'
  BY <1>2 DEF MarkDeviceDirty, Goes
<1>3. ASSUME NEW a \in Arrays, Deref(a) PROVE ViewsAreFresh'
  BY <1>3 DEF Deref, Reading, StaleOnHost, SyncedHost, launchVars
<1>4. ASSUME NEW a \in Arrays, DropView(a) PROVE ViewsAreFresh'
  BY <1>4 DEF DropView, copies, launchVars
<1>5. ASSUME NEW a \in Arrays, DerefMut(a) PROVE ViewsAreFresh'
  BY <1>5 DEF DerefMut, Goes, launchVars
<1>6. ASSUME NEW outs \in SUBSET Arrays, Launch(outs) PROVE ViewsAreFresh'
  BY <1>6 DEF Launch
<1>7. ASSUME NEW a \in Arrays, Panics(a) PROVE ViewsAreFresh'
  BY <1>7 DEF Panics, EnsurePanics, DerefPanics, copies, launchVars
<1>8. CASE UNCHANGED arrayVars
  BY <1>8 DEF arrayVars, copies, launchVars
<1> QED
  BY <1>1, <1>2, <1>3, <1>4, <1>5, <1>6, <1>7, <1>8 DEF AnyStep, ArrayNext, Access

(* A live &[T] changes only under a program that keeps it across a launch  *)
(* that writes the array: nothing else that mark_device_dirty and deref    *)
(* allow does it, and the run that finds it changed needs that habit.      *)
THEOREM ViewsAreStableWithoutTheHabit ==
  ASSUME "hold_view" \notin Habits
  PROVE  AnyProgram => []ViewsAreStable
<1>1. ArrayInit => Coherence /\ ViewsAreFresh
  BY CoherenceInit, ViewsInit
<1>2. Coherence /\ ViewsAreFresh /\ [AnyStep]_arrayVars => (Coherence /\ ViewsAreFresh)'
  BY CoherenceStep, ViewsStep
<1>3. ViewsAreFresh => ViewsAreStable
  BY DEF ViewsAreFresh, ViewsAreStable
<1> QED BY <1>1, <1>2, <1>3, PTL DEF AnyProgram, AnyStep
=============================================================================
