------------------------------ MODULE GpuArray ------------------------------
(***************************************************************************)
(* Arrays with a host copy and a device copy (gpu_array.rs), used by a     *)
(* host program that reads and writes them and launches kernels on them.   *)
(* A copy is the number of the write it holds.  A launch binds its arrays  *)
(* one by one, runs to its end (launch synchronizes), and then the program *)
(* marks the arrays the kernel has written; in between the host may use    *)
(* other arrays, and any allocation or copy may fail.                      *)
(***************************************************************************)
EXTENDS Naturals

CONSTANTS Arrays,
          Empty,      \* those of length 0
          Large,      \* those of SIZE_THRESHOLD_BYTES or more
          Habits,     \* what the program does that the state machine does not expect
          MaxWrites   \* bound: writes to one array

ASSUME ArrayAssumption == /\ Empty \subseteq Arrays /\ Large \subseteq Arrays \ Empty
                          /\ Habits \subseteq {"write_first", "bind_empty", "hold_view"}
                          /\ MaxWrites \in Nat

VARIABLES residency, storage, \* of each array, as in the code
          host, dev,          \* the write that each copy holds
          view,               \* the write a live &[T] was given, or NoView
          bound,              \* the arrays bound for the launch that is prepared
          unmarked,           \* the arrays a kernel has written that are not marked yet
          panicked,           \* an expect has failed
          newest, seen        \* history, as in module OneCopy

NoView == MaxWrites + 1   \* no write has this number

copies == <<residency, storage, host, dev>>
launchVars == <<bound, unmarked>>
histVars == <<newest, seen>>
arrayVars == <<copies, view, launchVars, panicked, histVars>>

(* from_vec, from_slice, zeroed.                                           *)
ArrayInit ==
  /\ residency = [a \in Arrays |-> "HostOnly"]
  /\ storage = [a \in Arrays |-> "none"]
  /\ host = [a \in Arrays |-> 0]
  /\ dev = [a \in Arrays |-> 0]
  /\ view = [a \in Arrays |-> NoView]
  /\ bound = {} /\ unmarked = {}
  /\ panicked = FALSE
  /\ newest = [a \in Arrays |-> 0]
  /\ seen = [a \in {} |-> 0]

Goes(a, r) == residency' = [residency EXCEPT ![a] = r]

-----------------------------------------------------------------------------
(* ensure_device.  Of an empty array nothing is allocated, ever; with the  *)
(* habit "bind_empty" such an array is bound again, or written by a        *)
(* kernel, and then its storage is expected.                               *)
Binding(a) == ~panicked /\ unmarked = {} /\ a \notin bound
              /\ (a \in Empty => residency[a] = "HostOnly" \/ "bind_empty" \in Habits)

EnsureEmpty(a) ==
  /\ Binding(a) /\ residency[a] = "HostOnly" /\ a \in Empty
  /\ Goes(a, "Synced")
  /\ bound' = bound \union {a}
  /\ UNCHANGED <<storage, host, dev, view, unmarked, panicked, histVars>>

(* Fault: the storage is not kept.                                         *)
EnsureForgets(a) ==
  /\ Binding(a) /\ residency[a] = "HostOnly" /\ a \notin Empty
  /\ dev' = [dev EXCEPT ![a] = host[a]]
  /\ Goes(a, "Synced")
  /\ bound' = bound \union {a}
  /\ UNCHANGED <<storage, host, view, unmarked, panicked, histVars>>

EnsureUpload(a) ==
  /\ Binding(a) /\ residency[a] = "HostOnly" /\ a \notin Empty
  /\ storage' = [storage EXCEPT ![a] = IF a \in Large THEN "DeviceMem" ELSE "Mapped"]
  /\ dev' = [dev EXCEPT ![a] = host[a]]
  /\ Goes(a, "Synced")
  /\ bound' = bound \union {a}
  /\ UNCHANGED <<host, view, unmarked, panicked, histVars>>

(* Fault: the storage is there, so nothing is copied.                      *)
EnsureNoCopy(a) ==
  /\ Binding(a) /\ residency[a] = "HostDirty" /\ storage[a] # "none"
  /\ Goes(a, "Synced")
  /\ bound' = bound \union {a}
  /\ UNCHANGED <<storage, host, dev, view, unmarked, panicked, histVars>>

EnsureReupload(a) ==
  /\ Binding(a) /\ residency[a] = "HostDirty" /\ storage[a] # "none"
  /\ dev' = [dev EXCEPT ![a] = host[a]]
  /\ Goes(a, "Synced")
  /\ bound' = bound \union {a}
  /\ UNCHANGED <<storage, host, view, unmarked, panicked, histVars>>

EnsureResident(a) ==
  /\ Binding(a) /\ residency[a] \in {"Synced", "DeviceOnly"} /\ storage[a] # "none"
  /\ bound' = bound \union {a}
  /\ UNCHANGED <<copies, view, unmarked, panicked, histVars>>

(* The allocation or the copy fails: nothing of this array has changed,    *)
(* and the launch is given up.  Arrays bound before it keep their copies.  *)
EnsureFails(a) ==
  /\ Binding(a)
  /\ \/ residency[a] = "HostOnly" /\ a \notin Empty
     \/ residency[a] = "HostDirty" /\ storage[a] = "DeviceMem"
  /\ bound' = {}
  /\ UNCHANGED <<copies, view, unmarked, panicked, histVars>>

EnsurePanics(a) ==
  /\ Binding(a) /\ residency[a] # "HostOnly" /\ storage[a] = "none"
  /\ panicked' = TRUE
  /\ UNCHANGED <<copies, view, launchVars, histVars>>

-----------------------------------------------------------------------------
(* The kernel runs: it sees the device copies of its arguments, and writes *)
(* some of them.  A program with the habit "hold_view" holds a view of     *)
(* what the kernel writes.                                                 *)
Launch(outs) ==
  /\ ~panicked /\ bound # {} /\ outs \subseteq bound
  /\ \A a \in outs : newest[a] < MaxWrites
  /\ "bind_empty" \in Habits \/ outs \intersect Empty = {}
  /\ "hold_view" \in Habits \/ \A a \in outs : view[a] = NoView
  /\ dev' = [a \in Arrays |-> IF a \in outs THEN newest[a] + 1 ELSE dev[a]]
  /\ newest' = [a \in Arrays |-> IF a \in outs THEN newest[a] + 1 ELSE newest[a]]
  /\ seen' = [a \in bound |-> IF a \in Empty THEN newest[a] ELSE dev[a]]
  /\ bound' = {} /\ unmarked' = outs
  /\ UNCHANGED <<residency, storage, host, view, panicked>>

(* mark_device_dirty, whose debug_assert the launch has seen to.           *)
MarkDeviceDirty(a) ==
  /\ ~panicked /\ a \in unmarked
  /\ Goes(a, "DeviceOnly")
  /\ unmarked' = unmarked \ {a}
  /\ UNCHANGED <<storage, host, dev, view, bound, panicked, histVars>>

-----------------------------------------------------------------------------
(* deref and try_sync_to_host, of an array that is marked if it was        *)
(* written.  The host copy is replaced if it is stale; the view that is    *)
(* returned may be kept.                                                   *)
Reading(a) == ~panicked /\ a \notin unmarked

StaleOnHost(a) == residency[a] = "DeviceOnly"

SyncedHost(a) == IF StaleOnHost(a) THEN [host EXCEPT ![a] = dev[a]] ELSE host

Deref(a) ==
  /\ Reading(a) /\ (StaleOnHost(a) => storage[a] # "none")
  /\ host' = SyncedHost(a)
  /\ residency' = IF StaleOnHost(a) THEN [residency EXCEPT ![a] = "Synced"] ELSE residency
  /\ seen' = [b \in {a} |-> host'[a]]
  /\ view' = [view EXCEPT ![a] = IF @ = NoView THEN host'[a] ELSE @]
  /\ UNCHANGED <<storage, dev, launchVars, panicked, newest>>

DerefPanics(a) ==
  /\ Reading(a) /\ StaleOnHost(a) /\ storage[a] = "none"
  /\ panicked' = TRUE
  /\ UNCHANGED <<copies, view, launchVars, histVars>>

DropView(a) ==
  /\ ~panicked /\ view[a] # NoView
  /\ view' = [view EXCEPT ![a] = NoView]
  /\ UNCHANGED <<copies, launchVars, panicked, histVars>>

(* deref_mut, and the write through it: the borrow checker allows it while *)
(* no view is live; the pointers a launch has been given it does not see.  *)
(* A program without the habit "write_first" uploads an array before it    *)
(* writes to it.                                                           *)
DerefMut(a) ==
  /\ Reading(a) /\ a \notin bound /\ view[a] = NoView /\ newest[a] < MaxWrites
  /\ IF a \in Empty THEN "bind_empty" \in Habits
                   ELSE storage[a] # "none" \/ "write_first" \in Habits
  /\ StaleOnHost(a) => storage[a] # "none"
  /\ host' = [host EXCEPT ![a] = newest[a] + 1]
  /\ newest' = [newest EXCEPT ![a] = @ + 1]
  /\ seen' = [b \in {a} |-> SyncedHost(a)[a]]
  /\ Goes(a, "HostDirty")
  /\ UNCHANGED <<storage, dev, view, launchVars, panicked>>

Bind(a) == \/ EnsureEmpty(a) \/ EnsureUpload(a) \/ EnsureReupload(a)
           \/ EnsureResident(a) \/ EnsureFails(a)
Access(a) == Deref(a) \/ DropView(a) \/ DerefMut(a)
Panics(a) == EnsurePanics(a) \/ DerefPanics(a)

ArrayNext == \/ \E a \in Arrays : Bind(a) \/ MarkDeviceDirty(a) \/ Access(a)
             \/ \E outs \in SUBSET Arrays : Launch(outs)

ArraySpec == ArrayInit /\ [][ArrayNext]_arrayVars

(* With the programs that are not expected.                                *)
AnyProgram == ArrayInit /\ [][ArrayNext \/ \E a \in Arrays : Panics(a)]_arrayVars

-----------------------------------------------------------------------------
Residencies == {"HostOnly", "Synced", "DeviceOnly", "HostDirty"}
Writes == 0 .. MaxWrites

Shapes ==
  /\ residency \in [Arrays -> Residencies]
  /\ storage \in [Arrays -> {"none", "Mapped", "DeviceMem"}]
  /\ host \in [Arrays -> Writes] /\ dev \in [Arrays -> Writes]
  /\ newest \in [Arrays -> Writes]
  /\ view \in [Arrays -> Writes \union {NoView}]
  /\ bound \subseteq Arrays /\ unmarked \subseteq Arrays
  /\ panicked \in BOOLEAN

(* There is storage where the residency makes the code expect it.          *)
StorageAsExpected ==
  \A a \in Arrays \ Empty : residency[a] = "HostOnly" <=> storage[a] = "none"

ArrayTypeOK == Shapes /\ StorageAsExpected

(* Every read, of the host or of a kernel, sees the newest write, whoever  *)
(* made it, also after launches that were given up half way.               *)
Copy == INSTANCE OneCopy

ImplementsOneCopy == Copy!CopySpec

(* A live &[T] is not written to, and not freed.                           *)
ViewsAreStable == \A a \in Arrays : view[a] \in {NoView, host[a]}

(* The states that the expects of gpu_array.rs rule out do not occur.      *)
NeverPanics == ~panicked
=============================================================================
