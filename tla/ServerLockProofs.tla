-------------------------- MODULE ServerLockProofs --------------------------
(***************************************************************************)
(* Ownership of the data directory, for any number of openers, legacy      *)
(* openers and process identifiers.                                        *)
(*                                                                         *)
(* MutualExclusion is not inductive: an opener about to take ownership must *)
(* be known to hold the guard.  Since every phase between the guard and its *)
(* release implies guard = o, two such openers are one.                    *)
(***************************************************************************)
EXTENDS ServerLock, TLAPS

\* The phases of this version lie between taking the guard and closing it.
GuardOwned == \A o \in Current : pc[o] \in Guarded => guard = o

\* An older version has no phase but these.
LegacyPhases == \A o \in Legacy : pc[o] \in {"off", "opening", "holding"}

IInv == TypeOK /\ GuardOwned /\ LegacyPhases /\ MarkedWhileHeld /\ GuardNotLeaked

-----------------------------------------------------------------------------
LEMMA TypeStep == TypeOK /\ [Next]_vars => TypeOK'
<1> SUFFICES ASSUME TypeOK, [Next]_vars PROVE TypeOK'
  OBVIOUS
<1> USE NoOneAssumption, LegacyAssumption DEF TypeOK, Phases, Markers
<1>1. ASSUME NEW o \in Openers, Acquire(o) PROVE TypeOK'
  BY <1>1 DEF Acquire, Goto, Refuse, OpenGuard, GuardBusy, FindNoMarker, FindMarker,
       FindGarbage, OwnerAlive, OwnerDead, Replace, Create, Fill, StorageFails,
       LegacyAcquire, LegacyRefuse, Content, Garbage, Absent
<1>2. ASSUME NEW o \in Openers, Release(o) PROVE TypeOK'
  BY <1>2 DEF Release, Goto, Refuse, FindOwnMarker, ReadOwnMarker, Unlink, UnmarkFails,
       CloseGuard, LegacyRelease, Content, Absent
<1>3. ASSUME NEW p \in Pids, Processes(p) PROVE TypeOK'
  BY <1>3 DEF Processes, Bystander, Exit, Start, Goto
<1>4. CASE UNCHANGED vars
  BY <1>4 DEF vars
<1> QED BY <1>1, <1>2, <1>3, <1>4 DEF Next

\* The variables keep their types: every phase, marker and guard is one the code
\* has, and no opener outlives its process.
THEOREM TypeCorrect == Spec => []TypeOK
<1>1. Init => TypeOK
  BY DEF Init, TypeOK, Phases, Markers, Absent
<1> QED BY <1>1, TypeStep, PTL DEF Spec

LEMMA InitIInv == Init => IInv
  BY NoOneAssumption, LegacyAssumption
  DEF Init, IInv, TypeOK, GuardOwned, LegacyPhases, MarkedWhileHeld, Owning, GuardNotLeaked, Current, Guarded,
      Phases, Markers, Absent

LEMMA IInvStep == IInv /\ [Next]_vars => IInv'
<1> SUFFICES ASSUME IInv, [Next]_vars PROVE IInv'
  OBVIOUS
<1>1. TypeOK /\ TypeOK'
  BY TypeStep DEF IInv
<1> USE NoOneAssumption, LegacyAssumption, <1>1
    DEF TypeOK, Phases, Markers, Guarded, Current, Content, Goto
<1>2. ASSUME NEW o \in Openers, Acquire(o) PROVE IInv'
  <2> USE <1>2 DEF IInv
  <2>1. GuardOwned'
    BY DEF GuardOwned, LegacyPhases, Acquire, Refuse, OpenGuard, GuardBusy, FindNoMarker, FindMarker,
         FindGarbage, OwnerAlive, OwnerDead, Replace, Create, Fill, StorageFails,
         LegacyAcquire, LegacyRefuse
  <2>2. LegacyPhases'
    BY DEF LegacyPhases, Acquire, Refuse, OpenGuard, GuardBusy, FindNoMarker, FindMarker,
         FindGarbage, OwnerAlive, OwnerDead, Replace, Create, Fill, StorageFails,
         LegacyAcquire, LegacyRefuse
  <2>3. MarkedWhileHeld'
    BY DEF MarkedWhileHeld, Owning, GuardOwned, LegacyPhases, Acquire, Refuse, OpenGuard, GuardBusy,
         FindNoMarker, FindMarker, FindGarbage, OwnerAlive, OwnerDead, Replace, Create, Fill,
         StorageFails, LegacyAcquire, LegacyRefuse, Absent, Garbage
  <2>4. GuardNotLeaked'
    BY DEF GuardNotLeaked, GuardOwned, LegacyPhases, Acquire, Refuse, OpenGuard, GuardBusy,
         FindNoMarker, FindMarker, FindGarbage, OwnerAlive, OwnerDead, Replace, Create, Fill,
         StorageFails, LegacyAcquire, LegacyRefuse
  <2> QED BY <2>1, <2>2, <2>3, <2>4
<1>3. ASSUME NEW o \in Openers, Release(o) PROVE IInv'
  <2> USE <1>3 DEF IInv, Release, Refuse, FindOwnMarker, ReadOwnMarker, Unlink, UnmarkFails,
       CloseGuard, LegacyRelease
  <2>1. GuardOwned'
    BY DEF GuardOwned, LegacyPhases
  <2>2. LegacyPhases'
    BY DEF LegacyPhases
  <2>3. MarkedWhileHeld'
    BY DEF MarkedWhileHeld, Owning, GuardOwned, LegacyPhases, Absent
  <2>4. GuardNotLeaked'
    BY DEF GuardNotLeaked, GuardOwned, LegacyPhases
  <2> QED BY <2>1, <2>2, <2>3, <2>4
<1>4. ASSUME NEW p \in Pids, Processes(p) PROVE IInv'
  <2> USE <1>4 DEF IInv, Processes, Bystander, Exit, Start
  <2>1. GuardOwned'
    BY DEF GuardOwned
  <2>2. LegacyPhases'
    BY DEF LegacyPhases
  <2>3. MarkedWhileHeld'
    BY DEF MarkedWhileHeld, Owning
  <2>4. GuardNotLeaked'
    BY DEF GuardNotLeaked
  <2> QED BY <2>1, <2>2, <2>3, <2>4
<1>5. CASE UNCHANGED vars
  BY <1>5 DEF vars, IInv, GuardOwned, LegacyPhases, MarkedWhileHeld, Owning, GuardNotLeaked
<1> QED BY <1>2, <1>3, <1>4, <1>5 DEF Next


LEMMA Invariance == Spec => []IInv
BY InitIInv, IInvStep, PTL DEF Spec

\* Two openers of this version never own the directory together, whatever crashes,
\* restarts, reused process identifiers and older versions do.
THEOREM OneOwner == Spec => []MutualExclusion
<1>1. IInv => MutualExclusion
  BY DEF IInv, GuardOwned, MutualExclusion, Guarded, Phases, Owning
<1> QED BY <1>1, Invariance, PTL

\* The guard is never left behind by an opener that has gone.
THEOREM GuardReturned == Spec => []GuardNotLeaked
<1>1. IInv => GuardNotLeaked
  BY DEF IInv
<1> QED BY <1>1, Invariance, PTL

\* An owner's own marker is in place throughout its ownership.
THEOREM OwnerMarked == Spec => []MarkedWhileHeld
<1>1. IInv => MarkedWhileHeld
  BY DEF IInv
<1> QED BY <1>1, Invariance, PTL

\* An older version never becomes owner beside an owner of this version.
THEOREM OlderExcluded == Spec => OlderVersionExcluded
<1> DEFINE A == \A o \in Current, q \in Legacy :
                  pc[o] \in Owning => ~(pc[q] = "opening" /\ pc'[q] = "holding")
<1>1. ASSUME IInv, [Next]_vars PROVE A
  <2> SUFFICES ASSUME NEW o \in Current, NEW q \in Legacy,
                      pc[o] \in Owning, pc[q] = "opening"
               PROVE pc'[q] # "holding"
    OBVIOUS
  <2> USE <1>1 DEF IInv, TypeOK, Phases, Current
  <2>1. marker # Absent
    BY NoOneAssumption DEF MarkedWhileHeld, Owning, Content, Absent
  <2>2. ASSUME NEW x \in Openers, Acquire(x) PROVE pc'[q] # "holding"
    BY <2>1, <2>2, LegacyAssumption DEF Acquire, Goto, Refuse, OpenGuard, GuardBusy, FindNoMarker,
         FindMarker, FindGarbage, OwnerAlive, OwnerDead, Replace, Create, Fill, StorageFails,
         LegacyAcquire, LegacyRefuse
  <2>3. ASSUME NEW x \in Openers, Release(x) PROVE pc'[q] # "holding"
    BY <2>3, LegacyAssumption DEF Release, Goto, Refuse, FindOwnMarker, ReadOwnMarker, Unlink, UnmarkFails,
       CloseGuard, LegacyRelease
  <2>4. ASSUME NEW p \in Pids, Processes(p) PROVE pc'[q] # "holding"
    BY <2>4, LegacyAssumption DEF Processes, Goto, Bystander, Exit, Start
  <2>5. CASE UNCHANGED vars
    BY <2>5 DEF vars
  <2> QED BY <2>2, <2>3, <2>4, <2>5 DEF Next
<1>2. IInv /\ [Next]_vars => [A]_vars
  BY <1>1
<1> QED BY <1>2, Invariance, PTL DEF Spec, OlderVersionExcluded

=============================================================================
