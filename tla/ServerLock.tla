----------------------------- MODULE ServerLock -----------------------------
(***************************************************************************)
(* acquireServerLock(): exclusive ownership of a wallet data directory.    *)
(*                                                                         *)
(* Openers are calls of acquireServerLock, in one process or in several;   *)
(* an older version of the library (Legacy) knows only the marker file and *)
(* refuses to start while one exists.  Each system call is a step, since   *)
(* processes interleave there.  The guard is the SQLite file held under    *)
(* BEGIN EXCLUSIVE: the operating system drops it with its process, while  *)
(* the marker file survives.  A process identifier may be reused by any    *)
(* other program once its process is gone.                                 *)
(***************************************************************************)
EXTENDS Naturals, FiniteSets

CONSTANTS Openers, Legacy, Pids, NoOne, NoPid

ASSUME LegacyAssumption == Legacy \subseteq Openers
ASSUME NoOneAssumption == NoOne \notin Openers /\ NoPid \notin Pids

\* The marker file: absent, without readable content, or an opener's content.
Absent == [pid |-> NoPid, owner |-> NoOne]
Garbage(p) == [pid |-> NoPid, owner |-> p]
Content(p, o) == [pid |-> p, owner |-> o]

Phases == {"off", "opening", "guarded", "probing", "staged", "creating", "created",
           "holding", "reading", "unlinking", "unmarked"}

\* An owner, from the marker it wrote to the one it removes.
Owning == {"holding", "reading", "unlinking"}

VARIABLES
    pc,      \* what each opener is about to do
    pid,     \* the process each running opener lives in
    seen,    \* the pid an opener found in the marker
    guard,   \* the opener holding the SQLite guard
    marker,  \* wallet-server.lock
    alive    \* the process identifiers in use on the machine

vars == <<pc, pid, seen, guard, marker, alive>>

Markers == [pid : Pids \cup {NoPid}, owner : Openers \cup {NoOne}]

TypeOK ==
    /\ pc \in [Openers -> Phases]
    /\ pid \in [Openers -> Pids \cup {NoPid}]
    /\ seen \in [Openers -> Pids \cup {NoPid}]
    /\ guard \in Openers \cup {NoOne}
    /\ marker \in Markers
    /\ alive \in SUBSET Pids
    /\ \A o \in Openers : pc[o] = "off" \/ pid[o] \in alive

Init ==
    /\ pc = [o \in Openers |-> "off"]
    /\ pid = [o \in Openers |-> NoPid]
    /\ seen = [o \in Openers |-> NoPid]
    /\ guard = NoOne
    /\ marker = Absent
    /\ alive = {}

Goto(o, phase) == pc' = [pc EXCEPT ![o] = phase]

-----------------------------------------------------------------------------
\* Processes.

\* An opener starts in a new process, or in one that already runs an opener.
Start(o, p) ==
    /\ pc[o] = "off"
    /\ p \notin alive \/ \E q \in Openers : pc[q] # "off" /\ pid[q] = p
    /\ alive' = alive \cup {p}
    /\ pid' = [pid EXCEPT ![o] = p]
    /\ Goto(o, "opening")
    /\ UNCHANGED <<seen, guard, marker>>

\* Any other program takes a free process identifier.
Bystander(p) ==
    /\ p \notin alive
    /\ alive' = alive \cup {p}
    /\ UNCHANGED <<pc, pid, seen, guard, marker>>

\* A process ends, crashed or not: its openers are gone and so is its guard.
Exit(p) ==
    /\ p \in alive
    /\ alive' = alive \ {p}
    /\ pc' = [o \in Openers |-> IF pid[o] = p THEN "off" ELSE pc[o]]
    /\ pid' = [o \in Openers |-> IF pid[o] = p THEN NoPid ELSE pid[o]]
    /\ guard' = IF guard # NoOne /\ pid[guard] = p THEN NoOne ELSE guard
    /\ UNCHANGED <<seen, marker>>

-----------------------------------------------------------------------------
\* acquireServerLock().

\* Leave without ownership, closing the guard if it was opened.
Refuse(o) ==
    /\ Goto(o, "off")
    /\ pid' = [pid EXCEPT ![o] = NoPid]
    /\ guard' = IF guard = o THEN NoOne ELSE guard

OpenGuardShared(o) ==    \* mutant: BEGIN instead of BEGIN EXCLUSIVE
    /\ pc[o] = "opening" /\ o \notin Legacy
    /\ guard' = o
    /\ Goto(o, "guarded")
    /\ UNCHANGED <<pid, seen, marker, alive>>

OpenGuard(o) ==
    /\ pc[o] = "opening" /\ o \notin Legacy
    /\ guard = NoOne
    /\ guard' = o
    /\ Goto(o, "guarded")
    /\ UNCHANGED <<pid, seen, marker, alive>>

\* SQLITE_BUSY with a timeout of 0.
GuardBusy(o) ==
    /\ pc[o] = "opening" /\ o \notin Legacy
    /\ guard # NoOne
    /\ Refuse(o)
    /\ UNCHANGED <<seen, marker, alive>>

\* No marker: go on to create one.
FindNoMarker(o) ==
    /\ pc[o] = "guarded"
    /\ marker = Absent
    /\ Goto(o, "creating")
    /\ UNCHANGED <<pid, seen, guard, marker, alive>>

FindMarker(o) ==
    /\ pc[o] = "guarded"
    /\ marker.pid # NoPid
    /\ seen' = [seen EXCEPT ![o] = marker.pid]
    /\ Goto(o, "probing")
    /\ UNCHANGED <<pid, guard, marker, alive>>

\* Metadata that does not parse is refused, never replaced.
FindGarbage(o) ==
    /\ pc[o] = "guarded"
    /\ marker # Absent /\ marker.pid = NoPid
    /\ Refuse(o)
    /\ UNCHANGED <<seen, marker, alive>>

\* process.kill(pid, 0) succeeds, or fails with anything but ESRCH.
OwnerAlive(o) ==
    /\ pc[o] = "probing"
    /\ seen[o] \in alive
    /\ Refuse(o)
    /\ UNCHANGED <<seen, marker, alive>>

OwnerDead(o) ==
    /\ pc[o] = "probing"
    /\ seen[o] \notin alive
    /\ Goto(o, "staged")
    /\ UNCHANGED <<pid, seen, guard, marker, alive>>

\* The temporary file is written and renamed over the stale marker.
ReplaceUnlinked(o) ==    \* mutant: the stale marker is removed and no new one written
    /\ pc[o] = "staged"
    /\ marker' = Absent
    /\ Goto(o, "holding")
    /\ UNCHANGED <<pid, seen, guard, alive>>

Replace(o) ==
    /\ pc[o] = "staged"
    /\ marker' = Content(pid[o], o)
    /\ Goto(o, "holding")
    /\ UNCHANGED <<pid, seen, guard, alive>>

\* Exclusive creation: the file appears empty and is then filled.
Create(o) ==
    /\ pc[o] = "creating"
    /\ marker = Absent
    /\ marker' = Garbage(o)
    /\ Goto(o, "created")
    /\ UNCHANGED <<pid, seen, guard, alive>>

Fill(o) ==
    /\ pc[o] = "created"
    /\ marker' = Content(pid[o], o)
    /\ Goto(o, "holding")
    /\ UNCHANGED <<pid, seen, guard, alive>>

\* A file operation fails: opening the guard database (with anything but SQLITE_BUSY),
\* reading the marker, or writing it, which is also how EEXIST is met.  What was written
\* stays, a temporary file is removed.
StorageFails(o) ==
    /\ pc[o] \in {"opening", "guarded", "staged", "creating", "created"} /\ o \notin Legacy
    /\ Refuse(o)
    /\ UNCHANGED <<seen, marker, alive>>

-----------------------------------------------------------------------------
\* The closure acquireServerLock() returns: existsSync, readFileSync and unlinkSync on
\* the own marker, and the guard closed in a finally, whichever of them threw.

FindOwnMarker(o) ==
    /\ pc[o] = "holding" /\ o \notin Legacy
    /\ Goto(o, IF marker = Absent THEN "unmarked" ELSE "reading")
    /\ UNCHANGED <<pid, seen, guard, marker, alive>>

ReadOwnMarker(o) ==
    /\ pc[o] = "reading"
    /\ Goto(o, IF marker = Content(pid[o], o) THEN "unlinking" ELSE "unmarked")
    /\ UNCHANGED <<pid, seen, guard, marker, alive>>

\* Whatever the marker is by now.
Unlink(o) ==
    /\ pc[o] = "unlinking"
    /\ marker' = Absent
    /\ Goto(o, "unmarked")
    /\ UNCHANGED <<pid, seen, guard, alive>>

UnmarkFailsUnguarded(o) ==    \* mutant: the guard is closed only when nothing threw
    /\ pc[o] \in {"reading", "unlinking"}
    /\ Goto(o, "off")
    /\ pid' = [pid EXCEPT ![o] = NoPid]
    /\ UNCHANGED <<seen, guard, marker, alive>>

UnmarkFails(o) ==
    /\ pc[o] \in {"reading", "unlinking"}
    /\ Goto(o, "unmarked")
    /\ UNCHANGED <<pid, seen, guard, marker, alive>>

CloseGuard(o) ==
    /\ pc[o] = "unmarked"
    /\ Refuse(o)
    /\ UNCHANGED <<seen, marker, alive>>

-----------------------------------------------------------------------------
\* An older version: the marker alone decides.

LegacyAcquire(o) ==
    /\ pc[o] = "opening" /\ o \in Legacy
    /\ marker = Absent
    /\ marker' = Content(pid[o], o)
    /\ Goto(o, "holding")
    /\ UNCHANGED <<pid, seen, guard, alive>>

LegacyRefuse(o) ==
    /\ pc[o] = "opening" /\ o \in Legacy
    /\ marker # Absent
    /\ Refuse(o)
    /\ UNCHANGED <<seen, marker, alive>>

LegacyRelease(o) ==
    /\ pc[o] = "holding" /\ o \in Legacy
    /\ marker' = IF marker = Content(pid[o], o) THEN Absent ELSE marker
    /\ Refuse(o)
    /\ UNCHANGED <<seen, alive>>

Acquire(o) ==
    \/ OpenGuard(o) \/ GuardBusy(o)
    \/ FindNoMarker(o) \/ FindMarker(o) \/ FindGarbage(o)
    \/ OwnerAlive(o) \/ OwnerDead(o) \/ Replace(o)
    \/ Create(o) \/ Fill(o) \/ StorageFails(o)
    \/ LegacyAcquire(o) \/ LegacyRefuse(o)

Release(o) ==
    \/ FindOwnMarker(o) \/ ReadOwnMarker(o) \/ Unlink(o) \/ UnmarkFails(o)
    \/ CloseGuard(o) \/ LegacyRelease(o)

Processes(p) == Bystander(p) \/ Exit(p) \/ \E o \in Openers : Start(o, p)

Next ==
    \/ \E o \in Openers : Acquire(o) \/ Release(o)
    \/ \E p \in Pids : Processes(p)

Spec == Init /\ [][Next]_vars

-----------------------------------------------------------------------------
Current == Openers \ Legacy

\* The directory never has two owners of this version, through crashes, simultaneous
\* restarts over the same stale marker, reused process identifiers and the comings
\* and goings of an older version.
MutualExclusion ==
    \A o, q \in Current : pc[o] \in Owning /\ pc[q] \in Owning => o = q

\* Whoever holds the guard is on its way to ownership or out of it: a refused attempt, a
\* read or write that failed, an error in the release and a crash all give the guard back.
Guarded == Phases \ {"off", "opening"}
GuardNotLeaked == guard # NoOne => pc[guard] \in Guarded

\* An owner's marker is in place for as long as it owns the directory: a stale marker is
\* replaced without a window in which an older version sees none, and the one a release
\* removes is still the one it read.
MarkedWhileHeld ==
    \A o \in Current : pc[o] \in Owning => marker = Content(pid[o], o)

\* An older version never becomes the owner while this version is.
OlderVersionExcluded ==
    [][\A o \in Current, q \in Legacy :
        pc[o] \in Owning => ~(pc[q] = "opening" /\ pc'[q] = "holding")]_vars
=============================================================================
