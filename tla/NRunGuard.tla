----------------------------- MODULE NRunGuard ------------------------------
(***************************************************************************)
(* NRunGuard: at most one instance of a program runs.  The one that does   *)
(* created a shared memory segment and stays attached to it; a system      *)
(* semaphore orders the looks at it.  The processes are those started with *)
(* one key; each may crash at any step and be started again.               *)
(*                                                                         *)
(* Qt's part, on Unix: create fails when there is a segment and attach     *)
(* when there is none, the last detach removes the segment, a crash only   *)
(* takes the attachments; the semaphore is given back by the kernel.       *)
(* fTryToRun is not called by a process that runs already.                 *)
(***************************************************************************)
CONSTANTS
  Process,
  None      \* nobody holds the semaphore

VARIABLES
  pc,       \* where each process is
  lResult,  \* what its last attach or create returned
  segment,  \* whether there is a segment
  attached, \* processes whose mSharedMem is attached
  fixing,   \* processes whose lFix is attached
  mMemLock  \* who holds the semaphore

vars == <<pc, lResult, segment, attached, fixing, mMemLock>>

Place == {"started", "fixing", "idle",        \* outside, and in the constructor
          "looking", "looked",                \* fIsAnotherRunning
          "trying", "creating", "created",    \* fTryToRun
          "running",
          "leaving", "releasing"}             \* fRelease

TypeOK ==
  /\ pc \in [Process -> Place]
  /\ lResult \in [Process -> BOOLEAN]
  /\ segment \in BOOLEAN
  /\ attached \subseteq Process
  /\ fixing \subseteq Process
  /\ mMemLock \in Process \cup {None}

Init ==
  /\ pc = [p \in Process |-> "started"]
  /\ lResult = [p \in Process |-> FALSE]
  /\ segment \in BOOLEAN
  /\ attached = {}
  /\ fixing = {}
  /\ mMemLock = None

Goes(p, from, to) == pc[p] = from /\ pc' = [pc EXCEPT ![p] = to]

Acquires(p) == mMemLock = None /\ mMemLock' = p
Releases(p) == mMemLock' = None

(* The attachments that are left keep the segment. *)
Kept(guards, fixes) == guards # {} \/ fixes # {}

-----------------------------------------------------------------------------
(* The constructor attaches lFix, and its end detaches it: a segment that  *)
(* a crash left goes.  It does so without the semaphore.                   *)
FixAttaches(p) ==
  /\ Goes(p, "started", "fixing")
  /\ fixing' = IF segment THEN fixing \cup {p} ELSE fixing
  /\ UNCHANGED <<lResult, segment, attached, mMemLock>>

FixDetaches(p) ==
  /\ Goes(p, "fixing", "idle")
  /\ fixing' = fixing \ {p}
  /\ segment' = IF p \in fixing THEN Kept(attached, fixing \ {p}) ELSE segment
  /\ UNCHANGED <<lResult, attached, mMemLock>>

Looks(p) ==
  /\ Goes(p, "idle", "looking")
  /\ Acquires(p)
  /\ UNCHANGED <<lResult, segment, attached, fixing>>

Attaches(p) ==
  /\ Goes(p, "looking", "looked")
  /\ lResult' = [lResult EXCEPT ![p] = segment]
  /\ attached' = IF segment THEN attached \cup {p} ELSE attached
  /\ UNCHANGED <<segment, fixing, mMemLock>>

(* Detached if it was attached, the semaphore released: fTryToRun returns  *)
(* or goes on to create.                                                   *)
Looked(p) ==
  /\ Goes(p, "looked", IF lResult[p] THEN "idle" ELSE "trying")
  /\ Releases(p)
  /\ attached' = attached \ {p}
  /\ segment' = IF p \in attached THEN Kept(attached \ {p}, fixing) ELSE segment
  /\ UNCHANGED <<lResult, fixing>>

Tries(p) ==
  /\ Goes(p, "trying", "creating")
  /\ Acquires(p)
  /\ UNCHANGED <<lResult, segment, attached, fixing>>

Creates(p) ==
  /\ Goes(p, "creating", "created")
  /\ lResult' = [lResult EXCEPT ![p] = ~segment]
  /\ attached' = IF segment THEN attached ELSE attached \cup {p}
  /\ segment' = TRUE
  /\ UNCHANGED <<fixing, mMemLock>>

(* fTryToRun returns true, or goes to fRelease. *)
Created(p) ==
  /\ Goes(p, "created", IF lResult[p] THEN "running" ELSE "leaving")
  /\ Releases(p)
  /\ UNCHANGED <<lResult, segment, attached, fixing>>

(* The destructor, at the end of the program. *)
Ends(p) ==
  /\ Goes(p, "running", "leaving")
  /\ UNCHANGED <<lResult, segment, attached, fixing, mMemLock>>

AcquiresToRelease(p) ==
  /\ Goes(p, "leaving", "releasing")
  /\ Acquires(p)
  /\ UNCHANGED <<lResult, segment, attached, fixing>>

fRelease(p) ==
  /\ Goes(p, "releasing", "idle")
  /\ Releases(p)
  /\ attached' = attached \ {p}
  /\ segment' = IF p \in attached THEN Kept(attached \ {p}, fixing) ELSE segment
  /\ UNCHANGED <<lResult, fixing>>

Crash(p) ==
  /\ pc' = [pc EXCEPT ![p] = "started"]
  /\ lResult' = [lResult EXCEPT ![p] = FALSE]
  /\ attached' = attached \ {p}
  /\ fixing' = fixing \ {p}
  /\ mMemLock' = IF mMemLock = p THEN None ELSE mMemLock
  /\ UNCHANGED segment

Step(p) ==
  \/ FixAttaches(p) \/ FixDetaches(p)
  \/ Looks(p) \/ Attaches(p) \/ Looked(p)
  \/ Tries(p) \/ Creates(p) \/ Created(p)
  \/ Ends(p) \/ AcquiresToRelease(p) \/ fRelease(p)
  \/ Crash(p)

Next == \E p \in Process : Step(p)

Spec == Init /\ [][Next]_vars

-----------------------------------------------------------------------------
(* Two processes never run at the same time, whatever crashes and however  *)
(* the looks of others interleave (NRunGuard.cpp 40-51).                   *)
OneRuns == \A p, q \in Process : pc[p] = "running" /\ pc[q] = "running" => p = q
=============================================================================
