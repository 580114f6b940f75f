------------------------------ MODULE StateLock ------------------------------
(***************************************************************************)
(* `<statePath>.lock`, the file that makes import runs exclusive           *)
(* (acquireStateLock in packages/stream-import/src/state.ts), system call  *)
(* by system call.  Processes are pids; an earlier process may have left   *)
(* its lock, under a pid that is dead by now or in use again.  A process   *)
(* runs acquire and release synchronously, so its own callers never        *)
(* interleave, but a host may call acquire again while it holds.           *)
(***************************************************************************)
EXTENDS Naturals, FiniteSets

CONSTANTS
  Proc,         \* pids, positive numbers
  Inode,        \* files, positive numbers
  EmptyReads,   \* may another process open the lock file between its creation and the write of the pid?
  Reentrant,    \* may a host call acquire again while it holds the lock? (the CLI does not)
  Dead,         \* pids of processes that died before
  MaxCrashes,   \* bound: crashes
  MaxCalls      \* bound: acquire calls over the whole run

ASSUME LockAssumption ==
  /\ Proc \subseteq Nat \ {0} /\ IsFiniteSet(Proc)
  /\ Inode \subseteq Nat \ {0} /\ IsFiniteSet(Inode)
  /\ Dead \subseteq Proc
  /\ EmptyReads \in BOOLEAN /\ Reentrant \in BOOLEAN
  /\ MaxCrashes \in Nat /\ MaxCalls \in Nat

VARIABLES
  lockFile,   \* the inode at lockPath, or 0
  stale,      \* the inode at lockPath.<pid>.stale, or 0, for each process
  content,    \* each inode's pid; 0 is empty, and reads as NaN
  alive,
  pc,
  attempt,
  ino,        \* the inode a process created and has not written yet
  seen,       \* stalePid: what readLockPid returned
  heldLocks,  \* the processes whose heldLocks has lockPath
  holders,    \* how many callers in each process believe they hold the lock
  crashes, calls

files == <<lockFile, stale, content>>
vars == <<files, alive, pc, attempt, ino, seen, heldLocks, holders, crashes, calls>>

Label == {"idle", "create", "write", "read", "claim", "reread", "relink", "drop", "unlink",
          "release", "remove"}

TypeOK ==
  /\ lockFile \in Inode \cup {0}
  /\ stale \in [Proc -> Inode \cup {0}]
  /\ content \in [Inode -> Proc \cup {0}]
  /\ alive \in [Proc -> BOOLEAN]
  /\ pc \in [Proc -> Label]
  /\ attempt \in [Proc -> 0 .. 2]
  /\ ino \in [Proc -> Inode \cup {0}]
  /\ seen \in [Proc -> Proc \cup {0}]
  /\ heldLocks \subseteq Proc
  /\ holders \in [Proc -> Nat]
  /\ crashes \in 0 .. MaxCrashes /\ calls \in 0 .. MaxCalls

Zero == [p \in Proc |-> 0]

Init ==
  /\ \/ lockFile = 0 /\ content = [i \in Inode |-> 0]
     \/ /\ lockFile \in Inode
        /\ \E d \in Proc \cup {0} : content = [i \in Inode |-> IF i = lockFile THEN d ELSE 0]
  /\ stale = Zero
  /\ alive = [p \in Proc |-> p \notin Dead]
  /\ pc = [p \in Proc |-> "idle"] /\ attempt = Zero /\ ino = Zero /\ seen = Zero
  /\ heldLocks = {} /\ holders = Zero /\ crashes = 0 /\ calls = 0

InUse == {lockFile} \cup {stale[p] : p \in Proc} \cup {ino[p] : p \in Proc}

Go(p, label) == pc' = [pc EXCEPT ![p] = label]

At(p, label) == pc[p] = label /\ alive[p]

-----------------------------------------------------------------------------
(* acquireStateLock *)

Acquire(p) ==
  /\ At(p, "idle") /\ calls < MaxCalls
  /\ Reentrant \/ holders[p] = 0
  /\ calls' = calls + 1
  /\ attempt' = [attempt EXCEPT ![p] = 1]
  /\ Go(p, "create")
  /\ UNCHANGED <<files, alive, ino, seen, heldLocks, holders, crashes>>

(* open with "wx": the file is there, empty, before the pid is written. *)
Create(p) ==
  /\ At(p, "create") /\ lockFile = 0
  /\ \E i \in Inode \ InUse :
       /\ lockFile' = i
       /\ content' = [content EXCEPT ![i] = 0]
       /\ ino' = [ino EXCEPT ![p] = i]
  /\ Go(p, "write")
  /\ UNCHANGED <<stale, alive, attempt, seen, heldLocks, holders, crashes, calls>>

Write(p) ==
  /\ At(p, "write")
  /\ content' = [content EXCEPT ![ino[p]] = p]
  /\ ino' = [ino EXCEPT ![p] = 0]
  /\ heldLocks' = heldLocks \cup {p}
  /\ holders' = [holders EXCEPT ![p] = @ + 1]
  /\ attempt' = [attempt EXCEPT ![p] = 0]
  /\ Go(p, "idle")
  /\ UNCHANGED <<lockFile, stale, alive, seen, crashes, calls>>

Exists(p) ==
  /\ At(p, "create") /\ lockFile # 0
  /\ Go(p, "read")
  /\ UNCHANGED <<files, alive, attempt, ino, seen, heldLocks, holders, crashes, calls>>

Unwritten(i) == \E q \in Proc : pc[q] = "write" /\ ino[q] = i

PidAt(i) == IF i = 0 THEN 0 ELSE content[i]

(* Mutant: a lock file with no pid in it is taken for a held one. *)
EmptyIsBusy(p, pid) == IF pid = p THEN p \in heldLocks ELSE pid = 0 \/ alive[pid]

(* Mutant: no other process is found alive. *)
OnlyOurs(p, pid) == pid = p /\ p \in heldLocks

(* Only a live process's lock is respected; our own pid counts when this process holds the lock, else the pid was reused. *)
Busy(p, pid) == IF pid = p THEN p \in heldLocks ELSE pid # 0 /\ alive[pid]

(* readLockPid and what follows from it: null, or an attempt to claim. *)
Read(p) ==
  /\ At(p, "read")
  /\ EmptyReads \/ ~Unwritten(lockFile)
  /\ seen' = [seen EXCEPT ![p] = PidAt(lockFile)]
  /\ IF Busy(p, PidAt(lockFile))
     THEN Go(p, "idle") /\ attempt' = [attempt EXCEPT ![p] = 0]
     ELSE Go(p, "claim") /\ UNCHANGED attempt
  /\ UNCHANGED <<files, alive, ino, heldLocks, holders, crashes, calls>>

-----------------------------------------------------------------------------
(* claimStaleLock *)

(* Back to the create of the second attempt, or null after it. *)
Retry(p) ==
  IF attempt[p] = 1
  THEN Go(p, "create") /\ attempt' = [attempt EXCEPT ![p] = 2]
  ELSE Go(p, "idle") /\ attempt' = [attempt EXCEPT ![p] = 0]

Claim(p) ==
  /\ At(p, "claim")
  /\ IF lockFile # 0
     THEN /\ stale' = [stale EXCEPT ![p] = lockFile]
          /\ lockFile' = 0
          /\ Go(p, "reread")
          /\ UNCHANGED attempt
     ELSE Retry(p) /\ UNCHANGED <<lockFile, stale>>
  /\ UNCHANGED <<content, alive, ino, seen, heldLocks, holders, crashes, calls>>

(* Mutant: what was claimed is not looked at again. *)
RereadTrusting(p) ==
  /\ At(p, "reread")
  /\ Go(p, "unlink")
  /\ UNCHANGED <<files, alive, attempt, ino, seen, heldLocks, holders, crashes, calls>>

Reread(p) ==
  /\ At(p, "reread")
  /\ EmptyReads \/ ~Unwritten(stale[p])
  /\ Go(p, IF content[stale[p]] = seen[p] THEN "unlink" ELSE "relink")
  /\ UNCHANGED <<files, alive, attempt, ino, seen, heldLocks, holders, crashes, calls>>

(* A live lock grabbed by mistake is linked back, unless a new one is there by now. *)
Relink(p) ==
  /\ At(p, "relink")
  /\ lockFile' = IF lockFile = 0 THEN stale[p] ELSE lockFile
  /\ Go(p, "drop")
  /\ UNCHANGED <<stale, content, alive, attempt, ino, seen, heldLocks, holders, crashes, calls>>

Drop(p) ==
  /\ At(p, "drop")
  /\ stale' = [stale EXCEPT ![p] = 0]
  /\ attempt' = [attempt EXCEPT ![p] = 0]
  /\ Go(p, "idle")
  /\ UNCHANGED <<lockFile, content, alive, ino, seen, heldLocks, holders, crashes, calls>>

Unlink(p) ==
  /\ At(p, "unlink")
  /\ stale' = [stale EXCEPT ![p] = 0]
  /\ Retry(p)
  /\ UNCHANGED <<lockFile, content, alive, ino, seen, heldLocks, holders, crashes, calls>>

-----------------------------------------------------------------------------
(* release *)

Release(p) ==
  /\ At(p, "idle") /\ holders[p] > 0
  /\ holders' = [holders EXCEPT ![p] = @ - 1]
  /\ heldLocks' = heldLocks \ {p}
  /\ Go(p, "release")
  /\ UNCHANGED <<files, alive, attempt, ino, seen, crashes, calls>>

Own(p) == PidAt(lockFile) = p

CheckOwn(p) ==
  /\ At(p, "release")
  /\ Go(p, IF Own(p) THEN "remove" ELSE "idle")
  /\ UNCHANGED <<files, alive, attempt, ino, seen, heldLocks, holders, crashes, calls>>

Remove(p) ==
  /\ At(p, "remove")
  /\ lockFile' = 0
  /\ Go(p, "idle")
  /\ UNCHANGED <<stale, content, alive, attempt, ino, seen, heldLocks, holders, crashes, calls>>

-----------------------------------------------------------------------------
(* A process dies, leaving its files. *)

Crash(p) ==
  /\ alive[p] /\ crashes < MaxCrashes
  /\ crashes' = crashes + 1
  /\ alive' = [alive EXCEPT ![p] = FALSE]
  /\ Go(p, "idle")
  /\ attempt' = [attempt EXCEPT ![p] = 0]
  /\ ino' = [ino EXCEPT ![p] = 0]
  /\ seen' = [seen EXCEPT ![p] = 0]
  /\ heldLocks' = heldLocks \ {p}
  /\ holders' = [holders EXCEPT ![p] = 0]
  /\ UNCHANGED <<files, calls>>

(* Every step of a call under way; only callers starting and releasing, and crashes, are not. *)
CallStep(p) ==
  \/ Create(p) \/ Write(p) \/ Exists(p) \/ Read(p) \/ Claim(p) \/ Reread(p)
  \/ Relink(p) \/ Drop(p) \/ Unlink(p) \/ CheckOwn(p) \/ Remove(p)

Next == \E p \in Proc : Acquire(p) \/ CallStep(p) \/ Release(p) \/ Crash(p)

Spec == Init /\ [][Next]_vars

(* A call runs synchronously, and a run that ends releases. *)
FairSpec == Spec /\ \A p \in Proc : WF_vars(CallStep(p)) /\ WF_vars(Release(p))

-----------------------------------------------------------------------------
(* Properties. *)

(* Two runs never hold one state file's lock at the same time (README, "so two runs cannot share one state file"). *)
MutualExclusion ==
  \A p, q \in Proc : holders[p] > 0 /\ holders[q] > 0 => p = q

(* A release never removes the lock of a process that holds it now. *)
ReleaseKeepsOthers ==
  [][\A p, q \in Proc :
       pc[p] = "remove" /\ lockFile # 0 /\ lockFile' = 0 /\ q # p => ~(PidAt(lockFile) = q /\ holders[q] > 0)]_vars

(* A lock left by dead processes does not stay in the way: an acquire by the only process left succeeds, unless it crashes. *)
DeadLockReclaimed ==
  \A p \in Proc :
    (pc[p] = "create" /\ attempt[p] = 1 /\ \A q \in Proc \ {p} : ~alive[q]) /\ holders[p] = 0
      ~> holders[p] > 0 \/ ~alive[p] \/ \E q \in Proc \ {p} : alive[q]
=============================================================================
