--------------------------- MODULE StateLockProofs ---------------------------
(***************************************************************************)
(* Proofs about StateLock, for any number of pids, inodes, crashes and     *)
(* calls: its types, and that two importers never hold the lock together.  *)
(***************************************************************************)
EXTENDS StateLock, TLAPS

USE LockAssumption

(* What the protocol is safe under: two processes alive, none of which acquires what it holds, and nobody reading a lock *)
(* file that has no pid yet.  With each of the three dropped, TLC finds two holders.                                      *)
TwoImporters ==
  /\ ~EmptyReads /\ ~Reentrant
  /\ \A p, q, r \in Proc \ Dead : p = q \/ q = r \/ p = r

(* The dead do nothing and hold nothing. *)
DeadAreIdle ==
  \A p \in Proc :
    /\ p \in Dead => ~alive[p]
    /\ ~alive[p] => pc[p] = "idle" /\ holders[p] = 0

(* A holder holds once, and is in no call. *)
HoldersAreIdle == \A p \in Proc : holders[p] > 0 => pc[p] = "idle" /\ holders[p] = 1

(* What a process takes for stale is not the lock of another live process. *)
SeenIsStale ==
  \A p, q \in Proc : p # q /\ alive[q] /\ pc[p] \in {"claim", "reread"} => seen[p] # q

Theirs(q) == holders[q] > 0 \/ pc[q] = "remove"

(* The lock of q is at its path, or away under the name of p, which will link it back. *)
AtPath(q) == lockFile \in Inode /\ content[lockFile] = q

Away(q, p) ==
  pc[p] \in {"reread", "relink"} /\ lockFile = 0 /\ stale[p] \in Inode /\ content[stale[p]] = q

LockStands ==
  \A p, q \in Proc : p # q /\ alive[p] /\ alive[q] /\ Theirs(q) => AtPath(q) \/ Away(q, p)

(* So is the file of q that waits for its pid, the only such file, and p cannot decide about it yet. *)
NewAtPath(q) == lockFile = ino[q]

NewAway(q, p) == pc[p] = "reread" /\ lockFile = 0 /\ stale[p] = ino[q]

NewStands ==
  \A p, q \in Proc : p # q /\ alive[p] /\ alive[q] /\ pc[q] = "write" =>
    pc[p] # "write" /\ ino[q] \in Inode /\ content[ino[q]] = 0 /\ (NewAtPath(q) \/ NewAway(q, p))

LockInv == DeadAreIdle /\ HoldersAreIdle /\ SeenIsStale /\ LockStands /\ NewStands

-----------------------------------------------------------------------------
(* Typing: each step of a call, then each step. *)

(* The initial states are well typed. *)
LEMMA InitTyped == Init => TypeOK
BY DEF Init, TypeOK, Zero, Label

(* Every step keeps the types. *)
LEMMA StepTyped ==
  ASSUME TypeOK, NEW p \in Proc, Acquire(p) \/ CallStep(p) \/ Release(p) \/ Crash(p)
  PROVE  TypeOK'
<1> USE DEF TypeOK, Label, Go, At, files
<1>1. CASE Acquire(p)
  BY <1>1 DEF Acquire
<1>2. CASE Create(p)
  BY <1>2 DEF Create, InUse
<1>3. CASE Write(p)
  <2>1. content' \in [Inode -> Proc \cup {0}]
    BY <1>3 DEF Write
  <2>2. QED
    BY <1>3, <2>1 DEF Write
<1>4. CASE Exists(p)
  BY <1>4 DEF Exists
<1>5. CASE Read(p)
  BY <1>5 DEF Read, Busy, PidAt, Unwritten
<1>6. CASE Claim(p)
  BY <1>6 DEF Claim, Retry
<1>7. CASE Reread(p)
  BY <1>7 DEF Reread, Unwritten
<1>8. CASE Relink(p)
  BY <1>8 DEF Relink
<1>9. CASE Drop(p)
  BY <1>9 DEF Drop
<1>10. CASE Unlink(p)
  BY <1>10 DEF Unlink, Retry
<1>11. CASE Release(p)
  BY <1>11 DEF Release
<1>12. CASE CheckOwn(p)
  BY <1>12 DEF CheckOwn, Own, PidAt
<1>13. CASE Remove(p)
  BY <1>13 DEF Remove
<1>14. CASE Crash(p)
  BY <1>14 DEF Crash
<1>15. QED
  BY <1>1, <1>2, <1>3, <1>4, <1>5, <1>6, <1>7, <1>8, <1>9, <1>10, <1>11, <1>12, <1>13, <1>14 DEF CallStep

(* Every variable keeps its type. *)
THEOREM LockTypeCorrect == Spec => []TypeOK
<1>1. Init => TypeOK
  BY InitTyped
<1>2. TypeOK /\ [Next]_vars => TypeOK'
  <2>1. TypeOK /\ UNCHANGED vars => TypeOK'
    BY DEF TypeOK, vars, files
  <2>2. QED
    BY <2>1, StepTyped DEF Next
<1>3. QED
  BY <1>1, <1>2, PTL DEF Spec

-----------------------------------------------------------------------------
(* Mutual exclusion. *)

(* Of three processes alive, two are the same. *)
LEMMA TwoAlive ==
  ASSUME TwoImporters, DeadAreIdle
  PROVE  \A p, q, r \in Proc : alive[p] /\ alive[q] /\ alive[r] => p = q \/ q = r \/ p = r
BY DEF TwoImporters, DeadAreIdle

(* A call starts, of a process that holds nothing. *)
LEMMA AcquireKeeps ==
  ASSUME TwoImporters, TypeOK, LockInv, NEW p \in Proc, Acquire(p)
  PROVE  LockInv'
<1> USE DEF TypeOK, Label, LockInv, Go, At, files, Acquire
<1>1. \A x, y, z \in Proc : alive[x] /\ alive[y] /\ alive[z] => x = y \/ y = z \/ x = z
  BY TwoAlive
<1>2. ~EmptyReads /\ ~Reentrant
  BY DEF TwoImporters
<1>3. DeadAreIdle'
  BY <1>1, <1>2 DEF DeadAreIdle, HoldersAreIdle
<1>4. HoldersAreIdle'
  BY <1>1, <1>2 DEF DeadAreIdle, HoldersAreIdle
<1>5. SeenIsStale'
  BY <1>1, <1>2 DEF DeadAreIdle, HoldersAreIdle, SeenIsStale
<1>6. LockStands'
  BY <1>1, <1>2 DEF DeadAreIdle, HoldersAreIdle, SeenIsStale, LockStands, NewStands,
                   Theirs, AtPath, Away, NewAtPath, NewAway
<1>7. NewStands'
  BY <1>1, <1>2 DEF DeadAreIdle, HoldersAreIdle, SeenIsStale, LockStands, NewStands,
                   Theirs, AtPath, Away, NewAtPath, NewAway
<1>8. QED
  BY <1>3, <1>4, <1>5, <1>6, <1>7

(* The path is free, so no other live process has its lock there, or has one away: that would leave the claimant at the create. *)
LEMMA CreateKeeps ==
  ASSUME TwoImporters, TypeOK, LockInv, NEW p \in Proc, Create(p)
  PROVE  LockInv'
<1> USE DEF TypeOK, Label, LockInv, Go, At, files, Create, InUse
<1>1. \A x, y, z \in Proc : alive[x] /\ alive[y] /\ alive[z] => x = y \/ y = z \/ x = z
  BY TwoAlive
<1>2. ~EmptyReads /\ ~Reentrant
  BY DEF TwoImporters
<1>3. DeadAreIdle'
  BY <1>1, <1>2 DEF DeadAreIdle, HoldersAreIdle
<1>4. HoldersAreIdle'
  BY <1>1, <1>2 DEF DeadAreIdle, HoldersAreIdle
<1>5. SeenIsStale'
  BY <1>1, <1>2 DEF DeadAreIdle, HoldersAreIdle, SeenIsStale
<1>6. LockStands'
  BY <1>1, <1>2 DEF DeadAreIdle, HoldersAreIdle, SeenIsStale, LockStands, NewStands,
                   Theirs, AtPath, Away, NewAtPath, NewAway
<1>7. NewStands'
  BY <1>1, <1>2 DEF DeadAreIdle, HoldersAreIdle, SeenIsStale, LockStands, NewStands,
                   Theirs, AtPath, Away, NewAtPath, NewAway
<1>8. QED
  BY <1>3, <1>4, <1>5, <1>6, <1>7

(* The other process cannot be writing too, nor hold a lock that stands. *)
LEMMA WriteKeeps ==
  ASSUME TwoImporters, TypeOK, LockInv, NEW p \in Proc, Write(p)
  PROVE  LockInv'
<1> USE DEF TypeOK, Label, LockInv, Go, At, files, Write
<1>1. \A x, y, z \in Proc : alive[x] /\ alive[y] /\ alive[z] => x = y \/ y = z \/ x = z
  BY TwoAlive
<1>2. ~EmptyReads /\ ~Reentrant
  BY DEF TwoImporters
<1>3. DeadAreIdle'
  BY <1>1, <1>2 DEF DeadAreIdle, HoldersAreIdle
<1>4. HoldersAreIdle'
  BY <1>1, <1>2 DEF DeadAreIdle, HoldersAreIdle
<1>5. SeenIsStale'
  BY <1>1, <1>2 DEF DeadAreIdle, HoldersAreIdle, SeenIsStale
<1>6. LockStands'
  BY <1>1, <1>2 DEF DeadAreIdle, HoldersAreIdle, SeenIsStale, LockStands, NewStands,
                   Theirs, AtPath, Away, NewAtPath, NewAway
<1>7. NewStands'
  BY <1>1, <1>2 DEF DeadAreIdle, HoldersAreIdle, SeenIsStale, LockStands, NewStands,
                   Theirs, AtPath, Away, NewAtPath, NewAway
<1>8. QED
  BY <1>3, <1>4, <1>5, <1>6, <1>7

(* Only the caller moves on. *)
LEMMA ExistsKeeps ==
  ASSUME TwoImporters, TypeOK, LockInv, NEW p \in Proc, Exists(p)
  PROVE  LockInv'
<1> USE DEF TypeOK, Label, LockInv, Go, At, files, Exists
<1>1. \A x, y, z \in Proc : alive[x] /\ alive[y] /\ alive[z] => x = y \/ y = z \/ x = z
  BY TwoAlive
<1>2. ~EmptyReads /\ ~Reentrant
  BY DEF TwoImporters
<1>3. DeadAreIdle'
  BY <1>1, <1>2 DEF DeadAreIdle, HoldersAreIdle
<1>4. HoldersAreIdle'
  BY <1>1, <1>2 DEF DeadAreIdle, HoldersAreIdle
<1>5. SeenIsStale'
  BY <1>1, <1>2 DEF DeadAreIdle, HoldersAreIdle, SeenIsStale
<1>6. LockStands'
  BY <1>1, <1>2 DEF DeadAreIdle, HoldersAreIdle, SeenIsStale, LockStands, NewStands,
                   Theirs, AtPath, Away, NewAtPath, NewAway
<1>7. NewStands'
  BY <1>1, <1>2 DEF DeadAreIdle, HoldersAreIdle, SeenIsStale, LockStands, NewStands,
                   Theirs, AtPath, Away, NewAtPath, NewAway
<1>8. QED
  BY <1>3, <1>4, <1>5, <1>6, <1>7

(* What is not busy names nobody else who is alive. *)
LEMMA ReadKeeps ==
  ASSUME TwoImporters, TypeOK, LockInv, NEW p \in Proc, Read(p)
  PROVE  LockInv'
<1> USE DEF TypeOK, Label, LockInv, Go, At, files, Read, Busy, PidAt, Unwritten
<1>1. \A x, y, z \in Proc : alive[x] /\ alive[y] /\ alive[z] => x = y \/ y = z \/ x = z
  BY TwoAlive
<1>2. ~EmptyReads /\ ~Reentrant
  BY DEF TwoImporters
<1>3. DeadAreIdle'
  BY <1>1, <1>2 DEF DeadAreIdle, HoldersAreIdle
<1>4. HoldersAreIdle'
  BY <1>1, <1>2 DEF DeadAreIdle, HoldersAreIdle
<1>5. SeenIsStale'
  BY <1>1, <1>2 DEF DeadAreIdle, HoldersAreIdle, SeenIsStale
<1>6. LockStands'
  BY <1>1, <1>2 DEF DeadAreIdle, HoldersAreIdle, SeenIsStale, LockStands, NewStands,
                   Theirs, AtPath, Away, NewAtPath, NewAway
<1>7. NewStands'
  BY <1>1, <1>2 DEF DeadAreIdle, HoldersAreIdle, SeenIsStale, LockStands, NewStands,
                   Theirs, AtPath, Away, NewAtPath, NewAway
<1>8. QED
  BY <1>3, <1>4, <1>5, <1>6, <1>7

(* Whoever had its lock at the path now has it away under the name of the claimant. *)
LEMMA ClaimKeeps ==
  ASSUME TwoImporters, TypeOK, LockInv, NEW p \in Proc, Claim(p)
  PROVE  LockInv'
<1> USE DEF TypeOK, Label, LockInv, Go, At, files, Claim, Retry
<1>1. \A x, y, z \in Proc : alive[x] /\ alive[y] /\ alive[z] => x = y \/ y = z \/ x = z
  BY TwoAlive
<1>2. ~EmptyReads /\ ~Reentrant
  BY DEF TwoImporters
<1>3. DeadAreIdle'
  BY <1>1, <1>2 DEF DeadAreIdle, HoldersAreIdle
<1>4. HoldersAreIdle'
  BY <1>1, <1>2 DEF DeadAreIdle, HoldersAreIdle
<1>5. SeenIsStale'
  BY <1>1, <1>2 DEF DeadAreIdle, HoldersAreIdle, SeenIsStale
<1>6. LockStands'
  BY <1>1, <1>2 DEF DeadAreIdle, HoldersAreIdle, SeenIsStale, LockStands, NewStands,
                   Theirs, AtPath, Away, NewAtPath, NewAway
<1>7. NewStands'
  BY <1>1, <1>2 DEF DeadAreIdle, HoldersAreIdle, SeenIsStale, LockStands, NewStands,
                   Theirs, AtPath, Away, NewAtPath, NewAway
<1>8. QED
  BY <1>3, <1>4, <1>5, <1>6, <1>7

(* The lock of a live process is not what was seen, and is linked back; a new one is not judged before it is written. *)
LEMMA RereadKeeps ==
  ASSUME TwoImporters, TypeOK, LockInv, NEW p \in Proc, Reread(p)
  PROVE  LockInv'
<1> USE DEF TypeOK, Label, LockInv, Go, At, files, Reread, Unwritten
<1>1. \A x, y, z \in Proc : alive[x] /\ alive[y] /\ alive[z] => x = y \/ y = z \/ x = z
  BY TwoAlive
<1>2. ~EmptyReads /\ ~Reentrant
  BY DEF TwoImporters
<1>3. DeadAreIdle'
  BY <1>1, <1>2 DEF DeadAreIdle, HoldersAreIdle
<1>4. HoldersAreIdle'
  BY <1>1, <1>2 DEF DeadAreIdle, HoldersAreIdle
<1>5. SeenIsStale'
  BY <1>1, <1>2 DEF DeadAreIdle, HoldersAreIdle, SeenIsStale
<1>6. LockStands'
  BY <1>1, <1>2 DEF DeadAreIdle, HoldersAreIdle, SeenIsStale, LockStands, NewStands,
                   Theirs, AtPath, Away, NewAtPath, NewAway
<1>7. NewStands'
  BY <1>1, <1>2 DEF DeadAreIdle, HoldersAreIdle, SeenIsStale, LockStands, NewStands,
                   Theirs, AtPath, Away, NewAtPath, NewAway
<1>8. QED
  BY <1>3, <1>4, <1>5, <1>6, <1>7

(* The lock is back at the path, unless one stands there already. *)
LEMMA RelinkKeeps ==
  ASSUME TwoImporters, TypeOK, LockInv, NEW p \in Proc, Relink(p)
  PROVE  LockInv'
<1> USE DEF TypeOK, Label, LockInv, Go, At, files, Relink
<1>1. \A x, y, z \in Proc : alive[x] /\ alive[y] /\ alive[z] => x = y \/ y = z \/ x = z
  BY TwoAlive
<1>2. ~EmptyReads /\ ~Reentrant
  BY DEF TwoImporters
<1>3. DeadAreIdle'
  BY <1>1, <1>2 DEF DeadAreIdle, HoldersAreIdle
<1>4. HoldersAreIdle'
  BY <1>1, <1>2 DEF DeadAreIdle, HoldersAreIdle
<1>5. SeenIsStale'
  BY <1>1, <1>2 DEF DeadAreIdle, HoldersAreIdle, SeenIsStale
<1>6. LockStands'
  BY <1>1, <1>2 DEF DeadAreIdle, HoldersAreIdle, SeenIsStale, LockStands, NewStands,
                   Theirs, AtPath, Away, NewAtPath, NewAway
<1>7. NewStands'
  BY <1>1, <1>2 DEF DeadAreIdle, HoldersAreIdle, SeenIsStale, LockStands, NewStands,
                   Theirs, AtPath, Away, NewAtPath, NewAway
<1>8. QED
  BY <1>3, <1>4, <1>5, <1>6, <1>7

(* What is dropped is linked back by now. *)
LEMMA DropKeeps ==
  ASSUME TwoImporters, TypeOK, LockInv, NEW p \in Proc, Drop(p)
  PROVE  LockInv'
<1> USE DEF TypeOK, Label, LockInv, Go, At, files, Drop
<1>1. \A x, y, z \in Proc : alive[x] /\ alive[y] /\ alive[z] => x = y \/ y = z \/ x = z
  BY TwoAlive
<1>2. ~EmptyReads /\ ~Reentrant
  BY DEF TwoImporters
<1>3. DeadAreIdle'
  BY <1>1, <1>2 DEF DeadAreIdle, HoldersAreIdle
<1>4. HoldersAreIdle'
  BY <1>1, <1>2 DEF DeadAreIdle, HoldersAreIdle
<1>5. SeenIsStale'
  BY <1>1, <1>2 DEF DeadAreIdle, HoldersAreIdle, SeenIsStale
<1>6. LockStands'
  BY <1>1, <1>2 DEF DeadAreIdle, HoldersAreIdle, SeenIsStale, LockStands, NewStands,
                   Theirs, AtPath, Away, NewAtPath, NewAway
<1>7. NewStands'
  BY <1>1, <1>2 DEF DeadAreIdle, HoldersAreIdle, SeenIsStale, LockStands, NewStands,
                   Theirs, AtPath, Away, NewAtPath, NewAway
<1>8. QED
  BY <1>3, <1>4, <1>5, <1>6, <1>7

(* What is unlinked was seen to be stale. *)
LEMMA UnlinkKeeps ==
  ASSUME TwoImporters, TypeOK, LockInv, NEW p \in Proc, Unlink(p)
  PROVE  LockInv'
<1> USE DEF TypeOK, Label, LockInv, Go, At, files, Unlink, Retry
<1>1. \A x, y, z \in Proc : alive[x] /\ alive[y] /\ alive[z] => x = y \/ y = z \/ x = z
  BY TwoAlive
<1>2. ~EmptyReads /\ ~Reentrant
  BY DEF TwoImporters
<1>3. DeadAreIdle'
  BY <1>1, <1>2 DEF DeadAreIdle, HoldersAreIdle
<1>4. HoldersAreIdle'
  BY <1>1, <1>2 DEF DeadAreIdle, HoldersAreIdle
<1>5. SeenIsStale'
  BY <1>1, <1>2 DEF DeadAreIdle, HoldersAreIdle, SeenIsStale
<1>6. LockStands'
  BY <1>1, <1>2 DEF DeadAreIdle, HoldersAreIdle, SeenIsStale, LockStands, NewStands,
                   Theirs, AtPath, Away, NewAtPath, NewAway
<1>7. NewStands'
  BY <1>1, <1>2 DEF DeadAreIdle, HoldersAreIdle, SeenIsStale, LockStands, NewStands,
                   Theirs, AtPath, Away, NewAtPath, NewAway
<1>8. QED
  BY <1>3, <1>4, <1>5, <1>6, <1>7

(* The lock file stays until it is looked at. *)
LEMMA ReleaseKeeps ==
  ASSUME TwoImporters, TypeOK, LockInv, NEW p \in Proc, Release(p)
  PROVE  LockInv'
<1> USE DEF TypeOK, Label, LockInv, Go, At, files, Release
<1>1. \A x, y, z \in Proc : alive[x] /\ alive[y] /\ alive[z] => x = y \/ y = z \/ x = z
  BY TwoAlive
<1>2. ~EmptyReads /\ ~Reentrant
  BY DEF TwoImporters
<1>3. DeadAreIdle'
  BY <1>1, <1>2 DEF DeadAreIdle, HoldersAreIdle
<1>4. HoldersAreIdle'
  BY <1>1, <1>2 DEF DeadAreIdle, HoldersAreIdle
<1>5. SeenIsStale'
  BY <1>1, <1>2 DEF DeadAreIdle, HoldersAreIdle, SeenIsStale
<1>6. LockStands'
  BY <1>1, <1>2 DEF DeadAreIdle, HoldersAreIdle, SeenIsStale, LockStands, NewStands,
                   Theirs, AtPath, Away, NewAtPath, NewAway
<1>7. NewStands'
  BY <1>1, <1>2 DEF DeadAreIdle, HoldersAreIdle, SeenIsStale, LockStands, NewStands,
                   Theirs, AtPath, Away, NewAtPath, NewAway
<1>8. QED
  BY <1>3, <1>4, <1>5, <1>6, <1>7

(* Its own pid at the path makes it the file to remove. *)
LEMMA CheckOwnKeeps ==
  ASSUME TwoImporters, TypeOK, LockInv, NEW p \in Proc, CheckOwn(p)
  PROVE  LockInv'
<1> USE DEF TypeOK, Label, LockInv, Go, At, files, CheckOwn, Own, PidAt
<1>1. \A x, y, z \in Proc : alive[x] /\ alive[y] /\ alive[z] => x = y \/ y = z \/ x = z
  BY TwoAlive
<1>2. ~EmptyReads /\ ~Reentrant
  BY DEF TwoImporters
<1>3. DeadAreIdle'
  BY <1>1, <1>2 DEF DeadAreIdle, HoldersAreIdle
<1>4. HoldersAreIdle'
  BY <1>1, <1>2 DEF DeadAreIdle, HoldersAreIdle
<1>5. SeenIsStale'
  BY <1>1, <1>2 DEF DeadAreIdle, HoldersAreIdle, SeenIsStale
<1>6. LockStands'
  BY <1>1, <1>2 DEF DeadAreIdle, HoldersAreIdle, SeenIsStale, LockStands, NewStands,
                   Theirs, AtPath, Away, NewAtPath, NewAway
<1>7. NewStands'
  BY <1>1, <1>2 DEF DeadAreIdle, HoldersAreIdle, SeenIsStale, LockStands, NewStands,
                   Theirs, AtPath, Away, NewAtPath, NewAway
<1>8. QED
  BY <1>3, <1>4, <1>5, <1>6, <1>7

(* The file at the path, if any, is the one the process found to be its own. *)
LEMMA RemoveKeeps ==
  ASSUME TwoImporters, TypeOK, LockInv, NEW p \in Proc, Remove(p)
  PROVE  LockInv'
<1> USE DEF TypeOK, Label, LockInv, Go, At, files, Remove
<1>1. \A x, y, z \in Proc : alive[x] /\ alive[y] /\ alive[z] => x = y \/ y = z \/ x = z
  BY TwoAlive
<1>2. ~EmptyReads /\ ~Reentrant
  BY DEF TwoImporters
<1>3. DeadAreIdle'
  BY <1>1, <1>2 DEF DeadAreIdle, HoldersAreIdle
<1>4. HoldersAreIdle'
  BY <1>1, <1>2 DEF DeadAreIdle, HoldersAreIdle
<1>5. SeenIsStale'
  BY <1>1, <1>2 DEF DeadAreIdle, HoldersAreIdle, SeenIsStale
<1>6. LockStands'
  BY <1>1, <1>2 DEF DeadAreIdle, HoldersAreIdle, SeenIsStale, LockStands, NewStands,
                   Theirs, AtPath, Away, NewAtPath, NewAway
<1>7. NewStands'
  BY <1>1, <1>2 DEF DeadAreIdle, HoldersAreIdle, SeenIsStale, LockStands, NewStands,
                   Theirs, AtPath, Away, NewAtPath, NewAway
<1>8. QED
  BY <1>3, <1>4, <1>5, <1>6, <1>7

(* A crash leaves one process. *)
LEMMA CrashKeeps ==
  ASSUME TwoImporters, TypeOK, LockInv, NEW p \in Proc, Crash(p)
  PROVE  LockInv'
<1> USE DEF TypeOK, Label, LockInv, Go, At, files, Crash
<1>1. \A x, y, z \in Proc : alive[x] /\ alive[y] /\ alive[z] => x = y \/ y = z \/ x = z
  BY TwoAlive
<1>2. ~EmptyReads /\ ~Reentrant
  BY DEF TwoImporters
<1>3. DeadAreIdle'
  BY <1>1, <1>2 DEF DeadAreIdle, HoldersAreIdle
<1>4. HoldersAreIdle'
  BY <1>1, <1>2 DEF DeadAreIdle, HoldersAreIdle
<1>5. SeenIsStale'
  BY <1>1, <1>2 DEF DeadAreIdle, HoldersAreIdle, SeenIsStale
<1>6. LockStands'
  BY <1>1, <1>2 DEF DeadAreIdle, HoldersAreIdle, SeenIsStale, LockStands, NewStands,
                   Theirs, AtPath, Away, NewAtPath, NewAway
<1>7. NewStands'
  BY <1>1, <1>2 DEF DeadAreIdle, HoldersAreIdle, SeenIsStale, LockStands, NewStands,
                   Theirs, AtPath, Away, NewAtPath, NewAway
<1>8. QED
  BY <1>3, <1>4, <1>5, <1>6, <1>7

(* Nobody holds anything at first. *)
LEMMA InitExclusive == Init => LockInv
<1> SUFFICES ASSUME Init PROVE LockInv
  OBVIOUS
<1>1. \A p \in Proc : pc[p] = "idle" /\ holders[p] = 0 /\ (p \in Dead => ~alive[p])
  BY DEF Init, Zero
<1>2. QED
  BY <1>1 DEF LockInv, DeadAreIdle, HoldersAreIdle, SeenIsStale, LockStands, NewStands, Theirs

(* Every step keeps the invariant. *)
LEMMA NextKeeps ==
  ASSUME TwoImporters, TypeOK, LockInv, [Next]_vars
  PROVE  LockInv'
<1>1. CASE UNCHANGED vars
  BY <1>1 DEF vars, files, LockInv, DeadAreIdle, HoldersAreIdle, SeenIsStale, LockStands, NewStands,
              Theirs, AtPath, Away, NewAtPath, NewAway
<1>2. ASSUME NEW p \in Proc, Acquire(p) \/ CallStep(p) \/ Release(p) \/ Crash(p)
      PROVE  LockInv'
  BY <1>2, AcquireKeeps, CreateKeeps, WriteKeeps, ExistsKeeps, ReadKeeps, ClaimKeeps, RereadKeeps,
           RelinkKeeps, DropKeeps, UnlinkKeeps, ReleaseKeeps, CheckOwnKeeps, RemoveKeeps, CrashKeeps DEF CallStep
<1>3. QED
  BY <1>1, <1>2 DEF Next

(* Two holders would both have their pid in the file at the path. *)
LEMMA OneHolder ==
  ASSUME TypeOK, LockInv
  PROVE  MutualExclusion
BY DEF TypeOK, Label, LockInv, DeadAreIdle, HoldersAreIdle, LockStands, Theirs, AtPath, Away, MutualExclusion

(* What is removed carries the pid of the process that removes it. *)
LEMMA RemovesOwn ==
  ASSUME TypeOK, LockInv
  PROVE  \A p, q \in Proc : pc[p] = "remove" /\ q # p => ~(PidAt(lockFile) = q /\ holders[q] > 0)
BY DEF TypeOK, Label, LockInv, DeadAreIdle, HoldersAreIdle, LockStands, Theirs, AtPath, Away, PidAt

(* The invariant holds in every state. *)
LEMMA ExclusiveAlways ==
  ASSUME TwoImporters
  PROVE  Spec => [](TypeOK /\ LockInv)
<1>1. Init => LockInv
  BY InitExclusive
<1>2. TypeOK /\ LockInv /\ [Next]_vars => LockInv'
  BY NextKeeps
<1>3. QED
  BY <1>1, <1>2, LockTypeCorrect, PTL DEF Spec

(* Two importers, however their calls, crashes and leftover locks interleave, never hold one state file's lock together *)
(* (acquireStateLock, state.ts:170-198).                                                                               *)
THEOREM ExclusiveLock ==
  ASSUME TwoImporters
  PROVE  Spec => []MutualExclusion
<1>1. TypeOK /\ LockInv => MutualExclusion
  BY OneHolder
<1>2. QED
  BY <1>1, ExclusiveAlways, PTL

(* A release, whose check of the pid and removal are two steps, never removes the lock the other importer holds *)
(* (state.ts:180-187).                                                                                          *)
THEOREM ReleaseIsOwn ==
  ASSUME TwoImporters
  PROVE  Spec => ReleaseKeepsOthers
<1>1. TypeOK /\ LockInv =>
        \A p, q \in Proc : pc[p] = "remove" /\ q # p => ~(PidAt(lockFile) = q /\ holders[q] > 0)
  BY RemovesOwn
<1> DEFINE Respects ==
      \A p, q \in Proc :
        pc[p] = "remove" /\ lockFile # 0 /\ lockFile' = 0 /\ q # p => ~(PidAt(lockFile) = q /\ holders[q] > 0)
<1>2. TypeOK /\ LockInv /\ [Next]_vars => [Respects]_vars
  BY <1>1
<1>3. QED
  BY <1>2, ExclusiveAlways, PTL DEF Spec, ReleaseKeepsOthers
=============================================================================
