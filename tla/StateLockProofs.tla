--------------------------- MODULE StateLockProofs ---------------------------
(***************************************************************************)
(* Proofs about StateLock, for any set of processes.                       *)
(*                                                                         *)
(* MutualExclusion is not inductive: a state in which a process is inside  *)
(* while the path is free would admit a second one.  The invariant that is *)
(* inductive says why that cannot be: a process that has its file open is  *)
(* the creator of the file at the path.  It needs HandlePins, that is, the *)
(* Windows rule that an open file cannot be removed.                       *)
(***************************************************************************)
EXTENDS StateLock, TLAPS

(* The file of a process that has it open is the file at the path. *)
OpenIsAtPath == \A p \in Procs : Open(p) => file = p

IInv == TypeOK /\ OpenIsAtPath

(* A process that has its file open pins the path. *)
LEMMA OpenPins ==
  ASSUME HandlePins, OpenIsAtPath, NEW p \in Procs, Open(p)
  PROVE  Pinned /\ file # NoProc
  BY LockAssumption DEF OpenIsAtPath, Pinned

(* The variables always hold a file owner and one stage per process.       *)
THEOREM TypeCorrect == Spec => []TypeOK
<1>1. Init => TypeOK
  BY DEF Init, TypeOK, Stages
<1>2. TypeOK /\ [Next]_vars => TypeOK'
  BY DEF TypeOK, Stages, Next, vars, Move, CreateExclusive, Refused, WritePid,
         CloseFile, RemovePath, Crash, UserRemoves
<1> QED
  BY <1>1, <1>2, PTL DEF Spec

(* One step of the lock keeps every open file at the path. *)
LEMMA StepKeepsOpenAtPath ==
  ASSUME HandlePins, IInv, [Next]_vars
  PROVE  OpenIsAtPath'
<1> USE DEF IInv, TypeOK
<1>1. ASSUME NEW p \in Procs, CreateExclusive(p) PROVE OpenIsAtPath'
  <2>1. \A q \in Procs : ~Open(q)
    BY <1>1, LockAssumption DEF CreateExclusive, OpenIsAtPath
  <2> QED
    BY <1>1, <2>1 DEF CreateExclusive, Move, OpenIsAtPath, Open
<1>2. ASSUME NEW p \in Procs, Refused(p) PROVE OpenIsAtPath'
  BY <1>2 DEF Refused, vars, OpenIsAtPath, Open
<1>3. ASSUME NEW p \in Procs, WritePid(p) PROVE OpenIsAtPath'
  BY <1>3 DEF WritePid, Move, OpenIsAtPath, Open
<1>4. ASSUME NEW p \in Procs, CloseFile(p) PROVE OpenIsAtPath'
  BY <1>4 DEF CloseFile, OpenIsAtPath, Open
<1>5. ASSUME NEW p \in Procs, RemovePath(p) PROVE OpenIsAtPath'
  <2>1. ASSUME NEW q \in Procs, Open(q)' PROVE Open(q)
    BY <1>5, <2>1 DEF RemovePath, Move, Open
  <2>2. ASSUME NEW q \in Procs, Open(q)' PROVE file' = q
    BY <1>5, <2>1, <2>2, OpenPins DEF RemovePath, OpenIsAtPath
  <2> QED
    BY <2>2 DEF OpenIsAtPath
<1>6. ASSUME NEW p \in Procs, Crash(p) PROVE OpenIsAtPath'
  BY <1>6 DEF Crash, OpenIsAtPath, Open
<1>7. ASSUME UserRemoves PROVE OpenIsAtPath'
  <2>1. \A q \in Procs : ~Open(q)
    BY <1>7, OpenPins DEF UserRemoves
  <2> QED
    BY <1>7, <2>1 DEF UserRemoves, OpenIsAtPath, Open
<1>8. ASSUME UNCHANGED vars PROVE OpenIsAtPath'
  BY <1>8 DEF vars, OpenIsAtPath, Open
<1> QED
  BY <1>1, <1>2, <1>3, <1>4, <1>5, <1>6, <1>7, <1>8 DEF Next

(* The inductive invariant holds for any number of processes. *)
THEOREM Invariance == ASSUME HandlePins PROVE Spec => []IInv
<1>1. Init => IInv
  BY DEF Init, IInv, TypeOK, Stages, OpenIsAtPath, Open
<1>2. IInv /\ [Next]_vars => OpenIsAtPath'
  BY StepKeepsOpenAtPath
<1> QED
  BY <1>1, <1>2, TypeCorrect, PTL DEF Spec, IInv

(* The invariant leaves room for at most one process inside. *)
LEMMA AtMostOne == ASSUME IInv PROVE MutualExclusion
  BY DEF IInv, OpenIsAtPath, MutualExclusion, Open, Inside

(* At most one process is between AcquireLock and Release, for any number  *)
(* of processes, crashes and removals by hand, where open files are pinned. *)
THEOREM LockExcludes == ASSUME HandlePins PROVE Spec => []MutualExclusion
<1>1. IInv => MutualExclusion
  BY AtMostOne
<1> QED
  BY <1>1, Invariance, PTL

(* Nobody takes the lock file away from the process that is inside.        *)
THEOREM HolderIsSafe == ASSUME HandlePins PROVE Spec => HolderKeepsFile
<1>1. IInv /\ [Next]_vars /\ IInv'
        => [\A p \in Procs : Inside(p) /\ Inside(p)' => file' = file]_vars
  BY DEF IInv, OpenIsAtPath, Open, Inside
<1> QED
  BY <1>1, Invariance, PTL DEF Spec, HolderKeepsFile

-----------------------------------------------------------------------------
(* Who the abstract holder is, read off the stages. *)
LEMMA HolderInside ==
  ASSUME MutualExclusion, NEW p \in Procs, Inside(p)
  PROVE  Holder = p
  BY DEF Holder, MutualExclusion

LEMMA HolderOutside ==
  ASSUME \A p \in Procs : ~Inside(p)
  PROVE  Holder = NoProc
  BY DEF Holder

(* The same two facts about the state after a step. *)
LEMMA HolderInsideNext ==
  ASSUME MutualExclusion', NEW p \in Procs, Inside(p)'
  PROVE  Holder' = p
  BY DEF Holder, MutualExclusion

LEMMA HolderOutsideNext ==
  ASSUME \A p \in Procs : ~Inside(p)'
  PROVE  Holder' = NoProc
  BY DEF Holder

(* A step that does not change who is inside is a stuttering step. *)
LEMMA SameInside ==
  ASSUME MutualExclusion, MutualExclusion',
         \A p \in Procs : Inside(p)' <=> Inside(p)
  PROVE  Holder' = Holder
<1>1. CASE \E p \in Procs : Inside(p)
  BY <1>1, HolderInside, HolderInsideNext
<1>2. CASE \A p \in Procs : ~Inside(p)
  BY <1>2, HolderOutside, HolderOutsideNext
<1> QED
  BY <1>1, <1>2

(* The process that leaves was the holder, and nobody is inside after it. *)
LEMMA LeavingIsLeave ==
  ASSUME MutualExclusion, MutualExclusion', NEW p \in Procs, ~Inside(p)',
         \A q \in Procs \ {p} : Inside(q)' <=> Inside(q)
  PROVE  Mutex!Leave(p) \/ UNCHANGED Holder
<1>1. CASE Inside(p)
  <2>1. \A q \in Procs : ~Inside(q)'
    BY <1>1 DEF MutualExclusion
  <2>2. Holder = p /\ Holder' = NoProc
    BY <1>1, <2>1, HolderInside, HolderOutsideNext
  <2> QED
    BY <2>2 DEF Mutex!Leave
<1>2. CASE ~Inside(p)
  BY <1>2, SameInside
<1> QED
  BY <1>1, <1>2

(* Every step of the lock file is a step of the mutex or a stutter. *)
LEMMA StepRefines ==
  ASSUME IInv, IInv', [Next]_vars
  PROVE  [Mutex!Next]_Holder
<1> USE DEF IInv, TypeOK
<1>0. MutualExclusion /\ MutualExclusion'
  BY DEF OpenIsAtPath, MutualExclusion, Open, Inside
<1>1. ASSUME NEW p \in Procs, WritePid(p) PROVE Mutex!Enter(p)
  <2>1. Inside(p)' /\ file = p
    BY <1>1 DEF WritePid, Move, Inside, Open, OpenIsAtPath
  <2>2. \A q \in Procs : ~Inside(q)
    BY <1>1, <2>1 DEF WritePid, Move, Inside, Open, OpenIsAtPath
  <2>3. Holder = NoProc /\ Holder' = p
    BY <1>0, <2>1, <2>2, HolderOutside, HolderInsideNext
  <2> QED
    BY <2>3 DEF Mutex!Enter
<1>2. ASSUME NEW p \in Procs, CloseFile(p) \/ Crash(p)
      PROVE  Mutex!Leave(p) \/ UNCHANGED Holder
  <2>1. ~Inside(p)' /\ \A q \in Procs \ {p} : Inside(q)' <=> Inside(q)
    BY <1>2 DEF CloseFile, Crash, Inside
  <2> QED
    BY <1>0, <2>1, LeavingIsLeave
<1>3. ASSUME NEW p \in Procs, CreateExclusive(p) \/ Refused(p) \/ RemovePath(p)
      PROVE  UNCHANGED Holder
  <2>1. \A q \in Procs : Inside(q)' <=> Inside(q)
    BY <1>3 DEF CreateExclusive, Refused, RemovePath, Move, Inside, vars
  <2> QED
    BY <1>0, <2>1, SameInside
<1>4. ASSUME UserRemoves \/ UNCHANGED vars PROVE UNCHANGED Holder
  <2>1. \A q \in Procs : Inside(q)' <=> Inside(q)
    BY <1>4 DEF UserRemoves, Inside, vars
  <2> QED
    BY <1>0, <2>1, SameInside
<1> QED
  BY <1>1, <1>2, <1>3, <1>4 DEF Next, Mutex!Next

(* The lock file with its two-step release implements the atomic mutex of  *)
(* OpMutex, for any number of processes, where open files are pinned.      *)
THEOREM LockImplementsMutex == ASSUME HandlePins PROVE Spec => ImplementsMutex
<1>1. Init => Mutex!Init
  BY HolderOutside DEF Init, Inside, Mutex!Init
<1>2. IInv /\ IInv' /\ [Next]_vars => [Mutex!Next]_Holder
  BY StepRefines
<1> QED
  BY <1>1, <1>2, Invariance, PTL DEF Spec, Mutex!Spec, ImplementsMutex
=============================================================================
