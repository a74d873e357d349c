---------------------------- MODULE AssetsProofs ----------------------------
(***************************************************************************)
(* Proof that nothing incomplete gets into the cache, for any number of    *)
(* clients and any file size, as long as all of them call Ensure inside    *)
(* the operation lock.                                                     *)
(*                                                                         *)
(* CachedIsWhole says nothing of the temporary file it comes from.  The    *)
(* invariant follows it: while a client copies, the file holds what this   *)
(* client has written, and between Close and Rename it is whole.           *)
(***************************************************************************)
EXTENDS Assets, TLAPS

AllLocked == Doctors = {}

OneInside == \A c, d \in Clients : Inside(c) /\ Inside(d) => c = d

CopiedSoFar ==
  \A c \in Clients : stage[c] = "copy" => tmp[file[c]] = 0 .. pos[c]

WholeToRename ==
  \A c \in Clients : stage[c] = "rename" => tmp[file[c]] = Whole

IInv == TypeOK /\ OneInside /\ CopiedSoFar /\ WholeToRename /\ CachedIsWhole

(* A step of one client leaves the others where they are. *)
LEMMA StepIsLocal ==
  ASSUME TypeOK, NEW c \in Clients, Step(c), NEW d \in Clients \ {c}
  PROVE  stage'[d] = stage[d] /\ file'[d] = file[d] /\ pos'[d] = pos[d]
BY DEF TypeOK, Step, Enter, Fetch, Check, OpenTemporary, RequestFails, CopyPiece,
       Close, CloseFails, RemoveTemporary, Rename, Crash, Move, Return, Continue

(* Only one client is in Ensure: who enters finds nobody, and who takes    *)
(* another step was in already.                                            *)
LEMMA StepKeepsOneInside ==
  ASSUME AllLocked, TypeOK, OneInside, NEW c \in Clients, Step(c)
  PROVE  OneInside'
<1>1. CASE Enter(c)
  <2>1. \A d \in Clients : ~Inside(d)
    BY <1>1 DEF Enter, AllLocked, Clients
  <2> QED
    BY <2>1, StepIsLocal DEF OneInside, Inside
<1>2. CASE ~Enter(c)
  <2>1. Inside(c)
    BY <1>2 DEF Step, Fetch, Check, OpenTemporary, RequestFails, CopyPiece, Close,
       CloseFails, RemoveTemporary, Rename, Crash, Move, Inside
  <2>2. \A d \in Clients : Inside(d)' => d = c
    BY <2>1, StepIsLocal DEF OneInside, Inside
  <2> QED
    BY <2>2 DEF OneInside
<1> QED
  BY <1>1, <1>2

(* Types are kept by every step. *)
LEMMA StepKeepsTypes ==
  ASSUME TypeOK, NEW c \in Clients, Step(c)
  PROVE  TypeOK'
<1> USE AssetsAssumption DEF TypeOK, Files, Whole, NoFile, Empty, Stages
<1>1. CASE Enter(c) \/ Fetch(c) \/ Check(c) \/ RequestFails(c) \/ Crash(c)
  BY <1>1 DEF Enter, Fetch, Check, RequestFails, Crash, Move, Return, Continue
<1>2. CASE OpenTemporary(c)
  BY <1>2 DEF OpenTemporary, Move
<1>3. CASE CopyPiece(c)
  BY <1>3 DEF CopyPiece
<1>4. CASE Close(c) \/ CloseFails(c)
  BY <1>4 DEF Close, CloseFails, Move
<1>5. CASE RemoveTemporary(c)
  BY <1>5 DEF RemoveTemporary, Return
<1>6. CASE Rename(c)
  BY <1>6 DEF Rename, Return, Continue
<1> QED
  BY <1>1, <1>2, <1>3, <1>4, <1>5, <1>6 DEF Step

(* Every variable keeps its type with any number of clients, doctors that  *)
(* download at the same time included: no client writes past the end of a  *)
(* file although others empty it.                                          *)
THEOREM AssetsTypeCorrect == Spec => []TypeOK
<1>1. Init => TypeOK
  BY AssetsAssumption DEF Init, TypeOK, Files, Whole, NoFile, Empty, Stages
<1>2. TypeOK /\ [Next]_vars => TypeOK'
  <2> SUFFICES ASSUME TypeOK, [Next]_vars PROVE TypeOK'
    OBVIOUS
  <2>1. ASSUME NEW c \in Clients, Step(c) PROVE TypeOK'
    BY <2>1, StepKeepsTypes
  <2>2. CASE UNCHANGED vars
    BY <2>2 DEF vars, TypeOK
  <2> QED
    BY <2>1, <2>2 DEF Next
<1> QED
  BY <1>1, <1>2, PTL DEF Spec

(* What the one client inside does to the two files. *)
LEMMA StepKeepsFiles ==
  ASSUME AllLocked, IInv, NEW c \in Clients, Step(c)
  PROVE  CopiedSoFar' /\ WholeToRename' /\ CachedIsWhole'
<1> USE AssetsAssumption DEF IInv
<1>1. TypeOK' /\ OneInside'
  BY StepKeepsTypes, StepKeepsOneInside
<1>2. ASSUME NEW d \in Clients, stage'[d] \in {"copy", "rename"}
      PROVE  d = c /\ ~Enter(c)
  <2>1. Inside(d)'
    BY <1>2 DEF Inside
  <2>2. CASE Enter(c)
    BY <1>1, <1>2, <2>1, <2>2 DEF Enter, Move, TypeOK, OneInside, Inside
  <2>3. CASE ~Enter(c)
    <3>1. Inside(c)
      BY <2>3 DEF Step, Fetch, Check, OpenTemporary, RequestFails, CopyPiece, Close,
         CloseFails, RemoveTemporary, Rename, Crash, Move, Inside
    <3> QED
      BY <2>1, <2>3, <3>1, StepIsLocal DEF OneInside, Inside
  <2> QED
    BY <2>2, <2>3
<1>3. stage'[c] = "copy" => tmp'[file'[c]] = 0 .. pos'[c]
  <2>1. CASE OpenTemporary(c)
    BY <2>1 DEF OpenTemporary, Move, TypeOK, Empty
  <2>2. CASE CopyPiece(c)
    <3>1. pos[c] \in Nat /\ (0 .. pos[c]) \union {pos[c] + 1} = 0 .. (pos[c] + 1)
      BY DEF TypeOK
    <3> QED
      BY <2>2, <3>1 DEF CopyPiece, CopiedSoFar, TypeOK
  <2>3. CASE ~OpenTemporary(c) /\ ~CopyPiece(c)
    BY <2>3 DEF TypeOK, Step, Enter, Fetch, Check, RequestFails, Close, CloseFails,
       RemoveTemporary, Rename, Crash, Move, Return, Continue
  <2> QED
    BY <2>1, <2>2, <2>3
<1>4. stage'[c] = "rename" => tmp'[file'[c]] = Whole
  <2>1. CASE Close(c)
    BY <2>1 DEF Close, Move, CopiedSoFar, Whole, TypeOK
  <2>2. CASE ~Close(c)
    BY <2>2 DEF TypeOK, Step, Enter, Fetch, Check, OpenTemporary, RequestFails,
       CopyPiece, CloseFails, RemoveTemporary, Rename, Crash, Move, Return, Continue
  <2> QED
    BY <2>1, <2>2
<1>5. CachedIsWhole'
  <2>1. CASE Rename(c)
    BY <2>1 DEF Rename, WholeToRename, CachedIsWhole, Exists, TypeOK
  <2>2. CASE ~Rename(c)
    <3>1. UNCHANGED dest
      BY <2>2 DEF Step, Enter, Fetch, Check, OpenTemporary, RequestFails, CopyPiece,
         Close, CloseFails, RemoveTemporary, Crash
    <3> QED
      BY <3>1 DEF CachedIsWhole, Exists
  <2> QED
    BY <2>1, <2>2
<1> QED
  BY <1>2, <1>3, <1>4, <1>5 DEF CopiedSoFar, WholeToRename

(* Neither a failing download nor the death of a client ever leaves a part *)
(* of a binary under its final name, where Start would take it for whole.  *)
THEOREM CacheIsWhole ==
  ASSUME AllLocked
  PROVE  Spec => []CachedIsWhole
<1>1. Init => IInv
  BY AssetsAssumption
  DEF Init, IInv, TypeOK, OneInside, CopiedSoFar, WholeToRename, CachedIsWhole,
      Inside, Exists, Files, Whole, NoFile, Empty, Stages
<1>2. IInv /\ [Next]_vars => IInv'
  <2> SUFFICES ASSUME IInv, [Next]_vars PROVE IInv'
    OBVIOUS
  <2>1. ASSUME NEW c \in Clients, Step(c) PROVE IInv'
    BY <2>1, StepKeepsTypes, StepKeepsOneInside, StepKeepsFiles DEF IInv
  <2>2. CASE UNCHANGED vars
    BY <2>2 DEF vars, IInv, TypeOK, OneInside, CopiedSoFar, WholeToRename,
       CachedIsWhole, Inside, Exists
  <2> QED
    BY <2>1, <2>2 DEF Next
<1>3. IInv => CachedIsWhole
  BY DEF IInv
<1> QED
  BY <1>1, <1>2, <1>3, PTL DEF Spec
=============================================================================
