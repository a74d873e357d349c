------------------------------- MODULE Assets -------------------------------
(***************************************************************************)
(* internal/gvisor/assets.go: Ensure, which downloads gvproxy and          *)
(* gvforwarder into the cache directory unless both files are there.       *)
(*                                                                         *)
(* A download goes to <destination>.tmp and is renamed when it is          *)
(* complete.  A file that exists is never looked at again, so what counts  *)
(* is that no incomplete file gets the final name.                         *)
(*                                                                         *)
(* Manager.Start calls Ensure while it holds the operation lock, the       *)
(* doctor command calls it without.  All writers of one destination share  *)
(* one temporary file: opening it truncates what another one has written,  *)
(* and that one goes on at its own offset.  The files are Windows files:   *)
(* a path that somebody has open can be neither removed nor renamed.       *)
(***************************************************************************)
EXTENDS Naturals, FiniteSets

CONSTANTS
  Starters,  (* clients that call Ensure inside the operation lock         *)
  Doctors,   (* clients that call it without the lock                      *)
  Size       (* a file is downloaded in this many pieces                   *)

Clients == Starters \union Doctors
Files   == {"gvproxy", "gvforwarder"}

(* What is on the disk under a name: nothing, or a file with some pieces;  *)
(* piece 0 is the file itself, which is there before any piece is written. *)
NoFile == {}
Empty  == {0}
Whole  == 0 .. Size

ASSUME AssetsAssumption ==
  /\ Starters \intersect Doctors = {}
  /\ Size \in Nat \ {0}

VARIABLES
  dest,   (* each cached file: the pieces it holds                         *)
  tmp,    (* its temporary file, the same                                  *)
  stage,  (* where each client is in Ensure                                *)
  file,   (* the file it downloads or is about to download                 *)
  pos     (* how many pieces it has copied                                 *)

vars == <<dest, tmp, stage, file, pos>>

(* "out"     not in Ensure            "fetch" about to ask for the release  *)
(* "check"   about to test the next file                                   *)
(* "connect" about to send a request  "copy"  has the temporary file open   *)
(* "rename"  has closed it, complete  "clean" has closed it, failed         *)
Stages == {"out", "fetch", "check", "connect", "copy", "rename", "clean"}

Inside(c)  == stage[c] # "out"
Opened(f)  == \E c \in Clients : stage[c] = "copy" /\ file[c] = f
Exists(f)  == dest[f] # NoFile

Move(c, from, to) == stage[c] = from /\ stage' = [stage EXCEPT ![c] = to]

(* After a file comes the next one; after the last, or an error, Ensure    *)
(* returns.                                                                *)
Return(c) ==
  /\ stage' = [stage EXCEPT ![c] = "out"]
  /\ file' = [file EXCEPT ![c] = "gvproxy"]
  /\ pos' = [pos EXCEPT ![c] = 0]

Continue(c) ==
  IF file[c] = "gvproxy"
  THEN /\ stage' = [stage EXCEPT ![c] = "check"]
       /\ file' = [file EXCEPT ![c] = "gvforwarder"]
       /\ pos' = [pos EXCEPT ![c] = 0]
  ELSE Return(c)

-----------------------------------------------------------------------------
(* Nothing is cached, and an earlier run may have left a temporary file.   *)
Init ==
  /\ dest = [f \in Files |-> NoFile]
  /\ tmp \in [Files -> {NoFile, Empty}]
  /\ stage = [c \in Clients |-> "out"]
  /\ file = [c \in Clients |-> "gvproxy"]
  /\ pos = [c \in Clients |-> 0]

(* Ensure is called; with both files there it returns at once. *)
Enter(c) ==
  /\ Move(c, "out", "fetch")
  /\ \E f \in Files : ~Exists(f)
  /\ c \in Starters => \A d \in Starters : ~Inside(d)
  /\ UNCHANGED <<dest, tmp, file, pos>>

(* fetchRelease and findAsset, for both files at once: either may fail.    *)
Fetch(c) ==
  /\ \/ Move(c, "fetch", "check") /\ UNCHANGED <<file, pos>>
     \/ stage[c] = "fetch" /\ Return(c)
  /\ UNCHANGED <<dest, tmp>>

Check(c) ==
  /\ stage[c] = "check"
  /\ IF Exists(file[c]) THEN Continue(c)
     ELSE Move(c, "check", "connect") /\ UNCHANGED <<file, pos>>
  /\ UNCHANGED <<dest, tmp>>

(* The answer is there: the temporary file is created, or truncated. *)
OpenTemporary(c) ==
  /\ Move(c, "connect", "copy")
  /\ tmp' = [tmp EXCEPT ![file[c]] = Empty]
  /\ pos' = [pos EXCEPT ![c] = 0]
  /\ UNCHANGED <<dest, file>>

RequestFails(c) ==
  /\ stage[c] = "connect" /\ Return(c)
  /\ UNCHANGED <<dest, tmp>>

(* Mutant of CopyPiece: a failed copy counts as a short but complete one.  *)
CopyOrStop(c) ==
  /\ \/ /\ stage[c] = "copy" /\ pos[c] < Size
        /\ tmp' = [tmp EXCEPT ![file[c]] = @ \union {pos[c] + 1}]
        /\ pos' = [pos EXCEPT ![c] = @ + 1]
        /\ UNCHANGED stage
     \/ Move(c, "copy", "rename") /\ UNCHANGED <<tmp, pos>>
  /\ UNCHANGED <<dest, file>>

(* Mutant of CopyPiece: one piece more than the file has. *)
CopyTooFar(c) ==
  /\ stage[c] = "copy" /\ pos[c] <= Size
  /\ tmp' = [tmp EXCEPT ![file[c]] = @ \union {pos[c] + 1}]
  /\ pos' = [pos EXCEPT ![c] = @ + 1]
  /\ UNCHANGED <<dest, stage, file>>

CopyPiece(c) ==
  /\ stage[c] = "copy" /\ pos[c] < Size
  /\ tmp' = [tmp EXCEPT ![file[c]] = @ \union {pos[c] + 1}]
  /\ pos' = [pos EXCEPT ![c] = @ + 1]
  /\ UNCHANGED <<dest, stage, file>>

(* The file is closed, after the last piece or after an error. *)
Close(c) ==
  /\ Move(c, "copy", IF pos[c] = Size THEN "rename" ELSE "clean")
  /\ UNCHANGED <<dest, tmp, file, pos>>

CloseFails(c) ==
  /\ Move(c, "copy", "clean")
  /\ UNCHANGED <<dest, tmp, file, pos>>

(* os.Remove(temporary); the download has failed. *)
RemoveTemporary(c) ==
  /\ stage[c] = "clean"
  /\ tmp' = [tmp EXCEPT ![file[c]] = IF Opened(file[c]) THEN @ ELSE NoFile]
  /\ Return(c)
  /\ UNCHANGED dest

(* os.Rename replaces the destination.  It fails while another client has  *)
(* the temporary file open, and when another one has renamed it already.   *)
Rename(c) ==
  /\ stage[c] = "rename"
  /\ IF Opened(file[c]) \/ tmp[file[c]] = NoFile
     THEN Return(c) /\ UNCHANGED <<dest, tmp>>
     ELSE /\ dest' = [dest EXCEPT ![file[c]] = tmp[file[c]]]
          /\ tmp' = [tmp EXCEPT ![file[c]] = NoFile]
          /\ Continue(c)

(* The client dies; the system closes its file. *)
Crash(c) ==
  /\ Inside(c) /\ Return(c)
  /\ UNCHANGED <<dest, tmp>>

Step(c) ==
  \/ Enter(c) \/ Fetch(c) \/ Check(c) \/ OpenTemporary(c) \/ RequestFails(c)
  \/ CopyPiece(c) \/ Close(c) \/ CloseFails(c) \/ RemoveTemporary(c)
  \/ Rename(c) \/ Crash(c)

Next == \E c \in Clients : Step(c)

Spec == Init /\ [][Next]_vars

-----------------------------------------------------------------------------
TypeOK ==
  /\ dest \in [Files -> SUBSET Whole]
  /\ tmp \in [Files -> SUBSET Whole]
  /\ stage \in [Clients -> Stages]
  /\ file \in [Clients -> Files]
  /\ pos \in [Clients -> 0 .. Size]

(* A file that has its final name is complete: neither a failing download  *)
(* nor the death of a client leaves a part of a binary in the cache.       *)
CachedIsWhole == \A f \in Files : Exists(f) => dest[f] = Whole
=============================================================================
