------------------------------ MODULE StateLock ------------------------------
(***************************************************************************)
(* internal/state/lock.go: the lock file every Start and Stop takes.       *)
(*                                                                         *)
(* The lock is the existence of <StateDir>/wsl-tunneling.lock, created     *)
(* with O_EXCL.  A process keeps the file open while it holds the lock.    *)
(* Release closes the handle and then removes the path, in two steps.  A   *)
(* process that dies leaves the file behind, and the error message tells   *)
(* the user to remove it.                                                  *)
(*                                                                         *)
(* On Windows, where the program runs, Go opens files without              *)
(* FILE_SHARE_DELETE, so nobody can remove the path while some process has *)
(* it open; HandlePins says whether that holds.  Without it (POSIX) the    *)
(* path can be removed under its owner.                                    *)
(***************************************************************************)
CONSTANTS
  Procs,       (* client processes: tray, command line, daemon        *)
  NoProc,      (* "no such file"                                      *)
  HandlePins   (* TRUE: an open file cannot be removed (Windows)      *)

ASSUME LockAssumption == NoProc \notin Procs /\ HandlePins \in BOOLEAN

VARIABLES
  file,    (* the process that created the file at the path, or NoProc *)
  stage    (* where each process is in AcquireLock .. Release          *)

vars == <<file, stage>>

(* "out"    not in an operation                                        *)
(* "opened" has created the file, has not written its pid yet          *)
(* "inside" AcquireLock returned the lock                              *)
(* "closed" has closed the handle, the path is still to be removed     *)
Stages == {"out", "opened", "inside", "closed"}

Open(p)   == stage[p] \in {"opened", "inside"}
Inside(p) == stage[p] = "inside"

Move(p, from, to) == stage[p] = from /\ stage' = [stage EXCEPT ![p] = to]

(* The path refers to a file that its creator still has open. *)
Pinned == HandlePins /\ \E p \in Procs : file = p /\ Open(p)

-----------------------------------------------------------------------------
Init ==
  /\ file = NoProc
  /\ stage = [p \in Procs |-> "out"]

(* Mutant of CreateExclusive: O_EXCL forgotten. *)
CreateShared(p) == Move(p, "out", "opened") /\ file' = p

(* os.OpenFile(path, O_CREATE|O_EXCL|O_WRONLY) succeeds. *)
CreateExclusive(p) ==
  /\ file = NoProc
  /\ Move(p, "out", "opened")
  /\ file' = p

(* The file exists: AcquireLock returns the "another operation" error. *)
Refused(p) == stage[p] = "out" /\ file # NoProc /\ UNCHANGED vars

WritePid(p) == Move(p, "opened", "inside") /\ UNCHANGED file

(* Writing the pid failed, or Release: the handle is closed first. *)
CloseFile(p) ==
  /\ Open(p)
  /\ stage' = [stage EXCEPT ![p] = "closed"]
  /\ UNCHANGED file

(* Mutant of RemovePath: it removes the path although a newer holder has   *)
(* the file open.                                                          *)
RemoveForced(p) == Move(p, "closed", "out") /\ file' = NoProc

(* os.Remove(lock.path) removes whatever file is at the path by now; its   *)
(* error is not looked at.                                                 *)
RemovePath(p) ==
  /\ Move(p, "closed", "out")
  /\ file' = IF Pinned THEN file ELSE NoProc

(* The process dies (killed, or the tray quits); its handle is closed by   *)
(* the system and a new process may come in its place.                     *)
Crash(p) ==
  /\ stage[p] # "out"
  /\ stage' = [stage EXCEPT ![p] = "out"]
  /\ UNCHANGED file

(* The user follows the error message and removes the file, stale or not. *)
UserRemoves == file # NoProc /\ ~Pinned /\ file' = NoProc /\ UNCHANGED stage

Next ==
  \/ \E p \in Procs :
       \/ CreateExclusive(p) \/ Refused(p) \/ WritePid(p)
       \/ CloseFile(p) \/ RemovePath(p) \/ Crash(p)
  \/ UserRemoves

Spec == Init /\ [][Next]_vars

-----------------------------------------------------------------------------
TypeOK == file \in Procs \union {NoProc} /\ stage \in [Procs -> Stages]

(* At most one process is between AcquireLock and Release, whatever        *)
(* processes die, however late a Release removes the path, and whenever    *)
(* the user removes the file by hand.                                      *)
MutualExclusion == \A p, q \in Procs : Inside(p) /\ Inside(q) => p = q

(* No step of another actor -- a late RemovePath of an earlier holder, or  *)
(* the user -- takes the lock file away from the process that is inside.   *)
HolderKeepsFile ==
  [][\A p \in Procs : Inside(p) /\ Inside(p)' => file' = file]_vars

(* The abstract holder: the process that is inside. *)
Holder == IF \E p \in Procs : Inside(p)
          THEN CHOOSE p \in Procs : Inside(p)
          ELSE NoProc

Mutex == INSTANCE OpMutex WITH holder <- Holder

(* The lock file with its two-step release implements the atomic mutex. *)
ImplementsMutex == Mutex!Spec
=============================================================================
