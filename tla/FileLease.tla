------------------------------ MODULE FileLease ------------------------------
(***************************************************************************)
(* The lock file both halves of the chart-alert pipeline use: the Next     *)
(* monitor (acquireChartAlertLock) and the Python dispatcher               *)
(* (_chart_alert_dispatch_lock) run the same protocol on a file of their   *)
(* own.  A file is created exclusively, then named with pid and token; a   *)
(* second process takes it over if the pid in it answers no signal.        *)
(*                                                                         *)
(* A step is one file-system call.  A pid stands for one process from      *)
(* birth to death; pids are not reused.                                    *)
(***************************************************************************)
EXTENDS Naturals

CONSTANTS
  Pids,        \* processes that compete for the lock
  MaxCrashes,  \* bound: processes killed
  MaxErrors,   \* bound: failed writes of the lock file (disk full)
  CleansUp,    \* TRUE: the monitor unlinks after a failed write; FALSE: Python
  NoFile

ASSUME BoundsAssumption == MaxCrashes \in Nat /\ MaxErrors \in Nat
ASSUME CleansUpAssumption == CleansUp \in BOOLEAN
ASSUME NoFileAssumption == NoFile \notin [owner : Pids, named : BOOLEAN]

VARIABLES
  file,     \* what is at the lock's path: NoFile, or whose file and if named
  pc,       \* what each process does next
  crashes,  \* history: processes killed so far
  errors    \* history: failed writes so far

vars == <<file, pc, crashes, errors>>

Files == [owner : Pids, named : BOOLEAN] \union {NoFile}
PCs == {"idle", "write", "judge", "unlink", "retry", "held", "remove", "dead"}

Init ==
  /\ file = NoFile
  /\ pc = [p \in Pids |-> "idle"]
  /\ crashes = 0
  /\ errors = 0

Goto(p, l) == pc' = [pc EXCEPT ![p] = l]

(* open(path, "x") succeeds. *)
Create(p) ==
  /\ pc[p] \in {"idle", "retry"}
  /\ file = NoFile
  /\ file' = [owner |-> p, named |-> FALSE]
  /\ Goto(p, "write")
  /\ UNCHANGED <<crashes, errors>>

(* It fails: the first time the owner is examined, the second time not. *)
Exists(p) ==
  /\ file # NoFile
  /\ \/ pc[p] = "idle"  /\ Goto(p, "judge")
     \/ pc[p] = "retry" /\ Goto(p, "idle")
  /\ UNCHANGED <<file, crashes, errors>>

(* pid and token are written through the open handle, wherever the file is *)
Write(p) ==
  /\ pc[p] = "write"
  /\ file' = IF file # NoFile /\ file.owner = p THEN [file EXCEPT !.named = TRUE] ELSE file
  /\ Goto(p, "held")
  /\ UNCHANGED <<crashes, errors>>

(* ... or the write fails and the exception leaves the function. *)
WriteError(p) ==
  /\ pc[p] = "write"
  /\ errors < MaxErrors
  /\ errors' = errors + 1
  /\ file' = IF CleansUp THEN NoFile ELSE file
  /\ Goto(p, "idle")
  /\ UNCHANGED crashes

(* Mutation: an unreadable lock counts as stale. *)
IsStale_Unreadable == file = NoFile \/ ~file.named \/ pc[file.owner] = "dead"

(* Mutation: the owner is believed to be alive. *)
IsStale_Never == FALSE

(* The file names an owner that does not answer.  An empty file, or none   *)
(* any more, is not stale.                                                 *)
IsStale == file # NoFile /\ file.named /\ pc[file.owner] = "dead"

Judge(p) ==
  /\ pc[p] = "judge"
  /\ Goto(p, IF IsStale THEN "unlink" ELSE "idle")
  /\ UNCHANGED <<file, crashes, errors>>

(* By now it may be somebody else's file. *)
Unlink(p) ==
  /\ pc[p] = "unlink"
  /\ file' = NoFile
  /\ Goto(p, "retry")
  /\ UNCHANGED <<crashes, errors>>

(* The work is done; the release reads the file first. *)
Verify(p) ==
  /\ pc[p] = "held"
  /\ Goto(p, IF file = [owner |-> p, named |-> TRUE] THEN "remove" ELSE "idle")
  /\ UNCHANGED <<file, crashes, errors>>

Remove(p) ==
  /\ pc[p] = "remove"
  /\ file' = NoFile
  /\ Goto(p, "idle")
  /\ UNCHANGED <<crashes, errors>>

Crash(p) ==
  /\ pc[p] # "dead"
  /\ crashes < MaxCrashes
  /\ crashes' = crashes + 1
  /\ Goto(p, "dead")
  /\ UNCHANGED <<file, errors>>

Step(p) ==
  \/ Create(p) \/ Exists(p) \/ Write(p) \/ WriteError(p) \/ Judge(p) \/ Unlink(p)
  \/ Verify(p) \/ Remove(p)

Next == \E p \in Pids : Step(p) \/ Crash(p)

Spec == Init /\ [][Next]_vars

(* A --watch dispatcher and a page that polls the status route try again   *)
(* and again, and a process that runs goes on.                             *)
FairSpec == Spec /\ \A p \in Pids : WF_vars(Step(p))

------------------------------------------------------------------------------
TypeOK ==
  /\ file \in Files
  /\ pc \in [Pids -> PCs]
  /\ crashes \in 0..MaxCrashes
  /\ errors \in 0..MaxErrors

Holds(p) == pc[p] \in {"held", "remove"}

(* "A per-user process lock prevents the preview and the service from      *)
(* polling concurrently"; the dispatcher "also serializes send passes".    *)
MutualExclusion == \A p, q \in Pids : Holds(p) /\ Holds(q) => p = q

(* As long as no process has died, the lock excludes. *)
ExclusiveUntilCrash == crashes = 0 => MutualExclusion

(* A file that names a dead owner is taken over in the end: the death of   *)
(* an owner does not block the others for good.                            *)
StaleLockIsRecovered ==
  \A d \in Pids :
    pc[d] = "dead" /\ file = [owner |-> d, named |-> TRUE]
      ~> file # [owner |-> d, named |-> TRUE]

(* "A replacement owner ... must remain untouched": a release removes its  *)
(* own file only.                                                          *)
ReleaseIsOwn ==
  [][\A p \in Pids : pc[p] = "remove" /\ pc'[p] = "idle" =>
       file = NoFile \/ file.owner = p]_vars

(* ... which is so until a process dies. *)
ReleaseIsOwnUntilCrash ==
  [][crashes = 0 =>
       \A p \in Pids : pc[p] = "remove" /\ pc'[p] = "idle" =>
         file = [owner |-> p, named |-> TRUE]]_vars

(* The file belongs to the process that created it. *)
owner   == {p \in Pids : file # NoFile /\ file.owner = p}
holders == {p \in Pids : Holds(p)}
Lease   == INSTANCE AtomicLease WITH Users <- Pids

(* Until a process dies every step is one of the lease, or none: the steps *)
(* between the creation of the file and its release could as well be one.  *)
ImplementsLeaseUntilCrash ==
  Lease!Init /\ [][crashes' = 0 => Lease!Next]_<<owner, holders>>

(* Why: without a death no file is stale, so a file that exists belongs to *)
(* the process that made it until that process removes it.                 *)
OwnersOwn ==
  crashes = 0 =>
    \A p \in Pids :
      /\ pc[p] \notin {"unlink", "retry", "dead"}
      /\ pc[p] = "write" => file = [owner |-> p, named |-> FALSE]
      /\ Holds(p) => file = [owner |-> p, named |-> TRUE]
==============================================================================
