----------------------------- MODULE AtomicLease -----------------------------
(***************************************************************************)
(* What a lock file of the chart alerts promises: the file belongs to one  *)
(* process or to none, and only the process it belongs to may act as its   *)
(* holder.  FileLease implements it step by step until a process dies, and *)
(* so does the monitor, whose requests take, hand over and give back the   *)
(* file.                                                                   *)
(***************************************************************************)
CONSTANT Users   \* the processes that compete for the file

VARIABLES
    owner,       \* the process the file belongs to, as a set: empty or one
    holders      \* the processes that act as holder of the lease

vars == <<owner, holders>>

Init == owner = {} /\ holders = {}

(* The file is created. *)
Take(u) ==
    /\ owner = {}
    /\ owner' = {u}
    /\ UNCHANGED holders

(* Its owner starts to act on it, *)
Enter(u) ==
    /\ owner = {u}
    /\ holders' = holders \cup {u}
    /\ UNCHANGED owner

(* stops to, *)
Leave(u) ==
    /\ holders' = holders \ {u}
    /\ UNCHANGED owner

(* and removes it, if it has not died. *)
GiveBack(u) ==
    /\ owner = {u}
    /\ owner' = {}
    /\ holders' = holders \ {u}

Next == \E u \in Users : Take(u) \/ Enter(u) \/ Leave(u) \/ GiveBack(u)

Spec == Init /\ [][Next]_vars

(* A holder owns the file, so that there is one at most. *)
HolderIsOwner ==
    /\ holders \subseteq owner
    /\ \A u, v \in owner : u = v
==============================================================================
