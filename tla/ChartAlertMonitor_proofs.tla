----------------------- MODULE ChartAlertMonitor_proofs -----------------------
(***************************************************************************)
(* What ChartAlertMonitor promises for any number of servers, requests,    *)
(* watches and patterns, and any number of failures and crashes.  What it  *)
(* says of the lease ends with the first crash: a lock file whose owner is *)
(* dead can be taken over twice.                                           *)
(***************************************************************************)
EXTENDS ChartAlertMonitor, FiniteSetTheorems, TLAPS

-----------------------------------------------------------------------------
(* The inductive invariant.                                                *)

Requests == [pc: ReqPcs, op: Ops, w: Watches, got: BOOLEAN]
Ticks    == [pc: TickPcs, w: Watches, seen: SUBSET Patterns,
             todo: SUBSET Patterns, known: SUBSET Patterns]

(* What an update has read is a file that keeps to the limit. *)
WithinLimit(f) == Cardinality(f.watched) <= WatchLimit
SnapsAreWithinLimit == \A s \in Servers : WithinLimit(snap[s])

(* Request k of s has created the lease file and has neither handed it to  *)
(* releaseLease nor removed it.                                            *)
Carries(s, k) ==
    \/ req[s][k].pc = "assign" /\ req[s][k].got
    \/ req[s][k].pc \in {"update", "write"} /\ req[s][k].got /\ req[s][k].op \in {"add", "remove"}
    \/ req[s][k].pc \in {"verify", "unlink"}

(* The file has one owner inside the process that it names, *)
OwnLease ==
    /\ \A s \in Servers : lease[s] => lock = s /\ \A k \in Slots : ~Carries(s, k)
    /\ \A s \in Servers, k \in Slots : Carries(s, k) =>
          lock = s /\ \A j \in Slots : Carries(s, j) => j = k

(* as long as nobody has taken it for stale, *)
NoneStale == lock # Dead /\ \A s \in Servers, k \in Slots : req[s][k].pc # "clear"

(* which nobody does before a server has died. *)
LeaseInv == crashes = 0 => NoneStale /\ OwnLease

(* The writer of a process is the one request, or the tick, between the    *)
(* read and the write of its update; a tick that goes on has set busy.     *)
WriterInv ==
    \A s \in Servers :
        /\ ~busy[s] => tick[s].pc = "idle"
        /\ \A k \in Slots : req[s][k].pc = "write" <=> writer[s] = k
        /\ tick[s].pc \in {"recording", "failing"} <=> writer[s] = Tick

(* What a copy of the file calls known is spooled or in a baseline, and so *)
(* is what a tick will call known but for the events it still has to write.*)
Accounted(w, P, A) == {w} \X P \subseteq A
Backed(f, A)       == \A w \in Watches : Accounted(w, f.known[w], A)
TickBacked(t, A) ==
    /\ t.pc \in {"spool", "recording"} => Accounted(t.w, t.known \ t.todo, A)
    /\ t.pc = "recording" => t.todo = {}

KnownInv ==
    /\ Backed(state, spooled \cup silent)
    /\ \A s \in Servers : /\ Backed(snap[s], spooled \cup silent)
                          /\ TickBacked(tick[s], spooled \cup silent)

TypeInv    == TypeOK /\ SnapsAreWithinLimit
MonitorInv == TypeInv /\ LeaseInv /\ WriterInv /\ KnownInv

(* One server: the queue is then the only way to the file.                 *)
OneServer == \A s, t \in Servers : s = t

(* Between its read and its write an update has the latest file. *)
QueueInv == \A s \in Servers : writer[s] # Nobody => snap[s] = state

(* What the tick still has to spool is not known yet. *)
TodoInv ==
    \A s \in Servers, p \in Patterns :
        tick[s].pc = "spool" /\ p \in tick[s].todo => p \notin state.known[tick[s].w]

(* A request that ends by arming the timer, giving the lease back or       *)
(* meeting a failing file.                                                 *)
Disarms(s, k) ==
    \/ req[s][k].op = "pause" /\ req[s][k].pc \in {"acquire", "judge", "clear", "retry", "assign",
                                                 "update", "write", "release"}
    \/ req[s][k].op = "start" /\ req[s][k].pc \in {"update", "write", "release"}

ArmedInv ==
    \A s \in Servers :
        state.running /\ lease[s] /\ fileErrors = 0 => Armed(s) \/ \E k \in Slots : Disarms(s, k)

ServerInv == QueueInv /\ NoLostUpdate /\ TodoInv /\ ArmedInv

-----------------------------------------------------------------------------
USE MonitorAssumption DEF MonitorAssumption, file, service, history, bounds

LEMMA WatchFact == AWatch \in Watches
BY DEF AWatch

LEMMA NothingFact ==
  /\ NoReq \in Requests /\ NoTick \in Ticks /\ NoFile \in Files /\ WithinLimit(NoFile)
<1>1. NoFile \in Files
  BY DEF NoFile, Files
<1>2. WithinLimit(NoFile)
  BY FS_EmptySet DEF NoFile, WithinLimit
<1> QED
  BY <1>1, <1>2, WatchFact DEF NoReq, NoTick, Requests, Ticks, ReqPcs, Ops, TickPcs

(* A step that replaces one request. *)
LEMMA OneRequest ==
  ASSUME req \in [Servers -> [Slots -> Requests]], NEW s \in Servers, NEW k \in Slots,
         NEW r \in Requests, req' = [req EXCEPT ![s][k] = r]
  PROVE  /\ req' \in [Servers -> [Slots -> Requests]]
         /\ req'[s][k] = r
         /\ \A t \in Servers, j \in Slots : t # s \/ j # k => req'[t][j] = req[t][j]
OBVIOUS

(* What a step that moves request k of s on to pc leaves of the requests. *)
Moved(s, k, pc) ==
    /\ req' \in [Servers -> [Slots -> Requests]]
    /\ req'[s][k].pc = pc /\ req'[s][k].op = req[s][k].op
    /\ req'[s][k].w = req[s][k].w /\ req'[s][k].got = req[s][k].got
    /\ \A t \in Servers, j \in Slots : t # s \/ j # k => req'[t][j] = req[t][j]

LEMMA GotoFact ==
  ASSUME req \in [Servers -> [Slots -> Requests]], NEW s \in Servers, NEW k \in Slots,
         NEW pc \in ReqPcs, Goto(s, k, pc)
  PROVE  Moved(s, k, pc)
<1> DEFINE r == [req[s][k] EXCEPT !.pc = pc]
<1>1. req[s][k] \in Requests
  OBVIOUS
<1>2. /\ r \in Requests
      /\ r.pc = pc /\ r.op = req[s][k].op /\ r.w = req[s][k].w /\ r.got = req[s][k].got
  BY <1>1 DEF Requests
<1>3. req' = [req EXCEPT ![s][k] = r]
  BY DEF Goto
<1> HIDE DEF r
<1>4. /\ req' \in [Servers -> [Slots -> Requests]]
      /\ req'[s][k] = r
      /\ \A t \in Servers, j \in Slots : t # s \/ j # k => req'[t][j] = req[t][j]
  BY <1>2, <1>3, OneRequest
<1> QED
  BY <1>2, <1>4 DEF Moved

-----------------------------------------------------------------------------
(* Types, and the limit of the watches.                                    *)

LEMMA TypeFact ==
  ASSUME TypeOK
  PROVE  /\ state \in Files /\ WithinLimit(state)
         /\ req \in [Servers -> [Slots -> Requests]] /\ tick \in [Servers -> Ticks]
BY DEF TypeOK, Requests, Ticks, WithinLimit

LEMMA ChangedFact ==
  ASSUME NEW f \in Files, NEW op \in Ops, NEW w \in Watches,
         WithinLimit(f), ~Refused(f, op, w)
  PROVE  Changed(f, op, w) \in Files /\ WithinLimit(Changed(f, op, w))
<1>1. IsFiniteSet(f.watched) /\ f.watched \subseteq Watches
  BY FS_Subset DEF Files
<1>2. CASE op = "add" /\ w \notin f.watched
  <2>1. Changed(f, op, w) = [f EXCEPT !.watched = @ \cup {w}, !.initialized = @ \ {w}, !.known[w] = {}]
    BY <1>2 DEF Changed
  <2>2. Cardinality(f.watched \cup {w}) = Cardinality(f.watched) + 1 /\ Cardinality(f.watched) \in Nat
    BY <1>1, <1>2, FS_AddElement, FS_CardinalityType
  <2>3. Cardinality(f.watched) < WatchLimit
    BY <1>2, <2>2 DEF Refused
  <2>4. Changed(f, op, w) \in Files /\ Changed(f, op, w).watched = f.watched \cup {w}
    <3> DEFINE N == [f.known EXCEPT ![w] = {}]
               W == f.watched \cup {w}
               I == f.initialized \ {w}
    <3>1. W \in SUBSET Watches /\ I \in SUBSET Watches /\ N \in [Watches -> SUBSET Patterns]
      BY <1>1 DEF Files
    <3>2. Changed(f, op, w) = [f EXCEPT !.watched = W, !.initialized = I, !.known = N]
      BY <2>1
    <3> HIDE DEF W, I, N
    <3>3. Changed(f, op, w) \in Files /\ Changed(f, op, w).watched = W
      BY <3>1, <3>2 DEF Files
    <3> QED
      BY <3>3 DEF W
  <2> QED
    BY <2>2, <2>3, <2>4 DEF WithinLimit
<1>3. CASE op = "remove"
  <2>1. Changed(f, op, w) = [f EXCEPT !.watched = @ \ {w}, !.initialized = @ \ {w}, !.known[w] = {}]
    BY <1>3 DEF Changed
  <2>2. Cardinality(f.watched \ {w}) <= Cardinality(f.watched) /\ Cardinality(f.watched) \in Nat
        /\ Cardinality(f.watched \ {w}) \in Nat
    BY <1>1, FS_Subset, FS_CardinalityType
  <2>3. Changed(f, op, w) \in Files /\ Changed(f, op, w).watched = f.watched \ {w}
    <3> DEFINE N == [f.known EXCEPT ![w] = {}]
               W == f.watched \ {w}
               I == f.initialized \ {w}
    <3>1. W \in SUBSET Watches /\ I \in SUBSET Watches /\ N \in [Watches -> SUBSET Patterns]
      BY <1>1 DEF Files
    <3>2. Changed(f, op, w) = [f EXCEPT !.watched = W, !.initialized = I, !.known = N]
      BY <2>1
    <3> HIDE DEF W, I, N
    <3>3. Changed(f, op, w) \in Files /\ Changed(f, op, w).watched = W
      BY <3>1, <3>2 DEF Files
    <3> QED
      BY <3>3 DEF W
  <2> QED
    BY <2>2, <2>3 DEF WithinLimit
<1>4. CASE op = "start"
  BY <1>4 DEF Changed, Files, WithinLimit
<1>5. CASE op = "pause"
  BY <1>5 DEF Changed, Files, WithinLimit
<1>6. CASE op \notin {"remove", "start", "pause"} /\ ~(op = "add" /\ w \notin f.watched)
  BY <1>6 DEF Changed
<1> QED
  BY <1>2, <1>3, <1>4, <1>5, <1>6

LEMMA AppliedFact ==
  ASSUME NEW a \in [running: BOOLEAN, watched: SUBSET Watches], NEW op \in Ops, NEW w \in Watches
  PROVE  AppliedTo(a, op, w) \in [running: BOOLEAN, watched: SUBSET Watches]
<1> DEFINE g == [NoFile EXCEPT !.running = a.running, !.watched = a.watched]
<1>1. g \in Files
  BY NothingFact DEF Files
<1> HIDE DEF g
<1>2. Changed(g, op, w) \in Files
  BY <1>1 DEF Changed, Files
<1> QED
  BY <1>2 DEF AppliedTo, g, Files

LEMMA RecordedFact ==
  ASSUME NEW f \in Files, NEW t \in Ticks
  PROVE  Recorded(f, t) \in Files /\ Recorded(f, t).watched = f.watched
                                  /\ Recorded(f, t).running = f.running
BY DEF Recorded, Files, Ticks

LEMMA InitType == Init => TypeInv
<1> SUFFICES ASSUME Init PROVE TypeInv
  OBVIOUS
<1>1. state \in Files /\ Cardinality(state.watched) <= WatchLimit
  <2>1. PICK r \in BOOLEAN, W \in SUBSET Watches :
              Cardinality(W) <= WatchLimit /\ state = [NoFile EXCEPT !.running = r, !.watched = W]
    BY DEF Init
  <2> QED
    BY <2>1, NothingFact DEF Files
<1>2. NoReq \in Requests /\ NoTick \in Ticks /\ NoFile \in Files /\ WithinLimit(NoFile)
  BY NothingFact
<1>3. applied \in [running: BOOLEAN, watched: SUBSET Watches]
  BY <1>1 DEF Init, Files
<1>4. /\ req \in [Servers -> [Slots -> Requests]] /\ tick \in [Servers -> Ticks]
      /\ snap \in [Servers -> Files] /\ SnapsAreWithinLimit
  BY <1>2 DEF Init, SnapsAreWithinLimit
<1>5. /\ key \in Slots \cup {Nobody, Kept} /\ lock \in Servers \cup {Free, Dead}
      /\ lease \in [Servers -> BOOLEAN] /\ timer \in [Servers -> BOOLEAN]
      /\ busy \in [Servers -> BOOLEAN] /\ tail \in [Servers -> Nat]
      /\ writer \in [Servers -> Slots \cup {Nobody, Tick}]
  BY DEF Init
<1>6. spooled \subseteq Watches \X Patterns /\ silent \subseteq Watches \X Patterns
  BY DEF Init
<1>7. /\ controls \in 0..MaxControls /\ polls \in 0..MaxPolls /\ errors \in 0..MaxErrors
      /\ fileErrors \in 0..MaxFileErrors /\ crashes \in 0..MaxCrashes
  <2>1. controls = 0 /\ polls = 0 /\ errors = 0 /\ fileErrors = 0 /\ crashes = 0
    BY DEF Init
  <2> QED
    BY <2>1
<1> QED
  BY <1>1, <1>3, <1>4, <1>5, <1>6, <1>7 DEF TypeInv, TypeOK, Requests, Ticks

(* Where the other requests are. *)
OthersStay(s, k) == \A t \in Servers, j \in Slots : t # s \/ j # k => req'[t][j] = req[t][j]

(* The steps of acquireChartAlertLock leave all but the lease file alone.  *)
AcquireLeaves ==
    UNCHANGED <<state, lease, timer, busy, tick, tail, writer, snap, history, bounds>>

AcquirePcs == {"acquire", "judge", "clear", "retry"}

LEMMA AcquireFact ==
  ASSUME TypeOK, NEW s \in Servers, NEW k \in Slots, Acquire(s, k)
  PROVE  /\ req' \in [Servers -> [Slots -> Requests]] /\ OthersStay(s, k) /\ AcquireLeaves
         /\ req[s][k].pc \in AcquirePcs /\ req'[s][k].op = req[s][k].op
         /\ \/ Create(s, k) /\ req'[s][k].pc = "assign" /\ req'[s][k].got
            \/ Exists(s, k) /\ req'[s][k].pc \in {"judge", "assign"} /\ ~req'[s][k].got
            \/ /\ Judge(s, k) /\ req'[s][k].pc = (IF IsStale(s) THEN "clear" ELSE "assign")
               /\ ~req'[s][k].got
            \/ Clear(s, k) /\ req'[s][k].pc = "retry"
<1>0. req \in [Servers -> [Slots -> Requests]] /\ req[s][k] \in Requests
  BY TypeFact
<1>a. ASSUME NEW pc \in ReqPcs, NEW got \in BOOLEAN,
             req' = [req EXCEPT ![s][k].pc = pc, ![s][k].got = got]
      PROVE  /\ req' \in [Servers -> [Slots -> Requests]] /\ OthersStay(s, k)
             /\ req'[s][k].pc = pc /\ req'[s][k].got = got /\ req'[s][k].op = req[s][k].op
  <2> DEFINE r == [req[s][k] EXCEPT !.pc = pc, !.got = got]
  <2>1. r \in Requests /\ r.pc = pc /\ r.op = req[s][k].op /\ r.got = got
    BY <1>0 DEF Requests
  <2>2. req' = [req EXCEPT ![s][k] = r]
    BY <1>0, <1>a
  <2> HIDE DEF r
  <2>3. /\ req' \in [Servers -> [Slots -> Requests]] /\ req'[s][k] = r
        /\ \A t \in Servers, j \in Slots : t # s \/ j # k => req'[t][j] = req[t][j]
    BY <1>0, <2>1, <2>2, OneRequest
  <2> QED
    BY <2>1, <2>3 DEF OthersStay
<1>1. CASE Create(s, k)
  <2>1. req' = [req EXCEPT ![s][k].pc = "assign", ![s][k].got = TRUE]
    BY <1>1 DEF Create
  <2> QED
    BY <1>a, <1>1, <2>1 DEF Create, AcquireLeaves, AcquirePcs, ReqPcs
<1>2. CASE Exists(s, k)
  <2> DEFINE pc == IF req[s][k].pc = "acquire" THEN "judge" ELSE "assign"
  <2>1. req' = [req EXCEPT ![s][k].pc = pc, ![s][k].got = FALSE]
    BY <1>0, <1>2 DEF Exists
  <2>2. pc \in ReqPcs /\ pc \in {"judge", "assign"}
    BY DEF ReqPcs
  <2> HIDE DEF pc
  <2> QED
    BY <1>a, <1>2, <2>1, <2>2 DEF Exists, AcquireLeaves, AcquirePcs
<1>3. CASE Judge(s, k)
  <2> DEFINE pc == IF IsStale(s) THEN "clear" ELSE "assign"
  <2>1. req' = [req EXCEPT ![s][k].pc = pc, ![s][k].got = FALSE]
    BY <1>3 DEF Judge
  <2>2. pc \in ReqPcs
    BY DEF ReqPcs
  <2> HIDE DEF pc
  <2>3. /\ req' \in [Servers -> [Slots -> Requests]] /\ OthersStay(s, k)
        /\ req'[s][k].pc = pc /\ req'[s][k].got = FALSE /\ req'[s][k].op = req[s][k].op
    BY <1>a, <2>1, <2>2
  <2> QED
    BY <1>3, <2>3 DEF Judge, AcquireLeaves, AcquirePcs, pc
<1>4. CASE Clear(s, k)
  <2>1. Moved(s, k, "retry")
    BY <1>0, <1>4, GotoFact DEF Clear, ReqPcs
  <2> QED
    BY <1>4, <2>1 DEF Clear, Moved, OthersStay, AcquireLeaves, AcquirePcs
<1> QED
  BY <1>1, <1>2, <1>3, <1>4 DEF Acquire

LEMMA RequestType ==
  ASSUME TypeInv, NEW s \in Servers, NEW k \in Slots
  PROVE  /\ GetStatus(s, k) => TypeInv'
         /\ CheckStatus(s, k) => TypeInv'
         /\ \A op \in Ops \ {"status"}, w \in Watches : Control(s, k, op, w) => TypeInv'
         /\ Acquire(s, k) => TypeInv'
         /\ Assign(s, k) => TypeInv'
         /\ BeginUpdate(s, k) => TypeInv'
         /\ EndUpdate(s, k) => TypeInv'
         /\ FailUpdate(s, k) => TypeInv'
         /\ Release(s, k) => TypeInv'
         /\ Verify(s, k) => TypeInv'
         /\ Unlink(s, k) => TypeInv'
<1> USE DEF TypeInv, SnapsAreWithinLimit
<1>0. req \in [Servers -> [Slots -> Requests]] /\ req[s][k] \in Requests
  BY TypeFact
<1>1. ASSUME GetStatus(s, k) PROVE TypeInv'
  <2>1. [NoReq EXCEPT !.pc = "check", !.got = state.running] \in Requests
    BY NothingFact, TypeFact DEF Requests, Files, ReqPcs
  <2>2. req' \in [Servers -> [Slots -> Requests]]
    BY <1>0, <1>1, <2>1, OneRequest DEF GetStatus
  <2> QED
    BY <1>1, <2>2 DEF GetStatus, TypeOK, Requests
<1>2. ASSUME CheckStatus(s, k) PROVE TypeInv'
  <2>1. req' \in [Servers -> [Slots -> Requests]]
    BY <1>0, <1>2, GotoFact DEF CheckStatus, Moved, ReqPcs
  <2> QED
    BY <1>2, <2>1 DEF CheckStatus, TypeOK, Requests
<1>3. ASSUME NEW op \in Ops \ {"status"}, NEW w \in Watches, Control(s, k, op, w) PROVE TypeInv'
  <2>1. [pc |-> IF lease[s] THEN "update" ELSE "acquire", op |-> op, w |-> w, got |-> FALSE] \in Requests
    BY DEF Requests, ReqPcs
  <2>2. req' \in [Servers -> [Slots -> Requests]]
    BY <1>0, <1>3, <2>1, OneRequest DEF Control
  <2>3. timer' \in [Servers -> BOOLEAN] /\ controls' \in 0..MaxControls
    BY <1>3 DEF Control, TypeOK
  <2> QED
    BY <1>3, <2>2, <2>3 DEF Control, TypeOK, Requests
<1>4. ASSUME Acquire(s, k) PROVE TypeInv'
  <2>1. req' \in [Servers -> [Slots -> Requests]] /\ AcquireLeaves
    BY <1>4, AcquireFact
  <2>2. lock' \in Servers \cup {Free, Dead} /\ key' \in Slots \cup {Nobody, Kept}
    BY <1>4 DEF Acquire, Create, Exists, Judge, Clear, TypeOK
  <2> QED
    BY <2>1, <2>2 DEF AcquireLeaves, TypeOK, Requests
<1>5. ASSUME Assign(s, k) PROVE TypeInv'
  <2>1. req' \in [Servers -> [Slots -> Requests]]
    BY <1>0, <1>5, GotoFact DEF Assign, Moved, ReqPcs
  <2>2. Assigned(s, k) \in BOOLEAN
    BY <1>0 DEF Assigned, TypeOK, Requests
  <2>3. lease' \in [Servers -> BOOLEAN] /\ timer' \in [Servers -> BOOLEAN]
    BY <1>5, <2>2 DEF Assign, TypeOK
  <2>4. key' \in Slots \cup {Nobody, Kept}
    BY <1>5 DEF Assign, KeyAssigned, TypeOK
  <2> QED
    BY <1>5, <2>1, <2>3, <2>4 DEF Assign, TypeOK, Requests
<1>6. ASSUME BeginUpdate(s, k) PROVE TypeInv'
  <2>1. req' \in [Servers -> [Slots -> Requests]]
    BY <1>0, <1>6, GotoFact DEF BeginUpdate, Moved, ReqPcs
  <2>2. /\ snap' \in [Servers -> Files] /\ \A t \in Servers : WithinLimit(snap'[t])
        /\ writer' \in [Servers -> Slots \cup {Nobody, Tick}]
    BY <1>6, TypeFact DEF BeginUpdate, TypeOK
  <2> QED
    BY <1>6, <2>1, <2>2 DEF BeginUpdate, TypeOK, Requests, WithinLimit
<1>7. ASSUME EndUpdate(s, k) PROVE TypeInv'
  <2>1. req' \in [Servers -> [Slots -> Requests]]
    BY <1>0, <1>7, GotoFact DEF EndUpdate, Moved, ReqPcs
  <2>2. /\ snap' \in [Servers -> Files] /\ \A t \in Servers : WithinLimit(snap'[t])
        /\ writer' \in [Servers -> Slots \cup {Nobody, Tick}]
    BY <1>7, NothingFact DEF EndUpdate, TypeOK
  <2>3. snap[s] \in Files /\ WithinLimit(snap[s]) /\ req[s][k].op \in Ops /\ req[s][k].w \in Watches
    BY <1>0 DEF TypeOK, Requests
  <2>4. state' \in Files /\ WithinLimit(state')
    BY <1>7, <2>3, TypeFact, ChangedFact DEF EndUpdate
  <2>5. applied' \in [running: BOOLEAN, watched: SUBSET Watches]
    BY <1>7, <2>3, AppliedFact DEF EndUpdate, TypeOK
  <2>6. timer' \in [Servers -> BOOLEAN]
    BY <1>7 DEF EndUpdate, TypeOK
  <2> QED
    BY <1>7, <2>1, <2>2, <2>4, <2>5, <2>6 DEF EndUpdate, TypeOK, Requests, WithinLimit
<1>8. ASSUME FailUpdate(s, k) PROVE TypeInv'
  <2>1. req' \in [Servers -> [Slots -> Requests]]
    BY <1>0, <1>8, GotoFact DEF FailUpdate, Moved, ReqPcs
  <2>2. /\ snap' \in [Servers -> Files] /\ \A t \in Servers : WithinLimit(snap'[t])
        /\ writer' \in [Servers -> Slots \cup {Nobody, Tick}]
    BY <1>8, NothingFact DEF FailUpdate, TypeOK
  <2>3. fileErrors' \in 0..MaxFileErrors
    BY <1>8 DEF FailUpdate, TypeOK
  <2> QED
    BY <1>8, <2>1, <2>2, <2>3 DEF FailUpdate, TypeOK, Requests, WithinLimit
<1>9. ASSUME Release(s, k) PROVE TypeInv'
  <2>1. req' \in [Servers -> [Slots -> Requests]]
    BY <1>0, <1>9, GotoFact DEF Release, Moved, ReqPcs
  <2>2. key' \in Slots \cup {Nobody, Kept}
    BY <1>9 DEF Release, TypeOK
  <2> QED
    BY <1>9, <2>1, <2>2 DEF Release, TypeOK, Requests
<1>10. ASSUME Verify(s, k) PROVE TypeInv'
  <2>1. req' \in [Servers -> [Slots -> Requests]]
    BY <1>0, <1>10, GotoFact DEF Verify, Moved, ReqPcs
  <2> QED
    BY <1>10, <2>1 DEF Verify, TypeOK, Requests
<1>11. ASSUME Unlink(s, k) PROVE TypeInv'
  <2>1. req' \in [Servers -> [Slots -> Requests]]
    BY <1>0, <1>11, GotoFact DEF Unlink, Moved, ReqPcs
  <2> QED
    BY <1>11, <2>1 DEF Unlink, TypeOK, Requests
<1> QED
  BY <1>1, <1>2, <1>3, <1>4, <1>5, <1>6, <1>7, <1>8, <1>9, <1>10, <1>11

(* A step that replaces the tick of one server. *)
LEMMA OneTick ==
  ASSUME TypeOK, NEW s \in Servers, NEW t \in Ticks, tick' = [tick EXCEPT ![s] = t]
  PROVE  /\ tick' \in [Servers -> Ticks] /\ tick'[s] = t
         /\ \A u \in Servers : u # s => tick'[u] = tick[u]
BY DEF TypeOK, Ticks

LEMMA TickMoves ==
  ASSUME TypeOK, NEW s \in Servers, NEW pc \in TickPcs,
         tick' = [tick EXCEPT ![s].pc = pc]
  PROVE  /\ tick' \in [Servers -> Ticks]
         /\ tick'[s].pc = pc /\ tick'[s].w = tick[s].w /\ tick'[s].seen = tick[s].seen
         /\ tick'[s].todo = tick[s].todo /\ tick'[s].known = tick[s].known
         /\ \A u \in Servers : u # s => tick'[u] = tick[u]
<1> DEFINE t == [tick[s] EXCEPT !.pc = pc]
<1>1. tick[s] \in Ticks
  BY TypeFact
<1>2. /\ t \in Ticks
      /\ t.pc = pc /\ t.w = tick[s].w /\ t.seen = tick[s].seen
      /\ t.todo = tick[s].todo /\ t.known = tick[s].known
  BY <1>1 DEF Ticks
<1>3. tick' = [tick EXCEPT ![s] = t]
  OBVIOUS
<1> HIDE DEF t
<1> QED
  BY <1>2, <1>3, OneTick

LEMMA TickType ==
  ASSUME TypeInv, NEW s \in Servers
  PROVE  /\ Fire(s) => TypeInv'
         /\ Select(s) => TypeInv'
         /\ Poll(s) => TypeInv'
         /\ Match(s) => TypeInv'
         /\ Spool(s) => TypeInv'
         /\ BeginRecord(s) => TypeInv'
         /\ EndRecord(s) => TypeInv'
         /\ Throw(s) => TypeInv'
         /\ Finally(s) => TypeInv'
         /\ Reschedule(s) => TypeInv'
         /\ Crash(s) => TypeInv'
<1> USE DEF TypeInv, SnapsAreWithinLimit
<1>0. tick \in [Servers -> Ticks] /\ tick[s] \in Ticks
  BY TypeFact
<1>1. ASSUME Fire(s) PROVE TypeInv'
  <2>1. [NoTick EXCEPT !.pc = "read"] \in Ticks
    BY NothingFact DEF Ticks, TickPcs
  <2>2. tick' \in [Servers -> Ticks] /\ timer' \in [Servers -> BOOLEAN] /\ busy' \in [Servers -> BOOLEAN]
    BY <1>0, <1>1, <2>1, OneTick DEF Fire, TypeOK
  <2> QED
    BY <1>1, <2>2 DEF Fire, TypeOK, Ticks
<1>2. ASSUME Select(s) PROVE TypeInv'
  <2>1. ASSUME NEW w \in state.watched, tick' = [tick EXCEPT ![s].pc = "poll", ![s].w = w]
        PROVE  tick' \in [Servers -> Ticks]
    <3>1. w \in Watches
      BY TypeFact DEF Files
    <3>2. [tick[s] EXCEPT !.pc = "poll", !.w = w] \in Ticks
      BY <1>0, <3>1 DEF Ticks, TickPcs
    <3>3. tick' = [tick EXCEPT ![s] = [tick[s] EXCEPT !.pc = "poll", !.w = w]]
      BY <1>0, <2>1
    <3> QED
      BY <3>2, <3>3, OneTick
  <2>2. tick' \in [Servers -> Ticks]
    BY <1>2, <2>1, TickMoves DEF Select, TickPcs
  <2> QED
    BY <1>2, <2>2 DEF Select, TypeOK, Ticks
<1>3. ASSUME Poll(s) PROVE TypeInv'
  <2>1. ASSUME NEW P \in SUBSET Patterns, tick' = [tick EXCEPT ![s].pc = "match", ![s].seen = P]
        PROVE  tick' \in [Servers -> Ticks]
    <3>1. [tick[s] EXCEPT !.pc = "match", !.seen = P] \in Ticks
      BY <1>0 DEF Ticks, TickPcs
    <3>2. tick' = [tick EXCEPT ![s] = [tick[s] EXCEPT !.pc = "match", !.seen = P]]
      BY <1>0, <2>1
    <3> QED
      BY <3>1, <3>2, OneTick
  <2>2. tick' \in [Servers -> Ticks]
    BY <1>3, <2>1, TickMoves DEF Poll, TickPcs
  <2>3. polls' \in 0..MaxPolls
    BY <1>3 DEF Poll, TypeOK
  <2> QED
    BY <1>3, <2>2, <2>3 DEF Poll, TypeOK, Ticks
<1>4. ASSUME Match(s) PROVE TypeInv'
  <2> DEFINE t == tick[s]
             a == Additions(t)
             n == state.known[t.w] \cup t.seen
  <2>1. t.w \in Watches /\ t.seen \in SUBSET Patterns /\ a \in SUBSET Patterns /\ n \in SUBSET Patterns
    BY <1>0, TypeFact DEF Ticks, Files, Additions
  <2>2. \/ tick' = [tick EXCEPT ![s].pc = "spool", ![s].todo = a, ![s].known = n]
        \/ tick' = [tick EXCEPT ![s].pc = "finally"]
    BY <1>4 DEF Match
  <2>3. silent' \subseteq Watches \X Patterns
    BY <1>4, <2>1 DEF Match, TypeOK
  <2> HIDE DEF a, n
  <2>4. [tick[s] EXCEPT !.pc = "spool", !.todo = a, !.known = n] \in Ticks
    BY <1>0, <2>1 DEF Ticks, TickPcs
  <2>5. tick' = [tick EXCEPT ![s].pc = "spool", ![s].todo = a, ![s].known = n]
        => tick' = [tick EXCEPT ![s] = [tick[s] EXCEPT !.pc = "spool", !.todo = a, !.known = n]]
    BY <1>0
  <2>6. tick' \in [Servers -> Ticks]
    BY <2>2, <2>4, <2>5, OneTick, TickMoves DEF TickPcs
  <2> QED
    BY <1>4, <2>3, <2>6 DEF Match, TypeOK, Ticks
<1>5. ASSUME Spool(s) PROVE TypeInv'
  <2>1. PICK p \in tick[s].todo : /\ spooled' = spooled \cup {<<tick[s].w, p>>}
                                  /\ tick' = [tick EXCEPT ![s].todo = @ \ {p}]
    BY <1>5 DEF Spool
  <2>2. spooled' \subseteq Watches \X Patterns
    BY <1>0, <2>1 DEF Ticks, TypeOK
  <2>3. [tick[s] EXCEPT !.todo = @ \ {p}] \in Ticks
    BY <1>0 DEF Ticks
  <2>4. tick' = [tick EXCEPT ![s] = [tick[s] EXCEPT !.todo = @ \ {p}]]
    BY <1>0, <2>1
  <2>5. tick' \in [Servers -> Ticks]
    BY <2>3, <2>4, OneTick
  <2> QED
    BY <1>5, <2>2, <2>5 DEF Spool, TypeOK, Ticks
<1>6. ASSUME BeginRecord(s) PROVE TypeInv'
  <2>1. tick' \in [Servers -> Ticks]
    BY <1>0, <1>6, TickMoves DEF BeginRecord, TickPcs
  <2>2. /\ snap' \in [Servers -> Files] /\ \A u \in Servers : WithinLimit(snap'[u])
        /\ writer' \in [Servers -> Slots \cup {Nobody, Tick}]
    BY <1>6, TypeFact DEF BeginRecord, TypeOK
  <2> QED
    BY <1>6, <2>1, <2>2 DEF BeginRecord, TypeOK, Ticks, WithinLimit
<1>7. ASSUME EndRecord(s) PROVE TypeInv'
  <2>1. tick' \in [Servers -> Ticks]
    BY <1>0, <1>7, TickMoves DEF EndRecord, TickPcs
  <2>2. /\ snap' \in [Servers -> Files] /\ \A u \in Servers : WithinLimit(snap'[u])
        /\ writer' \in [Servers -> Slots \cup {Nobody, Tick}]
    BY <1>7, NothingFact DEF EndRecord, TypeOK
  <2>3. state' \in Files /\ WithinLimit(state')
    <3>1. snap[s] \in Files /\ WithinLimit(snap[s])
      BY DEF TypeOK
    <3> QED
      BY <1>0, <1>7, <3>1, RecordedFact DEF EndRecord, WithinLimit
  <2> QED
    BY <1>7, <2>1, <2>2, <2>3 DEF EndRecord, TypeOK, Ticks, WithinLimit
<1>8. ASSUME Throw(s) PROVE TypeInv'
  <2>1. tick' \in [Servers -> Ticks]
    BY <1>0, <1>8, TickMoves DEF Throw, TickPcs
  <2>2. /\ snap' \in [Servers -> Files] /\ \A u \in Servers : WithinLimit(snap'[u])
        /\ writer' \in [Servers -> Slots \cup {Nobody, Tick}]
    BY <1>8, NothingFact DEF Throw, TypeOK
  <2>3. errors' \in 0..MaxErrors
    BY <1>8 DEF Throw, TypeOK
  <2> QED
    BY <1>8, <2>1, <2>2, <2>3 DEF Throw, TypeOK, Ticks, WithinLimit
<1>9. ASSUME Finally(s) PROVE TypeInv'
  <2>1. tick' \in [Servers -> Ticks]
    BY <1>0, <1>9, NothingFact, OneTick DEF Finally
  <2>2. busy' \in [Servers -> BOOLEAN] /\ tail' \in [Servers -> Nat]
    BY <1>9 DEF Finally, TypeOK
  <2> QED
    BY <1>9, <2>1, <2>2 DEF Finally, TypeOK, Ticks
<1>10. ASSUME Reschedule(s) PROVE TypeInv'
  <2>1. tail' \in [Servers -> Nat]
    BY <1>10 DEF Reschedule, TypeOK
  <2>2. timer' \in [Servers -> BOOLEAN]
    BY <1>10 DEF Reschedule, TypeOK
  <2>3. fileErrors' \in 0..MaxFileErrors
    BY <1>10 DEF Reschedule, TypeOK
  <2> QED
    BY <1>10, <2>1, <2>2, <2>3 DEF Reschedule, TypeOK
<1>11. ASSUME Crash(s) PROVE TypeInv'
  <2>1. tick' \in [Servers -> Ticks]
    BY <1>0, <1>11, NothingFact, OneTick DEF Crash
  <2>2. req' \in [Servers -> [Slots -> Requests]]
    BY <1>11, NothingFact, TypeFact DEF Crash
  <2>3. /\ snap' \in [Servers -> Files] /\ \A u \in Servers : WithinLimit(snap'[u])
        /\ writer' \in [Servers -> Slots \cup {Nobody, Tick}]
    BY <1>11, NothingFact DEF Crash, TypeOK
  <2>4. /\ lock' \in Servers \cup {Free, Dead} /\ key' \in Slots \cup {Nobody, Kept}
        /\ crashes' \in 0..MaxCrashes
        /\ lease' \in [Servers -> BOOLEAN] /\ timer' \in [Servers -> BOOLEAN]
        /\ busy' \in [Servers -> BOOLEAN] /\ tail' \in [Servers -> Nat]
    BY <1>11 DEF Crash, TypeOK
  <2> QED
    BY <1>11, <2>1, <2>2, <2>3, <2>4 DEF Crash, TypeOK, Ticks, Requests, WithinLimit
<1> QED
  BY <1>1, <1>2, <1>3, <1>4, <1>5, <1>6, <1>7, <1>8, <1>9, <1>10, <1>11

-----------------------------------------------------------------------------
(* The lease: what is created by a request ends up in one place.           *)

LEMMA GetStatusFact ==
  ASSUME TypeOK, NEW s \in Servers, NEW k \in Slots, GetStatus(s, k)
  PROVE  req'[s][k].pc = "check" /\ req'[s][k].op = "status" /\ OthersStay(s, k)
<1> DEFINE r == [NoReq EXCEPT !.pc = "check", !.got = state.running]
<1>1. r \in Requests /\ r.pc = "check" /\ r.op = "status"
  BY NothingFact, TypeFact DEF NoReq, Requests, Files, ReqPcs
<1>2. req' = [req EXCEPT ![s][k] = r]
  BY DEF GetStatus
<1> HIDE DEF r
<1>3. req'[s][k] = r /\ OthersStay(s, k)
  BY <1>1, <1>2, TypeFact, OneRequest DEF OthersStay
<1> QED
  BY <1>1, <1>3

LEMMA ControlFact ==
  ASSUME TypeOK, NEW s \in Servers, NEW k \in Slots,
         NEW op \in Ops \ {"status"}, NEW w \in Watches, Control(s, k, op, w)
  PROVE  /\ req'[s][k].pc = IF lease[s] THEN "update" ELSE "acquire"
         /\ req'[s][k].op = op /\ req'[s][k].w = w /\ req'[s][k].got = FALSE
         /\ OthersStay(s, k)
<1> DEFINE r == [pc |-> IF lease[s] THEN "update" ELSE "acquire", op |-> op, w |-> w, got |-> FALSE]
<1>1. /\ r \in Requests /\ r.pc = IF lease[s] THEN "update" ELSE "acquire"
      /\ r.op = op /\ r.w = w /\ r.got = FALSE
  BY DEF Requests, ReqPcs
<1>2. req' = [req EXCEPT ![s][k] = r]
  BY DEF Control
<1> HIDE DEF r
<1>3. req'[s][k] = r /\ OthersStay(s, k)
  BY <1>1, <1>2, TypeFact, OneRequest DEF OthersStay
<1> QED
  BY <1>1, <1>3

(* A step that takes away or leaves what the requests carry. *)
LEMMA LeaseFrame ==
  ASSUME OwnLease, lock' = lock, \A s \in Servers : lease'[s] => lease[s],
         \A s \in Servers, k \in Slots : Carries(s, k)' => Carries(s, k)
  PROVE  OwnLease'
BY DEF OwnLease

LEMMA CarriesFrame ==
  ASSUME NEW s \in Servers, NEW k \in Slots, OthersStay(s, k), Carries(s, k)' => Carries(s, k)
  PROVE  \A t \in Servers, j \in Slots : Carries(t, j)' => Carries(t, j)
BY DEF OthersStay, Carries

LEMMA RequestLease ==
  ASSUME TypeInv, NoneStale, OwnLease, NEW s \in Servers, NEW k \in Slots
  PROVE  /\ GetStatus(s, k) => OwnLease'
         /\ CheckStatus(s, k) => OwnLease'
         /\ \A op \in Ops \ {"status"}, w \in Watches : Control(s, k, op, w) => OwnLease'
         /\ Acquire(s, k) => OwnLease'
         /\ Assign(s, k) => OwnLease'
         /\ BeginUpdate(s, k) => OwnLease'
         /\ EndUpdate(s, k) => OwnLease'
         /\ FailUpdate(s, k) => OwnLease'
         /\ Release(s, k) => OwnLease'
         /\ Verify(s, k) => OwnLease'
         /\ Unlink(s, k) => OwnLease'
<1> USE DEF TypeInv
<1>0. /\ req \in [Servers -> [Slots -> Requests]] /\ req[s][k] \in Requests
      /\ lease \in [Servers -> BOOLEAN]
  BY TypeFact DEF TypeOK
<1>1. ASSUME GetStatus(s, k) PROVE OwnLease'
  <2>1. ~Carries(s, k)' /\ OthersStay(s, k)
    BY <1>1, GetStatusFact DEF Carries
  <2> QED
    BY <1>1, <2>1, LeaseFrame, CarriesFrame DEF GetStatus
<1>2. ASSUME CheckStatus(s, k) PROVE OwnLease'
  <2>1. ~Carries(s, k)' /\ OthersStay(s, k)
    BY <1>0, <1>2, GotoFact DEF CheckStatus, Moved, ReqPcs, Carries, OthersStay
  <2> QED
    BY <1>2, <2>1, LeaseFrame, CarriesFrame DEF CheckStatus
<1>3. ASSUME NEW op \in Ops \ {"status"}, NEW w \in Watches, Control(s, k, op, w) PROVE OwnLease'
  <2>1. ~Carries(s, k)' /\ OthersStay(s, k)
    BY <1>3, ControlFact DEF Carries
  <2> QED
    BY <1>3, <2>1, LeaseFrame, CarriesFrame DEF Control
<1>4. ASSUME Acquire(s, k) PROVE OwnLease'
  <2>1. OthersStay(s, k) /\ lease' = lease
    BY <1>4, AcquireFact DEF AcquireLeaves
  <2>2. CASE Create(s, k)
    <3>1. lock' = s /\ lock \notin Servers /\ req'[s][k].pc = "assign"
      BY <1>4, <2>2, AcquireFact DEF Create, Exists, Judge, Clear
    <3>2. \A t \in Servers : ~lease[t] /\ \A j \in Slots : ~Carries(t, j)
      BY <3>1 DEF OwnLease
    <3>3. \A t \in Servers, j \in Slots : Carries(t, j)' => t = s /\ j = k
      BY <2>1, <3>2 DEF OthersStay, Carries
    <3> QED
      BY <2>1, <3>1, <3>2, <3>3 DEF OwnLease
  <2>3. CASE Exists(s, k) \/ Judge(s, k)
    <3>1. lock' = lock
      BY <2>3 DEF Exists, Judge
    <3>2. ~Carries(s, k)'
      BY <1>0, <1>4, <2>3, AcquireFact DEF Create, Exists, Judge, Clear, Carries
    <3> QED
      BY <2>1, <3>1, <3>2, LeaseFrame, CarriesFrame
  <2>4. CASE Clear(s, k)
    BY <2>4 DEF Clear, NoneStale
  <2> QED
    BY <1>4, <2>2, <2>3, <2>4 DEF Acquire
<1>5. ASSUME Assign(s, k) PROVE OwnLease'
  <2> DEFINE r == req[s][k]
  <2>1. /\ r.pc = "assign" /\ lock' = lock
        /\ Moved(s, k, IF r.got /\ r.op # "status" THEN "update" ELSE "idle")
    BY <1>0, <1>5, GotoFact DEF Assign, ReqPcs
  <2>2. /\ lease'[s] = Assigned(s, k)
        /\ \A t \in Servers : t # s => lease'[t] = lease[t]
    BY <1>0, <1>5 DEF Assign
  <2>3. \A t \in Servers, j \in Slots : t # s \/ j # k => Carries(t, j)' = Carries(t, j)
    BY <2>1 DEF Moved, Carries
  <2>4. CASE r.op \in {"add", "remove"}
    <3>1. Carries(s, k)' => Carries(s, k)
      BY <2>1, <2>4 DEF Moved, Carries
    <3>2. \A t \in Servers : lease'[t] = lease[t]
      BY <2>2, <2>4 DEF Assigned
    <3> QED
      BY <2>1, <2>3, <3>1, <3>2, LeaseFrame
  <2>5. CASE r.op \notin {"add", "remove"}
    <3>1. ~Carries(s, k)'
      BY <2>1, <2>5 DEF Moved, Carries
    <3>2. lease'[s] = r.got
      BY <2>2, <2>5 DEF Assigned
    <3>3. CASE ~r.got
      BY <2>1, <2>2, <2>3, <3>1, <3>2, <3>3, LeaseFrame
    <3>4. CASE r.got
      <4>1. Carries(s, k)
        BY <2>1, <3>4 DEF Carries
      <4>2. lock = s /\ \A j \in Slots : ~Carries(s, j)'
        BY <2>3, <3>1, <4>1 DEF OwnLease
      <4>3. \A t \in Servers : t # s => ~lease[t] /\ \A j \in Slots : ~Carries(t, j)
        BY <4>2 DEF OwnLease
      <4> QED
        BY <2>1, <2>2, <2>3, <4>2, <4>3 DEF OwnLease
    <3> QED
      BY <1>0, <3>3, <3>4 DEF Requests
  <2> QED
    BY <2>4, <2>5
<1>6. ASSUME BeginUpdate(s, k) PROVE OwnLease'
  <2>1. (Carries(s, k)' => Carries(s, k)) /\ OthersStay(s, k)
    BY <1>0, <1>6, GotoFact DEF BeginUpdate, Moved, ReqPcs, Carries, OthersStay
  <2> QED
    BY <1>6, <2>1, LeaseFrame, CarriesFrame DEF BeginUpdate
<1>7. ASSUME EndUpdate(s, k) PROVE OwnLease'
  <2> DEFINE r == req[s][k]
             refused == Refused(snap[s], r.op, r.w)
             pc == CASE r.op = "pause" \/ (r.op = "start" /\ refused) -> "release"
                     [] r.op \in {"add", "remove"} /\ r.got -> "verify"
                     [] OTHER -> "idle"
  <2>1. Goto(s, k, pc) /\ r.pc = "write" /\ lock' = lock /\ lease' = lease
    BY <1>7 DEF EndUpdate
  <2>2. pc \in ReqPcs /\ (pc = "verify" => r.op \in {"add", "remove"} /\ r.got)
        /\ pc \in {"release", "verify", "idle"}
    BY DEF ReqPcs
  <2> HIDE DEF pc
  <2>3. (Carries(s, k)' => Carries(s, k)) /\ OthersStay(s, k)
    BY <1>0, <2>1, <2>2, GotoFact DEF Moved, Carries, OthersStay
  <2> QED
    BY <2>1, <2>3, LeaseFrame, CarriesFrame
<1>8. ASSUME FailUpdate(s, k) PROVE OwnLease'
  <2> DEFINE r == req[s][k]
             pc == CASE r.op = "start" -> "release"
                     [] r.op \in {"add", "remove"} /\ r.got -> "verify"
                     [] OTHER -> "idle"
  <2>1. Goto(s, k, pc) /\ r.pc = "write" /\ lock' = lock /\ lease' = lease
    BY <1>8 DEF FailUpdate
  <2>2. pc \in ReqPcs /\ (pc = "verify" => r.op \in {"add", "remove"} /\ r.got)
        /\ pc \in {"release", "verify", "idle"}
    BY DEF ReqPcs
  <2> HIDE DEF pc
  <2>3. (Carries(s, k)' => Carries(s, k)) /\ OthersStay(s, k)
    BY <1>0, <2>1, <2>2, GotoFact DEF Moved, Carries, OthersStay
  <2> QED
    BY <2>1, <2>3, LeaseFrame, CarriesFrame
<1>9. ASSUME Release(s, k) PROVE OwnLease'
  <2>1. Moved(s, k, IF lease[s] THEN "verify" ELSE "idle") /\ lock' = lock
    BY <1>0, <1>9, GotoFact DEF Release, ReqPcs
  <2>2. ~lease'[s] /\ \A t \in Servers : t # s => lease'[t] = lease[t]
    BY <1>0, <1>9 DEF Release
  <2>3. \A t \in Servers, j \in Slots : t # s \/ j # k => Carries(t, j)' = Carries(t, j)
    BY <2>1 DEF Moved, Carries
  <2>4. CASE lease[s]
    <3>1. lock = s /\ \A j \in Slots : Carries(s, j)' => j = k
      BY <2>3, <2>4 DEF OwnLease
    <3> QED
      BY <2>1, <2>2, <2>3, <2>4, <3>1 DEF OwnLease
  <2>5. CASE ~lease[s]
    <3>1. ~Carries(s, k)'
      BY <2>1, <2>5 DEF Moved, Carries
    <3> QED
      BY <2>1, <2>2, <2>3, <3>1, LeaseFrame
  <2> QED
    BY <2>4, <2>5
<1>10. ASSUME Verify(s, k) PROVE OwnLease'
  <2>1. (Carries(s, k)' => Carries(s, k)) /\ OthersStay(s, k)
    BY <1>0, <1>10, GotoFact DEF Verify, Moved, ReqPcs, Carries, OthersStay
  <2> QED
    BY <1>10, <2>1, LeaseFrame, CarriesFrame DEF Verify
<1>11. ASSUME Unlink(s, k) PROVE OwnLease'
  <2>1. Moved(s, k, "idle") /\ Carries(s, k) /\ lease' = lease
    BY <1>0, <1>11, GotoFact DEF Unlink, ReqPcs, Carries
  <2>2. lock = s /\ \A t \in Servers : ~lease[t] /\ \A j \in Slots : Carries(t, j) => t = s /\ j = k
    BY <2>1 DEF OwnLease
  <2>3. \A t \in Servers, j \in Slots : ~Carries(t, j)'
    BY <2>1, <2>2 DEF Moved, Carries
  <2> QED
    BY <2>1, <2>2, <2>3 DEF OwnLease
<1> QED
  BY <1>1, <1>2, <1>3, <1>4, <1>5, <1>6, <1>7, <1>8, <1>9, <1>10, <1>11

(* Nobody takes the file for stale while no server has died. *)
LEMMA RequestNoneStale ==
  ASSUME TypeInv, NoneStale, NEW s \in Servers, NEW k \in Slots,
         \/ GetStatus(s, k)
         \/ \E op \in Ops \ {"status"}, w \in Watches : Control(s, k, op, w)
         \/ Request(s, k) \/ FailUpdate(s, k)
  PROVE  NoneStale'
<1> USE DEF TypeInv
<1>0. req \in [Servers -> [Slots -> Requests]] /\ req[s][k] \in Requests
  BY TypeFact
<1>a. ASSUME OthersStay(s, k), req'[s][k].pc # "clear", lock' # Dead PROVE NoneStale'
  BY <1>a DEF NoneStale, OthersStay
<1>b. ASSUME NEW pc \in ReqPcs \ {"clear"}, Goto(s, k, pc), lock' # Dead PROVE NoneStale'
  <2>1. Moved(s, k, pc)
    BY <1>0, <1>b, GotoFact
  <2> QED
    BY <1>a, <1>b, <2>1 DEF Moved, OthersStay
<1>1. CASE GetStatus(s, k)
  BY <1>a, <1>1, GetStatusFact DEF GetStatus, NoneStale
<1>2. CASE CheckStatus(s, k)
  BY <1>b, <1>2 DEF CheckStatus, NoneStale, ReqPcs
<1>3. ASSUME NEW op \in Ops \ {"status"}, NEW w \in Watches, Control(s, k, op, w) PROVE NoneStale'
  BY <1>a, <1>3, ControlFact DEF Control, NoneStale
<1>4. CASE Acquire(s, k)
  <2>1. OthersStay(s, k) /\ (req'[s][k].pc = "clear" => IsStale(s))
    BY <1>4, AcquireFact
  <2>2. ~IsStale(s) /\ lock' # Dead
    BY <1>4 DEF Acquire, Create, Exists, Judge, Clear, IsStale, NoneStale
  <2> QED
    BY <1>a, <2>1, <2>2
<1>5. CASE Assign(s, k)
  BY <1>b, <1>5 DEF Assign, NoneStale, ReqPcs
<1>6. CASE BeginUpdate(s, k)
  BY <1>b, <1>6 DEF BeginUpdate, NoneStale, ReqPcs
<1>7. CASE EndUpdate(s, k) \/ FailUpdate(s, k)
  <2>1. \E pc \in {"release", "verify", "idle"} : Goto(s, k, pc)
    BY <1>7 DEF EndUpdate, FailUpdate
  <2> QED
    BY <1>b, <1>7, <2>1 DEF EndUpdate, FailUpdate, NoneStale, ReqPcs
<1>8. CASE Release(s, k)
  BY <1>b, <1>8 DEF Release, NoneStale, ReqPcs
<1>9. CASE Verify(s, k)
  BY <1>b, <1>9 DEF Verify, NoneStale, ReqPcs
<1>10. CASE Unlink(s, k)
  BY <1>b, <1>10 DEF Unlink, NoneStale, ReqPcs
<1> QED
  BY <1>1, <1>2, <1>3, <1>4, <1>5, <1>6, <1>7, <1>8, <1>9, <1>10 DEF Request

(* No step but a death takes the history of the deaths further. *)
LEMMA RequestDeaths ==
  ASSUME NEW s \in Servers, NEW k \in Slots,
         \/ GetStatus(s, k)
         \/ \E op \in Ops \ {"status"}, w \in Watches : Control(s, k, op, w)
         \/ Request(s, k) \/ FailUpdate(s, k)
  PROVE  crashes' = crashes
BY DEF Request, GetStatus, Control, CheckStatus, Acquire, Create, Exists, Judge, Clear, Assign,
       BeginUpdate, EndUpdate, FailUpdate, Release, Verify, Unlink

(* The steps of the tick leave the lease alone. *)
LEMMA TickLeaves ==
  ASSUME NEW s \in Servers,
         Fire(s) \/ TickStep(s) \/ Reschedule(s) \/ Throw(s)
  PROVE  lock' = lock /\ lease' = lease /\ req' = req /\ crashes' = crashes
BY DEF Fire, TickStep, Select, Poll, Match, Spool, BeginRecord, EndRecord, Finally,
       Reschedule, Throw

LEMMA LeaseStep ==
  ASSUME TypeInv, LeaseInv, NEW s \in Servers,
         \/ \E k \in Slots :
              \/ GetStatus(s, k)
              \/ \E op \in Ops \ {"status"}, w \in Watches : Control(s, k, op, w)
              \/ Request(s, k) \/ FailUpdate(s, k)
         \/ Fire(s) \/ TickStep(s) \/ Reschedule(s) \/ Throw(s) \/ Crash(s)
  PROVE  LeaseInv'
<1>1. ASSUME NEW k \in Slots,
             \/ GetStatus(s, k)
             \/ \E op \in Ops \ {"status"}, w \in Watches : Control(s, k, op, w)
             \/ Request(s, k) \/ FailUpdate(s, k)
      PROVE  LeaseInv'
  <2>1. crashes' = crashes
    BY <1>1, RequestDeaths
  <2>2. CASE crashes = 0
    <3>1. NoneStale /\ OwnLease
      BY <2>2 DEF LeaseInv
    <3>2. NoneStale'
      BY <1>1, <3>1, RequestNoneStale
    <3>3. OwnLease'
      BY <1>1, <3>1, RequestLease DEF Request
    <3> QED
      BY <3>2, <3>3 DEF LeaseInv
  <2> QED
    BY <2>1, <2>2 DEF LeaseInv
<1>2. CASE Fire(s) \/ TickStep(s) \/ Reschedule(s) \/ Throw(s)
  <2>1. lock' = lock /\ lease' = lease /\ req' = req /\ crashes' = crashes
    BY <1>2, TickLeaves
  <2> QED
    BY <2>1 DEF LeaseInv, NoneStale, OwnLease, Carries
<1>3. CASE Crash(s)
  <2>1. crashes' # 0
    BY <1>3 DEF Crash, TypeInv, TypeOK
  <2> QED
    BY <2>1 DEF LeaseInv
<1> QED
  BY <1>1, <1>2, <1>3

-----------------------------------------------------------------------------
(* The write queue of a process.                                           *)

Recording(s) == tick[s].pc \in {"recording", "failing"}

LEMMA WriterFrame ==
  ASSUME WriterInv, writer' = writer, busy' = busy,
         \A s \in Servers : /\ tick[s].pc = "idle" => tick'[s].pc = "idle"
                            /\ Recording(s)' <=> Recording(s)
                            /\ \A k \in Slots : req'[s][k].pc = "write" <=> req[s][k].pc = "write"
  PROVE  WriterInv'
BY DEF WriterInv, Recording

(* The one who writes is alone. *)
LEMMA WriterAlone ==
  ASSUME WriterInv, NEW s \in Servers
  PROVE  /\ writer[s] = Nobody => ~Recording(s) /\ \A j \in Slots : req[s][j].pc # "write"
         /\ \A k \in Slots : req[s][k].pc = "write" =>
              ~Recording(s) /\ \A j \in Slots : req[s][j].pc = "write" => j = k
         /\ Recording(s) => \A j \in Slots : req[s][j].pc # "write"
BY DEF WriterInv, Recording

(* A request starts or ends its update. *)
LEMMA WriterSteps ==
  ASSUME TypeOK, WriterInv, NEW s \in Servers, NEW k \in Slots, OthersStay(s, k), tick' = tick, busy' = busy,
         \/ writer[s] = Nobody /\ req'[s][k].pc = "write" /\ writer' = [writer EXCEPT ![s] = k]
         \/ req[s][k].pc = "write" /\ req'[s][k].pc # "write" /\ writer' = [writer EXCEPT ![s] = Nobody]
  PROVE  WriterInv'
<1>1. /\ \A j \in Slots : j # k => req'[s][j].pc # "write"
      /\ ~Recording(s)
  BY WriterAlone DEF OthersStay
<1>2. /\ \A t \in Servers : t # s => writer'[t] = writer[t]
      /\ \/ writer'[s] = k /\ req'[s][k].pc = "write"
         \/ writer'[s] = Nobody /\ req'[s][k].pc # "write"
  BY DEF TypeOK
<1>3. \A t \in Servers, j \in Slots : t # s => req'[t][j] = req[t][j]
  BY DEF OthersStay
<1> QED
  BY <1>1, <1>2, <1>3 DEF WriterInv, Recording

LEMMA RequestWriter ==
  ASSUME TypeInv, WriterInv, NEW s \in Servers, NEW k \in Slots
  PROVE  /\ GetStatus(s, k) => WriterInv'
         /\ CheckStatus(s, k) => WriterInv'
         /\ \A op \in Ops \ {"status"}, w \in Watches : Control(s, k, op, w) => WriterInv'
         /\ Acquire(s, k) => WriterInv'
         /\ Assign(s, k) => WriterInv'
         /\ BeginUpdate(s, k) => WriterInv'
         /\ EndUpdate(s, k) => WriterInv'
         /\ FailUpdate(s, k) => WriterInv'
         /\ Release(s, k) => WriterInv'
         /\ Verify(s, k) => WriterInv'
         /\ Unlink(s, k) => WriterInv'
<1> USE DEF TypeInv
<1>0. req \in [Servers -> [Slots -> Requests]]
  BY TypeFact
<1>a. ASSUME OthersStay(s, k), writer' = writer, tick' = tick, busy' = busy,
             req[s][k].pc # "write", req'[s][k].pc # "write"
      PROVE  WriterInv'
  BY <1>a, WriterFrame DEF OthersStay, Recording
<1>1. ASSUME GetStatus(s, k) PROVE WriterInv'
  BY <1>a, <1>1, GetStatusFact DEF GetStatus
<1>2. ASSUME CheckStatus(s, k) PROVE WriterInv'
  <2>1. req'[s][k].pc # "write" /\ OthersStay(s, k)
    BY <1>0, <1>2, GotoFact DEF CheckStatus, Moved, ReqPcs, OthersStay
  <2> QED
    BY <1>a, <1>2, <2>1 DEF CheckStatus
<1>3. ASSUME NEW op \in Ops \ {"status"}, NEW w \in Watches, Control(s, k, op, w) PROVE WriterInv'
  <2>1. req'[s][k].pc # "write" /\ OthersStay(s, k)
    BY <1>3, ControlFact
  <2> QED
    BY <1>a, <1>3, <2>1 DEF Control
<1>4. ASSUME Acquire(s, k) PROVE WriterInv'
  <2>1. OthersStay(s, k) /\ req[s][k].pc # "write" /\ req'[s][k].pc # "write" /\ AcquireLeaves
    BY <1>4, AcquireFact DEF AcquirePcs
  <2> QED
    BY <1>a, <2>1 DEF AcquireLeaves
<1>5. ASSUME Assign(s, k) PROVE WriterInv'
  <2>1. req'[s][k].pc # "write" /\ OthersStay(s, k)
    BY <1>0, <1>5, GotoFact DEF Assign, Moved, ReqPcs, OthersStay
  <2> QED
    BY <1>a, <1>5, <2>1 DEF Assign
<1>6. ASSUME BeginUpdate(s, k) PROVE WriterInv'
  <2>1. req'[s][k].pc = "write" /\ OthersStay(s, k)
    BY <1>0, <1>6, GotoFact DEF BeginUpdate, Moved, ReqPcs, OthersStay
  <2> QED
    BY <1>6, <2>1, WriterSteps DEF BeginUpdate, MayUpdate
<1>7. ASSUME EndUpdate(s, k) PROVE WriterInv'
  <2> DEFINE r == req[s][k]
             refused == Refused(snap[s], r.op, r.w)
             pc == CASE r.op = "pause" \/ (r.op = "start" /\ refused) -> "release"
                     [] r.op \in {"add", "remove"} /\ r.got -> "verify"
                     [] OTHER -> "idle"
  <2>1. Goto(s, k, pc) /\ r.pc = "write" /\ writer' = [writer EXCEPT ![s] = Nobody]
        /\ tick' = tick /\ busy' = busy
    BY <1>7 DEF EndUpdate
  <2>2. pc \in {"release", "verify", "idle"}
    OBVIOUS
  <2> HIDE DEF pc
  <2>3. req'[s][k].pc # "write" /\ OthersStay(s, k)
    BY <1>0, <2>1, <2>2, GotoFact DEF Moved, ReqPcs, OthersStay
  <2> QED
    BY <2>1, <2>3, WriterSteps
<1>8. ASSUME FailUpdate(s, k) PROVE WriterInv'
  <2> DEFINE r == req[s][k]
             pc == CASE r.op = "start" -> "release"
                     [] r.op \in {"add", "remove"} /\ r.got -> "verify"
                     [] OTHER -> "idle"
  <2>1. Goto(s, k, pc) /\ r.pc = "write" /\ writer' = [writer EXCEPT ![s] = Nobody]
        /\ tick' = tick /\ busy' = busy
    BY <1>8 DEF FailUpdate
  <2>2. pc \in {"release", "verify", "idle"}
    OBVIOUS
  <2> HIDE DEF pc
  <2>3. req'[s][k].pc # "write" /\ OthersStay(s, k)
    BY <1>0, <2>1, <2>2, GotoFact DEF Moved, ReqPcs, OthersStay
  <2> QED
    BY <2>1, <2>3, WriterSteps
<1>9. ASSUME Release(s, k) PROVE WriterInv'
  <2>1. req'[s][k].pc # "write" /\ OthersStay(s, k)
    BY <1>0, <1>9, GotoFact DEF Release, Moved, ReqPcs, OthersStay
  <2> QED
    BY <1>a, <1>9, <2>1 DEF Release
<1>10. ASSUME Verify(s, k) PROVE WriterInv'
  <2>1. req'[s][k].pc # "write" /\ OthersStay(s, k)
    BY <1>0, <1>10, GotoFact DEF Verify, Moved, ReqPcs, OthersStay
  <2> QED
    BY <1>a, <1>10, <2>1 DEF Verify
<1>11. ASSUME Unlink(s, k) PROVE WriterInv'
  <2>1. req'[s][k].pc # "write" /\ OthersStay(s, k)
    BY <1>0, <1>11, GotoFact DEF Unlink, Moved, ReqPcs, OthersStay
  <2> QED
    BY <1>a, <1>11, <2>1 DEF Unlink
<1> QED
  BY <1>1, <1>2, <1>3, <1>4, <1>5, <1>6, <1>7, <1>8, <1>9, <1>10, <1>11

(* What the steps of a tick do to it. *)
OtherTicks(s) == \A t \in Servers : t # s => tick'[t] = tick[t]

LEMMA FireFact ==
  ASSUME TypeOK, NEW s \in Servers, Fire(s)
  PROVE  /\ OtherTicks(s)
         /\ \/ MayTick(s) /\ tick'[s].pc = "read" /\ busy' = [busy EXCEPT ![s] = TRUE]
            \/ ~MayTick(s) /\ tick' = tick /\ busy' = busy
<1>1. CASE MayTick(s)
  <2> DEFINE t == [NoTick EXCEPT !.pc = "read"]
  <2>1. t \in Ticks /\ t.pc = "read"
    BY NothingFact DEF NoTick, Ticks, TickPcs
  <2>2. tick' = [tick EXCEPT ![s] = t] /\ busy' = [busy EXCEPT ![s] = TRUE]
    BY <1>1 DEF Fire
  <2> HIDE DEF t
  <2> QED
    BY <1>1, <2>1, <2>2, OneTick DEF OtherTicks
<1>2. CASE ~MayTick(s)
  BY <1>2 DEF Fire, OtherTicks
<1> QED
  BY <1>1, <1>2

LEMMA SelectFact ==
  ASSUME TypeOK, NEW s \in Servers, Select(s)
  PROVE  /\ OtherTicks(s)
         /\ tick[s].pc = "read" /\ tick'[s].pc \in {"poll", "finally"}
<1>1. CASE tick' = [tick EXCEPT ![s].pc = "finally"]
  BY <1>1, TickMoves DEF Select, OtherTicks, TickPcs
<1>2. ASSUME NEW w \in state.watched, tick' = [tick EXCEPT ![s].pc = "poll", ![s].w = w]
      PROVE  OtherTicks(s) /\ tick'[s].pc = "poll"
  BY <1>2, TypeFact DEF OtherTicks, Ticks
<1> QED
  BY <1>1, <1>2 DEF Select

LEMMA PollFact ==
  ASSUME TypeOK, NEW s \in Servers, Poll(s)
  PROVE  /\ OtherTicks(s)
         /\ tick[s].pc = "poll" /\ tick'[s].pc \in {"match", "fail", "finally"}
<1>1. ASSUME NEW pc \in {"fail", "finally"}, tick' = [tick EXCEPT ![s].pc = pc]
      PROVE  OtherTicks(s) /\ tick'[s].pc = pc
  BY <1>1, TickMoves DEF OtherTicks, TickPcs
<1>2. ASSUME NEW P \in SUBSET Patterns, tick' = [tick EXCEPT ![s].pc = "match", ![s].seen = P]
      PROVE  OtherTicks(s) /\ tick'[s].pc = "match"
  BY <1>2, TypeFact DEF OtherTicks, Ticks
<1> QED
  BY <1>1, <1>2 DEF Poll

LEMMA MatchFact ==
  ASSUME TypeOK, NEW s \in Servers, Match(s)
  PROVE  /\ OtherTicks(s) /\ tick[s].pc = "match"
         /\ \/ /\ StillWatched(tick[s])
               /\ tick'[s].pc = "spool" /\ tick'[s].w = tick[s].w
               /\ tick'[s].todo = Additions(tick[s])
               /\ tick'[s].known = state.known[tick[s].w] \cup tick[s].seen
            \/ tick'[s].pc = "finally" /\ silent' = silent
<1> DEFINE a == Additions(tick[s])
           n == state.known[tick[s].w] \cup tick[s].seen
<1>1. CASE StillWatched(tick[s])
  <2>1. tick' = [tick EXCEPT ![s].pc = "spool", ![s].todo = a, ![s].known = n]
    BY <1>1 DEF Match
  <2> HIDE DEF a, n
  <2>2. /\ OtherTicks(s)
        /\ tick'[s].pc = "spool" /\ tick'[s].w = tick[s].w
        /\ tick'[s].todo = a /\ tick'[s].known = n
    BY <2>1, TypeFact DEF OtherTicks, Ticks
  <2> QED
    BY <1>1, <2>2 DEF Match, a, n
<1>2. CASE ~StillWatched(tick[s])
  <2>1. tick' = [tick EXCEPT ![s].pc = "finally"] /\ silent' = silent /\ tick[s].pc = "match"
    BY <1>2 DEF Match
  <2> QED
    BY <2>1, TickMoves DEF OtherTicks, TickPcs
<1> QED
  BY <1>1, <1>2

LEMMA SpoolFact ==
  ASSUME TypeOK, NEW s \in Servers, Spool(s)
  PROVE  /\ OtherTicks(s) /\ tick[s].pc = "spool"
         /\ tick'[s].pc = "spool" /\ tick'[s].w = tick[s].w /\ tick'[s].known = tick[s].known
         /\ \E p \in tick[s].todo : /\ spooled' = spooled \cup {<<tick[s].w, p>>}
                                    /\ tick'[s].todo = tick[s].todo \ {p}
<1>1. PICK p \in tick[s].todo : /\ spooled' = spooled \cup {<<tick[s].w, p>>}
                                /\ tick' = [tick EXCEPT ![s].todo = @ \ {p}]
  BY DEF Spool
<1>2. /\ OtherTicks(s)
      /\ tick'[s].pc = tick[s].pc /\ tick'[s].w = tick[s].w /\ tick'[s].known = tick[s].known
      /\ tick'[s].todo = tick[s].todo \ {p}
  BY <1>1, TypeFact DEF OtherTicks, Ticks
<1> QED
  BY <1>1, <1>2 DEF Spool

LEMMA BeginRecordFact ==
  ASSUME TypeOK, NEW s \in Servers, BeginRecord(s)
  PROVE  /\ OtherTicks(s) /\ ReadyToRecord(tick[s])
         /\ tick'[s].pc = (IF tick[s].pc = "fail" THEN "failing" ELSE "recording")
         /\ tick'[s].w = tick[s].w /\ tick'[s].known = tick[s].known /\ tick'[s].todo = tick[s].todo
<1> DEFINE pc == IF tick[s].pc = "fail" THEN "failing" ELSE "recording"
<1>1. tick' = [tick EXCEPT ![s].pc = pc] /\ ReadyToRecord(tick[s])
  BY TypeFact DEF BeginRecord
<1>2. pc \in TickPcs
  BY DEF TickPcs
<1> HIDE DEF pc
<1>3. /\ OtherTicks(s) /\ tick'[s].pc = pc
      /\ tick'[s].w = tick[s].w /\ tick'[s].known = tick[s].known /\ tick'[s].todo = tick[s].todo
  BY <1>1, <1>2, TickMoves DEF OtherTicks
<1> QED
  BY <1>1, <1>3 DEF pc

LEMMA EndRecordFact ==
  ASSUME TypeOK, NEW s \in Servers, EndRecord(s)
  PROVE  OtherTicks(s) /\ Recording(s) /\ tick'[s].pc = "finally"
BY TickMoves DEF EndRecord, Recording, OtherTicks, TickPcs

LEMMA ThrowFact ==
  ASSUME TypeOK, NEW s \in Servers, Throw(s)
  PROVE  /\ OtherTicks(s) /\ tick[s].pc \in {"spool", "recording", "failing"}
         /\ tick'[s].pc \in {"fail", "finally"}
BY TickMoves DEF Throw, OtherTicks, TickPcs

LEMMA FinallyFact ==
  ASSUME TypeOK, NEW s \in Servers, Finally(s)
  PROVE  /\ OtherTicks(s) /\ tick[s].pc = "finally" /\ tick'[s].pc = "idle"
BY NothingFact, OneTick DEF Finally, OtherTicks, NoTick

LEMMA CrashFact ==
  ASSUME TypeOK, NEW s \in Servers, Crash(s)
  PROVE  /\ OtherTicks(s) /\ tick'[s].pc = "idle"
         /\ \A k \in Slots : req'[s][k].pc = "idle"
         /\ \A t \in Servers, k \in Slots : t # s => req'[t][k] = req[t][k]
         /\ writer'[s] = Nobody /\ snap'[s] = NoFile /\ busy'[s] = FALSE
         /\ \A t \in Servers : t # s => /\ writer'[t] = writer[t] /\ snap'[t] = snap[t]
                                        /\ busy'[t] = busy[t]
<1>1. OtherTicks(s) /\ tick'[s].pc = "idle"
  BY NothingFact, OneTick DEF Crash, OtherTicks, NoTick
<1>2. /\ \A k \in Slots : req'[s][k].pc = "idle"
      /\ \A t \in Servers, k \in Slots : t # s => req'[t][k] = req[t][k]
  BY DEF Crash, TypeOK, NoReq
<1> QED
  BY <1>1, <1>2 DEF Crash, TypeOK

LEMMA TickWriter ==
  ASSUME TypeInv, WriterInv, NEW s \in Servers,
         \/ Fire(s) \/ TickStep(s) \/ Reschedule(s) \/ Throw(s) \/ Crash(s)
  PROVE  WriterInv'
<1> USE DEF TypeInv
<1>a. ASSUME OtherTicks(s), req' = req, writer' = writer, busy' = busy,
             tick[s].pc # "idle", ~Recording(s), ~Recording(s)'
      PROVE  WriterInv'
  <2>1. \A t \in Servers : Recording(t)' <=> Recording(t)
    BY <1>a DEF OtherTicks, Recording
  <2>2. \A t \in Servers : tick[t].pc = "idle" => tick'[t].pc = "idle"
    BY <1>a DEF OtherTicks
  <2> QED
    BY <1>a, <2>1, <2>2, WriterFrame
<1>1. CASE Fire(s)
  <2>1. tick'[s].pc = "read" => tick[s].pc = "idle" \/ tick' = tick
    BY <1>1, FireFact DEF WriterInv, MayTick
  <2>2. \A t \in Servers : t # s => busy'[t] = busy[t] /\ tick'[t] = tick[t]
    <3>1. busy \in [Servers -> BOOLEAN]
      BY DEF TypeOK
    <3> QED
      BY <1>1, <3>1, FireFact DEF OtherTicks
  <2>3. req' = req /\ writer' = writer
    BY <1>1 DEF Fire
  <2>4. CASE MayTick(s)
    <3>1. tick'[s].pc = "read" /\ busy'[s]
      BY <1>1, <2>4, FireFact DEF TypeOK
    <3>2. ~Recording(s)
      BY <2>4 DEF WriterInv, MayTick, Recording
    <3> QED
      BY <2>2, <2>3, <3>1, <3>2 DEF WriterInv, Recording
  <2>5. CASE ~MayTick(s)
    BY <1>1, <2>3, <2>5, FireFact DEF WriterInv
  <2> QED
    BY <2>4, <2>5
<1>2. CASE Select(s)
  BY <1>a, <1>2, SelectFact DEF Select, Recording
<1>3. CASE Poll(s)
  BY <1>a, <1>3, PollFact DEF Poll, Recording
<1>4. CASE Match(s)
  BY <1>a, <1>4, MatchFact DEF Match, Recording
<1>5. CASE Spool(s)
  BY <1>a, <1>5, SpoolFact DEF Spool, Recording
<1>6. CASE BeginRecord(s)
  <2>0. /\ OtherTicks(s) /\ tick'[s].pc \in {"recording", "failing"}
        /\ tick[s].pc \in {"fail", "spool"}
    BY <1>6, BeginRecordFact DEF ReadyToRecord
  <2>1. /\ OtherTicks(s) /\ Recording(s)' /\ tick'[s].pc # "idle" /\ tick[s].pc # "idle"
        /\ writer[s] = Nobody /\ writer' = [writer EXCEPT ![s] = Tick] /\ busy' = busy /\ req' = req
    BY <1>6, <2>0 DEF BeginRecord, MayUpdate, Recording
  <2>2. \A j \in Slots : req[s][j].pc # "write"
    BY <2>1, WriterAlone
  <2>3. writer'[s] = Tick /\ \A t \in Servers : t # s => writer'[t] = writer[t]
    BY <2>1 DEF TypeOK
  <2> QED
    BY <2>1, <2>2, <2>3 DEF WriterInv, Recording, OtherTicks
<1>7. CASE EndRecord(s)
  <2>1. /\ OtherTicks(s) /\ Recording(s) /\ ~Recording(s)' /\ tick'[s].pc # "idle"
        /\ tick[s].pc # "idle"
        /\ writer' = [writer EXCEPT ![s] = Nobody] /\ busy' = busy /\ req' = req
    BY <1>7, EndRecordFact DEF EndRecord, Recording
  <2>2. \A j \in Slots : req[s][j].pc # "write"
    BY <2>1, WriterAlone
  <2>3. writer'[s] = Nobody /\ \A t \in Servers : t # s => writer'[t] = writer[t]
    BY <2>1 DEF TypeOK
  <2> QED
    BY <2>1, <2>2, <2>3 DEF WriterInv, Recording, OtherTicks
<1>8. CASE Throw(s)
  <2>1. /\ OtherTicks(s) /\ ~Recording(s)' /\ tick'[s].pc # "idle" /\ tick[s].pc # "idle"
        /\ busy' = busy /\ req' = req
    BY <1>8, ThrowFact DEF Throw, Recording
  <2>2. CASE writer[s] = Tick
    <3>1. writer' = [writer EXCEPT ![s] = Nobody]
      BY <1>8, <2>2 DEF Throw
    <3>2. Recording(s)
      BY <2>2 DEF WriterInv, Recording
    <3>3. \A j \in Slots : req[s][j].pc # "write"
      BY <3>2, WriterAlone
    <3>4. writer'[s] = Nobody /\ \A t \in Servers : t # s => writer'[t] = writer[t]
      BY <3>1 DEF TypeOK
    <3> QED
      BY <2>1, <3>3, <3>4 DEF WriterInv, Recording, OtherTicks
  <2>3. CASE writer[s] # Tick
    <3>1. writer' = writer /\ ~Recording(s)
      BY <1>8, <2>3 DEF Throw, WriterInv, Recording
    <3> QED
      BY <1>a, <2>1, <3>1
  <2> QED
    BY <2>2, <2>3
<1>9. CASE Finally(s)
  <2>1. /\ OtherTicks(s) /\ ~Recording(s) /\ ~Recording(s)' /\ tick'[s].pc = "idle"
        /\ busy' = [busy EXCEPT ![s] = FALSE] /\ req' = req /\ writer' = writer
    BY <1>9, FinallyFact DEF Finally, Recording
  <2>2. \A t \in Servers : t # s => busy'[t] = busy[t]
    BY <2>1 DEF TypeOK
  <2> QED
    BY <2>1, <2>2 DEF WriterInv, Recording, OtherTicks
<1>10. CASE Reschedule(s)
  BY <1>10 DEF Reschedule, WriterInv
<1>11. CASE Crash(s)
  <2>1. /\ tick'[s].pc = "idle" /\ writer'[s] = Nobody /\ \A k \in Slots : req'[s][k].pc = "idle"
        /\ \A t \in Servers : t # s => /\ writer'[t] = writer[t] /\ tick'[t] = tick[t]
                                       /\ busy'[t] = busy[t]
                                       /\ \A k \in Slots : req'[t][k] = req[t][k]
    BY <1>11, CrashFact DEF OtherTicks
  <2>2. \A k \in Slots : k # Nobody
    OBVIOUS
  <2> QED
    BY <2>1, <2>2 DEF WriterInv
<1> QED
  BY <1>1, <1>2, <1>3, <1>4, <1>5, <1>6, <1>7, <1>8, <1>9, <1>10, <1>11 DEF TickStep

-----------------------------------------------------------------------------
(* What is known has been reported.                                        *)

LEMMA AccountedFact ==
  ASSUME NEW A, NEW B, A \subseteq B
  PROVE  /\ \A w, P : Accounted(w, P, A) => Accounted(w, P, B)
         /\ \A f : Backed(f, A) => Backed(f, B)
         /\ \A t : TickBacked(t, A) => TickBacked(t, B)
<1>1. \A w, P : Accounted(w, P, A) => Accounted(w, P, B)
  BY DEF Accounted
<1> QED
  BY <1>1 DEF Backed, TickBacked

LEMMA NothingIsKnown ==
  ASSUME NEW A
  PROVE  Backed(NoFile, A)
BY DEF Backed, Accounted, NoFile

LEMMA ChangedBacked ==
  ASSUME NEW A, NEW f \in Files, NEW op \in Ops, NEW w \in Watches, Backed(f, A)
  PROVE  Backed(Changed(f, op, w), A)
<1>1. \A v \in Watches : Changed(f, op, w).known[v] \in {f.known[v], {}}
  BY DEF Changed, Files
<1>2. \A v : Accounted(v, {}, A)
  BY DEF Accounted
<1> QED
  BY <1>1, <1>2 DEF Backed

LEMMA RecordedBacked ==
  ASSUME NEW A, NEW f \in Files, NEW t \in Ticks, Backed(f, A), TickBacked(t, A)
  PROVE  Backed(Recorded(f, t), A)
<1>1. CASE t.pc = "recording" /\ t.w \in f.watched
  <2>1. t.known \ t.todo = t.known
    BY <1>1 DEF TickBacked
  <2>2. Accounted(t.w, t.known, A)
    BY <1>1, <2>1 DEF TickBacked
  <2>3. \A v \in Watches : Recorded(f, t).known[v] = IF v = t.w THEN t.known ELSE f.known[v]
    BY <1>1 DEF Recorded, Files, Ticks
  <2> QED
    BY <2>2, <2>3 DEF Backed
<1>2. CASE ~(t.pc = "recording" /\ t.w \in f.watched)
  BY <1>2 DEF Recorded
<1> QED
  BY <1>1, <1>2

(* A step that spools nothing and takes nothing into a baseline. *)
LEMMA KnownFrame ==
  ASSUME KnownInv, spooled' = spooled, silent' = silent,
         Backed(state', spooled \cup silent),
         \A s \in Servers : /\ snap'[s] = snap[s] \/ Backed(snap'[s], spooled \cup silent)
                            /\ tick'[s] = tick[s] \/ TickBacked(tick'[s], spooled \cup silent)
  PROVE  KnownInv'
BY DEF KnownInv

LEMMA RequestKnown ==
  ASSUME TypeInv, KnownInv, NEW s \in Servers, NEW k \in Slots,
         \/ GetStatus(s, k)
         \/ \E op \in Ops \ {"status"}, w \in Watches : Control(s, k, op, w)
         \/ Request(s, k) \/ FailUpdate(s, k)
  PROVE  KnownInv'
<1> USE DEF TypeInv
<1> DEFINE A == spooled \cup silent
<1>1. CASE EndUpdate(s, k)
  <2>1. /\ snap[s] \in Files /\ req[s][k].op \in Ops /\ req[s][k].w \in Watches
        /\ Backed(snap[s], A) /\ Backed(state, A)
    <3>1. req[s][k] \in Requests
      BY TypeFact
    <3>2. snap[s] \in Files
      BY DEF TypeOK
    <3> QED
      BY <3>1, <3>2 DEF KnownInv, Requests
  <2>2. Backed(Changed(snap[s], req[s][k].op, req[s][k].w), A)
    BY <2>1, ChangedBacked
  <2>3. /\ Backed(state', A) /\ spooled' = spooled /\ silent' = silent /\ tick' = tick
        /\ snap' = [snap EXCEPT ![s] = NoFile]
    BY <1>1, <2>1, <2>2 DEF EndUpdate
  <2>4. \A t \in Servers : snap'[t] = snap[t] \/ Backed(snap'[t], A)
    BY <2>3, NothingIsKnown DEF TypeOK
  <2> QED
    BY <2>3, <2>4, KnownFrame
<1>2. CASE FailUpdate(s, k)
  <2>1. /\ state' = state /\ spooled' = spooled /\ silent' = silent /\ tick' = tick
        /\ snap' = [snap EXCEPT ![s] = NoFile]
    BY <1>2 DEF FailUpdate
  <2>2. \A t \in Servers : snap'[t] = snap[t] \/ Backed(snap'[t], A)
    BY <2>1, NothingIsKnown DEF TypeOK
  <2> QED
    BY <2>1, <2>2, KnownFrame DEF KnownInv
<1>3. CASE BeginUpdate(s, k)
  <2>1. /\ state' = state /\ spooled' = spooled /\ silent' = silent /\ tick' = tick
        /\ snap' = [snap EXCEPT ![s] = state]
    BY <1>3 DEF BeginUpdate
  <2>2. \A t \in Servers : snap'[t] = snap[t] \/ Backed(snap'[t], A)
    BY <2>1 DEF TypeOK, KnownInv
  <2> QED
    BY <2>1, <2>2, KnownFrame DEF KnownInv
<1>4. CASE \/ GetStatus(s, k) \/ CheckStatus(s, k) \/ Acquire(s, k) \/ Assign(s, k)
           \/ Release(s, k) \/ Verify(s, k) \/ Unlink(s, k)
           \/ \E op \in Ops \ {"status"}, w \in Watches : Control(s, k, op, w)
  <2>1. state' = state /\ spooled' = spooled /\ silent' = silent /\ tick' = tick /\ snap' = snap
    BY <1>4 DEF GetStatus, CheckStatus, Acquire, Create, Exists, Judge, Clear, Assign, Release,
                Verify, Unlink, Control
  <2> QED
    BY <2>1, KnownFrame DEF KnownInv
<1> QED
  BY <1>1, <1>2, <1>3, <1>4 DEF Request

LEMMA TickKnown ==
  ASSUME TypeInv, KnownInv, NEW s \in Servers,
         \/ Fire(s) \/ TickStep(s) \/ Reschedule(s) \/ Throw(s) \/ Crash(s)
  PROVE  KnownInv'
<1> USE DEF TypeInv
<1> DEFINE A == spooled \cup silent
<1>0. /\ Backed(state, A) /\ Backed(snap[s], A) /\ TickBacked(tick[s], A)
      /\ tick[s] \in Ticks /\ snap[s] \in Files /\ state \in Files
  BY TypeFact DEF KnownInv, TypeOK
<1>a. ASSUME OtherTicks(s), spooled' = spooled, silent' = silent, Backed(state', A),
             snap' = snap \/ snap' = [snap EXCEPT ![s] = NoFile] \/ snap' = [snap EXCEPT ![s] = state],
             tick'[s] = tick[s] \/ TickBacked(tick'[s], A)
      PROVE  KnownInv'
  <2>1. \A t \in Servers : snap'[t] = snap[t] \/ Backed(snap'[t], A)
    BY <1>0, <1>a, NothingIsKnown DEF TypeOK
  <2>2. \A t \in Servers : tick'[t] = tick[t] \/ TickBacked(tick'[t], A)
    BY <1>a DEF OtherTicks
  <2> QED
    BY <1>a, <2>1, <2>2, KnownFrame
<1>b. ASSUME tick'[s].pc \notin {"spool", "recording"} PROVE TickBacked(tick'[s], A)
  BY <1>b DEF TickBacked
<1>1. CASE Fire(s)
  BY <1>0, <1>a, <1>b, <1>1, FireFact DEF Fire
<1>2. CASE Select(s)
  BY <1>0, <1>a, <1>b, <1>2, SelectFact DEF Select
<1>3. CASE Poll(s)
  BY <1>0, <1>a, <1>b, <1>3, PollFact DEF Poll
<1>4. CASE Match(s)
  <2> DEFINE t == tick[s]
             B == spooled' \cup silent'
  <2>1. /\ OtherTicks(s) /\ state' = state /\ snap' = snap /\ spooled' = spooled
        /\ \/ /\ StillWatched(t)
              /\ tick'[s].pc = "spool" /\ tick'[s].w = t.w
              /\ tick'[s].todo = Additions(t)
              /\ tick'[s].known = state.known[t.w] \cup t.seen
           \/ tick'[s].pc = "finally" /\ silent' = silent
    BY <1>4, MatchFact DEF Match
  <2>2. CASE tick'[s].pc = "finally" /\ silent' = silent
    BY <1>0, <1>a, <1>b, <2>1, <2>2
  <2>3. CASE /\ StillWatched(t)
             /\ tick'[s].pc = "spool" /\ tick'[s].w = t.w
             /\ tick'[s].todo = Additions(t)
             /\ tick'[s].known = state.known[t.w] \cup t.seen
    <3>1. silent' = IF t.w \in state.initialized THEN silent ELSE silent \cup ({t.w} \X t.seen)
      BY <1>4, <2>3 DEF Match
    <3>2. A \subseteq B
      BY <2>1, <3>1
    <3>3. Accounted(t.w, state.known[t.w], B)
      BY <1>0, <3>2, AccountedFact DEF Backed, Ticks
    <3>4. Accounted(t.w, tick'[s].known \ tick'[s].todo, B)
      <4>1. CASE t.w \in state.initialized
        BY <2>3, <3>3, <4>1 DEF Additions, Accounted
      <4>2. CASE t.w \notin state.initialized
        BY <2>3, <3>1, <3>3, <4>2 DEF Additions, Accounted
      <4> QED
        BY <4>1, <4>2
    <3>5. TickBacked(tick'[s], B)
      BY <2>3, <3>4 DEF TickBacked
    <3>6. \A u \in Servers : Backed(snap[u], B) /\ TickBacked(tick[u], B)
      BY <3>2, AccountedFact DEF KnownInv
    <3>7. Backed(state, B)
      BY <1>0, <3>2, AccountedFact
    <3> QED
      BY <2>1, <3>5, <3>6, <3>7 DEF KnownInv, OtherTicks
  <2> QED
    BY <2>1, <2>2, <2>3
<1>5. CASE Spool(s)
  <2> DEFINE t == tick[s]
             B == spooled' \cup silent'
  <2>1. /\ OtherTicks(s) /\ state' = state /\ snap' = snap /\ silent' = silent
        /\ t.pc = "spool"
        /\ tick'[s].pc = "spool" /\ tick'[s].w = t.w /\ tick'[s].known = t.known
    BY <1>5, SpoolFact DEF Spool
  <2>2. PICK p \in t.todo : /\ spooled' = spooled \cup {<<t.w, p>>}
                            /\ tick'[s].todo = t.todo \ {p}
    BY <1>5, SpoolFact
  <2>3. A \subseteq B
    BY <2>1, <2>2
  <2>4. Accounted(t.w, t.known \ t.todo, A)
    BY <1>0, <2>1 DEF TickBacked
  <2>5. Accounted(t.w, tick'[s].known \ tick'[s].todo, B)
    BY <2>1, <2>2, <2>4 DEF Accounted
  <2>6. TickBacked(tick'[s], B)
    BY <2>1, <2>5 DEF TickBacked
  <2>7. \A u \in Servers : Backed(snap[u], B) /\ TickBacked(tick[u], B)
    BY <2>3, AccountedFact DEF KnownInv
  <2>8. Backed(state, B)
    BY <1>0, <2>3, AccountedFact
  <2> QED
    BY <2>1, <2>6, <2>7, <2>8 DEF KnownInv, OtherTicks
<1>6. CASE BeginRecord(s)
  <2>1. /\ OtherTicks(s) /\ ReadyToRecord(tick[s])
        /\ tick'[s].pc = (IF tick[s].pc = "fail" THEN "failing" ELSE "recording")
        /\ tick'[s].w = tick[s].w /\ tick'[s].known = tick[s].known /\ tick'[s].todo = tick[s].todo
    BY <1>6, BeginRecordFact
  <2>2. TickBacked(tick'[s], A)
    BY <1>0, <2>1 DEF TickBacked, ReadyToRecord
  <2> QED
    BY <1>0, <1>a, <1>6, <2>1, <2>2 DEF BeginRecord
<1>7. CASE EndRecord(s)
  <2>1. Backed(Recorded(snap[s], tick[s]), A)
    BY <1>0, RecordedBacked
  <2>2. OtherTicks(s) /\ tick'[s].pc = "finally"
    BY <1>7, EndRecordFact
  <2> QED
    BY <1>a, <1>b, <1>7, <2>1, <2>2 DEF EndRecord
<1>8. CASE Throw(s)
  <2>1. OtherTicks(s) /\ tick'[s].pc \in {"fail", "finally"}
    BY <1>8, ThrowFact
  <2> QED
    BY <1>0, <1>a, <1>b, <1>8, <2>1 DEF Throw
<1>9. CASE Finally(s)
  BY <1>0, <1>a, <1>b, <1>9, FinallyFact DEF Finally
<1>10. CASE Reschedule(s)
  BY <1>0, <1>a, <1>10 DEF Reschedule, OtherTicks
<1>11. CASE Crash(s)
  BY <1>0, <1>a, <1>b, <1>11, CrashFact DEF Crash
<1> QED
  BY <1>1, <1>2, <1>3, <1>4, <1>5, <1>6, <1>7, <1>8, <1>9, <1>10, <1>11 DEF TickStep

-----------------------------------------------------------------------------
(* The two parts of the invariant are kept by every step.                  *)

LEMMA MonitorInit == Init => MonitorInv
<1> SUFFICES ASSUME Init PROVE MonitorInv
  OBVIOUS
<1>1. TypeInv
  BY InitType
<1>2. /\ \A s \in Servers : /\ ~lease[s] /\ writer[s] = Nobody /\ tick[s].pc = "idle"
                            /\ snap[s] = NoFile
                            /\ \A k \in Slots : req[s][k].pc = "idle"
      /\ state.known = NoFile.known
  BY NothingFact DEF Init, NoReq, NoTick, Files
<1>3. LeaseInv
  <2>1. lock = Free
    BY DEF Init
  <2> QED
    BY <1>2, <2>1 DEF LeaseInv, NoneStale, OwnLease, Carries
<1>4. WriterInv
  <2>1. \A k \in Slots : k # Nobody
    OBVIOUS
  <2> QED
    BY <1>2, <2>1 DEF WriterInv
<1>5. KnownInv
  BY <1>2, NothingIsKnown DEF KnownInv, Backed, TickBacked
<1> QED
  BY <1>1, <1>3, <1>4, <1>5 DEF MonitorInv

LEMMA MonitorStep ==
  ASSUME MonitorInv, [Next]_vars
  PROVE  MonitorInv'
<1> USE DEF MonitorInv
<1>1. ASSUME NEW s \in Servers, NEW k \in Slots,
             \/ GetStatus(s, k)
             \/ \E op \in Ops \ {"status"}, w \in Watches : Control(s, k, op, w)
             \/ Request(s, k) \/ FailUpdate(s, k)
      PROVE  MonitorInv'
  BY <1>1, RequestType, LeaseStep, RequestWriter, RequestKnown DEF Request
<1>2. ASSUME NEW s \in Servers,
             \/ Fire(s) \/ TickStep(s) \/ Reschedule(s) \/ Throw(s) \/ Crash(s)
      PROVE  MonitorInv'
  BY <1>2, TickType, LeaseStep, TickWriter, TickKnown DEF TickStep
<1>3. CASE UNCHANGED vars
  <2> USE <1>3 DEF vars
  <2>1. TypeInv'
    BY DEF TypeInv, TypeOK, SnapsAreWithinLimit
  <2>2. LeaseInv' /\ WriterInv'
    BY DEF LeaseInv, NoneStale, OwnLease, Carries, WriterInv
  <2>3. KnownInv'
    BY DEF KnownInv
  <2> QED
    BY <2>1, <2>2, <2>3
<1> QED
  BY <1>1, <1>2, <1>3 DEF Next

-----------------------------------------------------------------------------
(* One server.                                                             *)

LEMMA AppliedSame ==
  ASSUME NEW f \in Files, NEW a \in [running: BOOLEAN, watched: SUBSET Watches],
         NEW op \in Ops, NEW w \in Watches,
         f.running = a.running, f.watched = a.watched
  PROVE  /\ Changed(f, op, w).running = AppliedTo(a, op, w).running
         /\ Changed(f, op, w).watched = AppliedTo(a, op, w).watched
<1> DEFINE g == [NoFile EXCEPT !.running = a.running, !.watched = a.watched]
<1>1. g \in Files /\ g.running = f.running /\ g.watched = f.watched
  BY NothingFact DEF Files
<1>2. AppliedTo(a, op, w) = [running |-> Changed(g, op, w).running, watched |-> Changed(g, op, w).watched]
  BY DEF AppliedTo
<1> HIDE DEF g
<1>3. Changed(g, op, w).running = Changed(f, op, w).running
  BY <1>1 DEF Changed, Files
<1>4. Changed(g, op, w).watched = Changed(f, op, w).watched
  BY <1>1 DEF Changed, Files
<1> QED
  BY <1>2, <1>3, <1>4

(* An update of a request changes the running flag only as start or pause. *)
LEMMA ChangedRunning ==
  ASSUME NEW f \in Files, NEW op \in Ops \ {"start", "pause"}, NEW w \in Watches
  PROVE  Changed(f, op, w).running = f.running
BY DEF Changed, Files

(* A step that leaves the file and what the update has read of it. *)
LEMMA FileFrame ==
  ASSUME QueueInv, NoLostUpdate, state' = state, applied' = applied,
         \A s \in Servers : \/ writer'[s] = writer[s] /\ snap'[s] = snap[s]
                            \/ writer'[s] = Nobody \/ snap'[s] = state
  PROVE  QueueInv' /\ NoLostUpdate'
BY DEF QueueInv, NoLostUpdate

LEMMA TodoFrame ==
  ASSUME TodoInv, state' = state,
         \A s \in Servers : tick'[s] = tick[s] \/ tick'[s].pc # "spool"
  PROVE  TodoInv'
BY DEF TodoInv

LEMMA ArmedFrame ==
  ASSUME OneServer, ArmedInv, NEW s \in Servers,
         state'.running => state.running, lease'[s] => lease[s], fileErrors' = fileErrors,
         Armed(s) => Armed(s)', \A k \in Slots : Disarms(s, k) => Disarms(s, k)'
  PROVE  ArmedInv'
BY DEF ArmedInv, OneServer

LEMMA ArmedNow ==
  ASSUME OneServer, NEW s \in Servers,
         \/ ~state'.running \/ ~lease'[s] \/ fileErrors' # 0 \/ Armed(s)'
         \/ \E k \in Slots : Disarms(s, k)'
  PROVE  ArmedInv'
BY DEF ArmedInv, OneServer

(* An update has read what is in the file now. *)
LEMMA SnapIsState ==
  ASSUME TypeInv, WriterInv, QueueInv, NEW s \in Servers
  PROVE  /\ \A k \in Slots : req[s][k].pc = "write" => snap[s] = state
         /\ Recording(s) => snap[s] = state
<1>1. \A k \in Slots : k # Nobody
  OBVIOUS
<1> QED
  BY <1>1 DEF WriterInv, QueueInv, Recording

LEMMA RequestServer ==
  ASSUME OneServer, TypeInv, WriterInv, ServerInv, NEW s \in Servers, NEW k \in Slots,
         \/ GetStatus(s, k)
         \/ \E op \in Ops \ {"status"}, w \in Watches : Control(s, k, op, w)
         \/ Request(s, k) \/ FailUpdate(s, k)
  PROVE  ServerInv'
<1> USE DEF ServerInv, TypeInv
<1>0. /\ req \in [Servers -> [Slots -> Requests]] /\ req[s][k] \in Requests
      /\ lease \in [Servers -> BOOLEAN] /\ timer \in [Servers -> BOOLEAN]
  BY TypeFact DEF TypeOK
<1>a. ASSUME state' = state, applied' = applied, writer' = writer, snap' = snap, tick' = tick,
             ArmedInv'
      PROVE  ServerInv'
  BY <1>a, FileFrame, TodoFrame
<1>b. ASSUME OthersStay(s, k), ~Disarms(s, k) \/ Disarms(s, k)', state' = state, fileErrors' = fileErrors,
             lease'[s] => lease[s], timer'[s] = timer[s], busy' = busy, tail' = tail
      PROVE  ArmedInv'
  <2>1. \A j \in Slots : Disarms(s, j) => Disarms(s, j)'
    BY <1>b DEF OthersStay, Disarms
  <2> QED
    BY <1>b, <2>1, ArmedFrame DEF Armed
<1>1. CASE GetStatus(s, k)
  <2>1. OthersStay(s, k) /\ ~Disarms(s, k)
    BY <1>1, GetStatusFact DEF GetStatus, Disarms
  <2> QED
    BY <1>a, <1>b, <1>1, <2>1 DEF GetStatus
<1>2. CASE CheckStatus(s, k)
  <2>1. OthersStay(s, k) /\ ~Disarms(s, k)
    BY <1>0, <1>2, GotoFact DEF CheckStatus, Disarms, Moved, OthersStay, ReqPcs
  <2> QED
    BY <1>a, <1>b, <1>2, <2>1 DEF CheckStatus
<1>3. ASSUME NEW op \in Ops \ {"status"}, NEW w \in Watches, Control(s, k, op, w) PROVE ServerInv'
  <2>1. /\ OthersStay(s, k) /\ req'[s][k].op = op /\ req'[s][k].pc \in {"update", "acquire"}
        /\ ~Disarms(s, k)
    <3>1. ~Disarms(s, k)
      BY <1>3 DEF Control, Disarms
    <3> QED
      BY <1>3, <3>1, ControlFact
  <2>2. CASE op = "pause"
    <3>1. Disarms(s, k)'
      BY <2>1, <2>2 DEF Disarms
    <3> QED
      BY <1>a, <1>3, <3>1, ArmedNow DEF Control
  <2>3. CASE op # "pause"
    BY <1>a, <1>b, <1>3, <2>1, <2>3 DEF Control
  <2> QED
    BY <2>2, <2>3
<1>4. CASE Acquire(s, k)
  <2>1. OthersStay(s, k) /\ (~Disarms(s, k) \/ Disarms(s, k)') /\ AcquireLeaves
    BY <1>4, AcquireFact DEF AcquirePcs, Disarms
  <2> QED
    BY <1>a, <1>b, <2>1 DEF AcquireLeaves
<1>5. CASE Assign(s, k)
  <2> DEFINE r == req[s][k]
  <2>1. /\ r.pc = "assign"
        /\ Moved(s, k, IF r.got /\ r.op # "status" THEN "update" ELSE "idle")
        /\ state' = state /\ applied' = applied /\ writer' = writer /\ snap' = snap /\ tick' = tick
        /\ fileErrors' = fileErrors /\ busy' = busy /\ tail' = tail
    BY <1>0, <1>5, GotoFact DEF Assign, ReqPcs
  <2>2. /\ lease'[s] = Assigned(s, k)
        /\ r.op = "status" /\ r.got => timer'[s] = TRUE
        /\ r.op # "status" => timer' = timer
    BY <1>0, <1>5 DEF Assign
  <2>3. CASE r.op \in {"add", "remove"}
    <3>1. OthersStay(s, k) /\ ~Disarms(s, k)
      BY <2>1, <2>3 DEF Moved, OthersStay, Disarms
    <3>2. lease'[s] = lease[s] /\ timer' = timer
      BY <2>2, <2>3 DEF Assigned
    <3> QED
      BY <1>a, <1>b, <2>1, <3>1, <3>2
  <2>4. CASE r.op \notin {"add", "remove"} /\ ~r.got
    <3>1. ~lease'[s]
      BY <2>2, <2>4 DEF Assigned
    <3> QED
      BY <1>a, <2>1, <3>1, ArmedNow
  <2>5. CASE r.op = "status" /\ r.got
    <3>1. Armed(s)'
      BY <2>2, <2>5 DEF Armed
    <3> QED
      BY <1>a, <2>1, <3>1, ArmedNow
  <2>6. CASE r.op \in {"start", "pause"} /\ r.got
    <3>1. Disarms(s, k)'
      BY <2>1, <2>6 DEF Moved, Disarms
    <3> QED
      BY <1>a, <2>1, <3>1, ArmedNow
  <2> QED
    BY <1>0, <2>3, <2>4, <2>5, <2>6 DEF Requests, Ops
<1>6. CASE BeginUpdate(s, k)
  <2>1. OthersStay(s, k) /\ (~Disarms(s, k) \/ Disarms(s, k)')
    BY <1>0, <1>6, GotoFact DEF BeginUpdate, Disarms, Moved, OthersStay, ReqPcs
  <2>2. ArmedInv'
    BY <1>b, <1>6, <2>1 DEF BeginUpdate
  <2>3. \A t \in Servers : snap'[t] = state
    BY <1>6 DEF BeginUpdate, OneServer, TypeOK
  <2> QED
    BY <1>6, <2>2, <2>3, FileFrame, TodoFrame DEF BeginUpdate
<1>7. CASE EndUpdate(s, k)
  <2> DEFINE r == req[s][k]
             refused == Refused(snap[s], r.op, r.w)
             pc == CASE r.op = "pause" \/ (r.op = "start" /\ refused) -> "release"
                     [] r.op \in {"add", "remove"} /\ r.got -> "verify"
                     [] OTHER -> "idle"
  <2>1. /\ Goto(s, k, pc) /\ r.pc = "write" /\ tick' = tick
        /\ writer' = [writer EXCEPT ![s] = Nobody]
        /\ state' = (IF refused THEN state ELSE Changed(snap[s], r.op, r.w))
        /\ applied' = (IF refused THEN applied ELSE AppliedTo(applied, r.op, r.w))
        /\ timer' = (IF r.op = "start" /\ ~refused THEN [timer EXCEPT ![s] = TRUE] ELSE timer)
        /\ lease' = lease /\ busy' = busy /\ tail' = tail /\ fileErrors' = fileErrors
    BY <1>7 DEF EndUpdate
  <2>2. /\ pc \in ReqPcs
        /\ r.op = "pause" => pc = "release"
        /\ r.op = "start" /\ refused => pc = "release"
    BY DEF ReqPcs
  <2> HIDE DEF pc
  <2>3. Moved(s, k, pc)
    BY <1>0, <2>1, <2>2, GotoFact
  <2>4. /\ snap[s] = state /\ state \in Files
        /\ applied \in [running: BOOLEAN, watched: SUBSET Watches]
        /\ r.op \in Ops /\ r.w \in Watches
    BY <1>0, <2>1, SnapIsState, TypeFact DEF TypeOK, Requests
  <2>5. \A t \in Servers : writer'[t] = Nobody
    BY <2>1 DEF OneServer, TypeOK
  <2>6. QueueInv' /\ NoLostUpdate'
    <3>1. /\ Changed(state, r.op, r.w).running = AppliedTo(applied, r.op, r.w).running
          /\ Changed(state, r.op, r.w).watched = AppliedTo(applied, r.op, r.w).watched
      BY <2>4, AppliedSame DEF NoLostUpdate
    <3> QED
      BY <2>1, <2>4, <2>5, <3>1 DEF QueueInv, NoLostUpdate
  <2>7. TodoInv'
    <3>1. \A v \in Watches : state'.known[v] \subseteq state.known[v]
      BY <2>1, <2>4 DEF Changed, Files
    <3>2. \A t \in Servers : tick[t].w \in Watches
      BY TypeFact DEF Ticks
    <3> QED
      BY <2>1, <3>1, <3>2 DEF TodoInv
  <2>8. ArmedInv'
    <3>1. CASE r.op = "pause" \/ (r.op = "start" /\ refused)
      <4>1. Disarms(s, k)'
        BY <2>2, <2>3, <3>1 DEF Moved, Disarms
      <4> QED
        BY <4>1, ArmedNow
    <3>2. CASE r.op = "start" /\ ~refused
      <4>1. Armed(s)'
        BY <1>0, <2>1, <3>2 DEF Armed
      <4> QED
        BY <4>1, ArmedNow
    <3>3. CASE r.op \notin {"start", "pause"}
      <4>1. state'.running = state.running
        BY <2>1, <2>4, <3>3, ChangedRunning
      <4>2. \A j \in Slots : Disarms(s, j) => Disarms(s, j)'
        BY <2>3, <3>3 DEF Moved, Disarms
      <4>3. Armed(s) => Armed(s)'
        BY <2>1, <3>3 DEF Armed
      <4> QED
        BY <2>1, <4>1, <4>2, <4>3, ArmedFrame
    <3> QED
      BY <3>1, <3>2, <3>3
  <2> QED
    BY <2>6, <2>7, <2>8
<1>8. CASE FailUpdate(s, k)
  <2>1. fileErrors' # 0
    BY <1>8 DEF FailUpdate, TypeOK
  <2>2. \A t \in Servers : writer'[t] = Nobody
    BY <1>8 DEF FailUpdate, OneServer, TypeOK
  <2> QED
    BY <1>8, <2>1, <2>2, ArmedNow, FileFrame, TodoFrame DEF FailUpdate
<1>9. CASE Release(s, k)
  <2>1. ~lease'[s]
    BY <1>0, <1>9 DEF Release
  <2> QED
    BY <1>a, <1>9, <2>1, ArmedNow DEF Release
<1>10. CASE Verify(s, k)
  <2>1. OthersStay(s, k) /\ ~Disarms(s, k)
    BY <1>0, <1>10, GotoFact DEF Verify, Disarms, Moved, OthersStay, ReqPcs
  <2> QED
    BY <1>a, <1>b, <1>10, <2>1 DEF Verify
<1>11. CASE Unlink(s, k)
  <2>1. OthersStay(s, k) /\ ~Disarms(s, k)
    BY <1>0, <1>11, GotoFact DEF Unlink, Disarms, Moved, OthersStay, ReqPcs
  <2> QED
    BY <1>a, <1>b, <1>11, <2>1 DEF Unlink
<1> QED
  BY <1>1, <1>2, <1>3, <1>4, <1>5, <1>6, <1>7, <1>8, <1>9, <1>10, <1>11 DEF Request

LEMMA TickServer ==
  ASSUME OneServer, TypeInv, WriterInv, ServerInv, NEW s \in Servers,
         \/ Fire(s) \/ TickStep(s) \/ Reschedule(s) \/ Throw(s) \/ Crash(s)
  PROVE  ServerInv'
<1> USE DEF ServerInv, TypeInv
<1>0. /\ tick \in [Servers -> Ticks] /\ tick[s] \in Ticks /\ state \in Files
      /\ lease \in [Servers -> BOOLEAN] /\ timer \in [Servers -> BOOLEAN]
      /\ busy \in [Servers -> BOOLEAN] /\ tail \in [Servers -> Nat]
  BY TypeFact DEF TypeOK
<1>a. ASSUME state' = state, applied' = applied, ArmedInv',
             tick' = tick \/ tick'[s].pc # "spool",
             \/ writer' = writer /\ snap' = snap
             \/ writer' = [writer EXCEPT ![s] = Nobody]
             \/ snap' = [snap EXCEPT ![s] = state]
      PROVE  ServerInv'
  <2>1. \A t \in Servers : tick'[t] = tick[t] \/ tick'[t].pc # "spool"
    BY <1>a DEF OneServer
  <2>2. \A t \in Servers : \/ writer'[t] = writer[t] /\ snap'[t] = snap[t]
                           \/ writer'[t] = Nobody \/ snap'[t] = state
    BY <1>a DEF OneServer, TypeOK
  <2> QED
    BY <1>a, <2>1, <2>2, FileFrame, TodoFrame
<1>b. ASSUME state'.running = state.running, fileErrors' = fileErrors, lease' = lease, req' = req,
             timer' = timer, busy' = busy, tail' = tail
      PROVE  ArmedInv'
  BY <1>b, ArmedFrame DEF Armed, Disarms
<1>1. CASE Fire(s)
  <2>1. \/ tick' = tick /\ busy' = busy /\ ~MayTick(s)
        \/ tick'[s].pc = "read" /\ busy' = [busy EXCEPT ![s] = TRUE]
    BY <1>1, FireFact
  <2>2. Armed(s)' \/ ~lease'[s]
    BY <1>0, <1>1, <2>1 DEF Fire, Armed, MayTick
  <2> QED
    BY <1>a, <1>1, <2>1, <2>2, ArmedNow DEF Fire
<1>2. CASE Select(s)
  BY <1>a, <1>b, <1>2, SelectFact DEF Select
<1>3. CASE Poll(s)
  BY <1>a, <1>b, <1>3, PollFact DEF Poll
<1>4. CASE Match(s)
  <2>1. /\ state' = state /\ applied' = applied /\ writer' = writer /\ snap' = snap /\ ArmedInv'
    BY <1>b, <1>4 DEF Match
  <2>2. CASE tick'[s].pc # "spool"
    BY <1>a, <2>1, <2>2
  <2>3. CASE tick'[s].pc = "spool"
    <3>1. /\ tick'[s].w = tick[s].w /\ tick'[s].todo = Additions(tick[s])
      BY <1>4, <2>3, MatchFact
    <3>2. \A p \in tick'[s].todo : p \notin state.known[tick'[s].w]
      BY <3>1 DEF Additions
    <3>3. TodoInv'
      BY <2>1, <3>2 DEF TodoInv, OneServer
    <3> QED
      BY <2>1, <3>3, FileFrame
  <2> QED
    BY <2>2, <2>3
<1>5. CASE Spool(s)
  <2>1. state' = state /\ applied' = applied /\ writer' = writer /\ snap' = snap /\ ArmedInv'
    BY <1>b, <1>5 DEF Spool
  <2>2. tick[s].pc = "spool" /\ tick'[s].w = tick[s].w /\ tick'[s].todo \subseteq tick[s].todo
    BY <1>5, SpoolFact
  <2>3. TodoInv'
    BY <2>1, <2>2 DEF TodoInv, OneServer
  <2> QED
    BY <2>1, <2>3, FileFrame
<1>6. CASE BeginRecord(s)
  <2>1. tick'[s].pc # "spool"
    BY <1>6, BeginRecordFact
  <2> QED
    BY <1>a, <1>b, <1>6, <2>1 DEF BeginRecord
<1>7. CASE EndRecord(s)
  <2>1. /\ tick'[s].pc = "finally" /\ snap[s] = state
        /\ state' = Recorded(snap[s], tick[s]) /\ applied' = applied
        /\ writer' = [writer EXCEPT ![s] = Nobody]
    BY <1>7, EndRecordFact, SnapIsState DEF EndRecord
  <2>2. state'.running = state.running /\ state'.watched = state.watched
    BY <1>0, <2>1, RecordedFact
  <2>3. ArmedInv'
    BY <1>b, <1>7, <2>2 DEF EndRecord
  <2>4. \A t \in Servers : writer'[t] = Nobody /\ tick'[t].pc = "finally"
    BY <2>1 DEF OneServer, TypeOK
  <2> QED
    BY <2>1, <2>2, <2>3, <2>4 DEF QueueInv, NoLostUpdate, TodoInv
<1>8. CASE Throw(s)
  <2>1. tick'[s].pc # "spool"
    BY <1>8, ThrowFact
  <2> QED
    BY <1>a, <1>b, <1>8, <2>1 DEF Throw
<1>9. CASE Finally(s)
  <2>1. tick'[s].pc # "spool"
    BY <1>9, FinallyFact
  <2>2. Armed(s)'
    BY <1>0, <1>9 DEF Finally, Armed
  <2> QED
    BY <1>a, <1>9, <2>1, <2>2, ArmedNow DEF Finally
<1>10. CASE Reschedule(s)
  <2>1. state' = state /\ applied' = applied /\ writer' = writer /\ snap' = snap /\ tick' = tick
    BY <1>10 DEF Reschedule
  <2>2. \/ timer' = (IF state.running THEN [timer EXCEPT ![s] = TRUE] ELSE timer)
        \/ fileErrors' = fileErrors + 1
    BY <1>10 DEF Reschedule
  <2>3. fileErrors \in Nat
    BY DEF TypeOK
  <2>4. ~state'.running \/ fileErrors' # 0 \/ Armed(s)'
    BY <1>0, <2>1, <2>2, <2>3 DEF Armed
  <2> QED
    BY <1>a, <2>1, <2>4, ArmedNow
<1>11. CASE Crash(s)
  <2>1. tick'[s].pc # "spool"
    BY <1>11, CrashFact
  <2>2. ~lease'[s]
    BY <1>0, <1>11 DEF Crash
  <2> QED
    BY <1>a, <1>11, <2>1, <2>2, ArmedNow DEF Crash
<1> QED
  BY <1>1, <1>2, <1>3, <1>4, <1>5, <1>6, <1>7, <1>8, <1>9, <1>10, <1>11 DEF TickStep

-----------------------------------------------------------------------------
(* Theorems.                                                               *)

(* The invariant: types and the limit, one place for the lease until a     *)
(* server dies, one writer in a process, and every known pattern reported. *)
THEOREM MonitorCorrect == Spec => []MonitorInv
BY MonitorInit, MonitorStep, PTL DEF Spec

(* Every variable has its type, and no file ever holds more watches than   *)
(* the limit, whoever adds them at the same time.                          *)
THEOREM TypeCorrect == Spec => []TypeOK
<1>1. MonitorInv => TypeOK
  BY DEF MonitorInv, TypeInv
<1> QED
  BY <1>1, MonitorCorrect, PTL

(* While no server has died one service at most believes it owns the      *)
(* lease, for any number of servers, requests and failing files.           *)
THEOREM OneOwnerUntilCrashAlways == Spec => []OneOwnerUntilCrash
<1>1. MonitorInv => OneOwnerUntilCrash
  BY DEF MonitorInv, LeaseInv, OwnLease, OneOwnerUntilCrash
<1> QED
  BY <1>1, MonitorCorrect, PTL

(* ... and the lease file names that server. *)
THEOREM OwnerIsNamedUntilCrashAlways == Spec => []OwnerIsNamedUntilCrash
<1>1. MonitorInv => OwnerIsNamedUntilCrash
  BY DEF MonitorInv, LeaseInv, OwnLease, OwnerIsNamedUntilCrash
<1> QED
  BY <1>1, MonitorCorrect, PTL

(* A known pattern is spooled or was in a baseline, for any number of      *)
(* servers writing the file and whatever fails or crashes.                 *)
THEOREM KnownIsAccountedForAlways == Spec => []KnownIsAccountedFor
<1>1. MonitorInv => KnownIsAccountedFor
  <2> SUFFICES ASSUME MonitorInv, NEW w \in state.watched
               PROVE  {w} \X state.known[w] \subseteq spooled \cup silent
    BY DEF KnownIsAccountedFor
  <2>1. w \in Watches
    BY TypeFact DEF MonitorInv, TypeInv, Files
  <2> QED
    BY <2>1 DEF MonitorInv, KnownInv, Backed, Accounted
<1> QED
  BY <1>1, MonitorCorrect, PTL

LEMMA ServerInit == Init => ServerInv
<1> SUFFICES ASSUME Init PROVE ServerInv
  OBVIOUS
<1>1. \A s \in Servers : writer[s] = Nobody /\ tick[s].pc = "idle" /\ ~lease[s]
  BY DEF Init, NoTick
<1>2. applied = [running |-> state.running, watched |-> state.watched]
  BY DEF Init
<1> QED
  BY <1>1, <1>2 DEF ServerInv, QueueInv, NoLostUpdate, TodoInv, ArmedInv

LEMMA ServerStep ==
  ASSUME OneServer, MonitorInv, ServerInv, [Next]_vars
  PROVE  ServerInv'
<1> USE DEF MonitorInv
<1>1. ASSUME NEW s \in Servers, NEW k \in Slots,
             \/ GetStatus(s, k)
             \/ \E op \in Ops \ {"status"}, w \in Watches : Control(s, k, op, w)
             \/ Request(s, k) \/ FailUpdate(s, k)
      PROVE  ServerInv'
  BY <1>1, RequestServer
<1>2. ASSUME NEW s \in Servers,
             \/ Fire(s) \/ TickStep(s) \/ Reschedule(s) \/ Throw(s) \/ Crash(s)
      PROVE  ServerInv'
  BY <1>2, TickServer
<1>3. CASE UNCHANGED vars
  <2> USE <1>3 DEF vars, ServerInv
  <2>1. QueueInv' /\ NoLostUpdate' /\ TodoInv'
    BY DEF QueueInv, NoLostUpdate, TodoInv
  <2>2. ArmedInv'
    BY DEF ArmedInv, Armed, Disarms
  <2> QED
    BY <2>1, <2>2
<1> QED
  BY <1>1, <1>2, <1>3 DEF Next

(* With one server: the queue, what is to be spooled and the next poll.    *)
THEOREM ServerCorrect ==
  ASSUME OneServer
  PROVE  Spec => [](MonitorInv /\ ServerInv)
<1>1. Init => MonitorInv /\ ServerInv
  BY MonitorInit, ServerInit
<1>2. MonitorInv /\ ServerInv /\ [Next]_vars => MonitorInv' /\ ServerInv'
  BY MonitorStep, ServerStep
<1> QED
  BY <1>1, <1>2, PTL DEF Spec

(* The write queue of one server loses no update of the running flag or of *)
(* the watches, however many requests and ticks interleave.                *)
THEOREM NoLostUpdateAlways ==
  ASSUME OneServer
  PROVE  Spec => []NoLostUpdate
<1>1. ServerInv => NoLostUpdate
  BY DEF ServerInv
<1> QED
  BY <1>1, ServerCorrect, PTL

(* A running monitor that holds the lease always has its next poll on the  *)
(* way once its requests are answered and the state file never failed it.  *)
THEOREM PollerIsArmedAlways ==
  ASSUME OneServer
  PROVE  Spec => []PollerIsArmed
<1>1. ServerInv => PollerIsArmed
  BY DEF ServerInv, ArmedInv, PollerIsArmed, Disarms
<1> QED
  BY <1>1, ServerCorrect, PTL

(* No event of a known pattern is written to the spool by one server,      *)
(* whether or not the spool has had it before.                             *)
THEOREM KnownIsNotRespooledAlways ==
  ASSUME OneServer
  PROVE  Spec => KnownIsNotRespooled
<1> DEFINE Fresh == \A s \in Servers, p \in Patterns :
          (tick[s].pc = "spool" /\ tick'[s].pc = "spool" /\ p \in tick[s].todo \ tick'[s].todo)
          => p \notin state.known[tick[s].w]
<1>1. ServerInv => Fresh
  BY DEF ServerInv, TodoInv
<1> HIDE DEF Fresh
<1>2. Spec => [][Fresh]_vars
  BY <1>1, ServerCorrect, PTL
<1> QED
  BY <1>2 DEF KnownIsNotRespooled, Fresh

-----------------------------------------------------------------------------
(* The lease of the monitor is the atomic one.                             *)

LEMMA OwnerFact ==
  ASSUME TypeInv
  PROVE  /\ \A s \in Servers : owner = {s} <=> lock = s
         /\ lock \in {Free, Dead} => owner = {}
         /\ lock' = lock => owner' = owner
         /\ lease' = lease => holders' = holders
BY DEF owner, holders

(* A step of a request is one of the lease or leaves it alone. *)
LEMMA RequestImplements ==
  ASSUME TypeInv, NoneStale, OwnLease, NEW s \in Servers, NEW k \in Slots,
         \/ GetStatus(s, k)
         \/ \E op \in Ops \ {"status"}, w \in Watches : Control(s, k, op, w)
         \/ Request(s, k) \/ FailUpdate(s, k)
  PROVE  Lease!Next \/ UNCHANGED <<owner, holders>>
<1> USE DEF TypeInv
<1>0. lease \in [Servers -> BOOLEAN] /\ req[s][k] \in Requests
  BY TypeFact DEF TypeOK
<1>1. CASE Acquire(s, k)
  <2>1. CASE Create(s, k)
    <3>1. lock' = s /\ lease' = lease /\ lock = Free
      BY <2>1 DEF Create
    <3>2. owner = {} /\ owner' = {s} /\ holders' = holders
      BY <3>1 DEF owner, holders
    <3> QED
      BY <3>2 DEF Lease!Next, Lease!Take
  <2>2. CASE Exists(s, k) \/ Judge(s, k)
    BY <2>2, OwnerFact DEF Exists, Judge
  <2>3. CASE Clear(s, k)
    BY <2>3 DEF Clear, NoneStale
  <2> QED
    BY <1>1, <2>1, <2>2, <2>3 DEF Acquire
<1>2. CASE Assign(s, k)
  <2>1. lock' = lock /\ lease' = [lease EXCEPT ![s] = Assigned(s, k)] /\ req[s][k].pc = "assign"
    BY <1>2 DEF Assign
  <2>2. owner' = owner
    BY <2>1, OwnerFact
  <2>3. CASE req[s][k].op \in {"add", "remove"}
    <3>1. lease' = lease
      BY <1>0, <2>1, <2>3 DEF Assigned
    <3> QED
      BY <2>2, <3>1, OwnerFact
  <2>4. CASE req[s][k].op \notin {"add", "remove"} /\ req[s][k].got
    <3>1. owner = {s}
      BY <2>1, <2>4, OwnerFact DEF OwnLease, Carries
    <3>2. holders' = holders \cup {s}
      BY <1>0, <2>1, <2>4 DEF holders, Assigned
    <3> QED
      BY <2>2, <3>1, <3>2 DEF Lease!Next, Lease!Enter
  <2>5. CASE req[s][k].op \notin {"add", "remove"} /\ ~req[s][k].got
    <3>1. holders' = holders \ {s}
      BY <1>0, <2>1, <2>5 DEF holders, Assigned
    <3> QED
      BY <2>2, <3>1 DEF Lease!Next, Lease!Leave
  <2> QED
    BY <1>0, <2>3, <2>4, <2>5 DEF Requests
<1>3. CASE Release(s, k)
  <2>1. lock' = lock /\ lease' = [lease EXCEPT ![s] = FALSE]
    BY <1>3 DEF Release
  <2>2. owner' = owner
    BY <2>1, OwnerFact
  <2>3. holders' = holders \ {s}
    BY <1>0, <2>1 DEF holders
  <2> QED
    BY <2>2, <2>3 DEF Lease!Next, Lease!Leave
<1>4. CASE Unlink(s, k)
  <2>1. Carries(s, k) /\ lease' = lease /\ lock' = Free
    BY <1>4 DEF Unlink, Carries
  <2>2. lock = s /\ ~lease[s]
    BY <2>1 DEF OwnLease
  <2>3. owner = {s} /\ owner' = {}
    BY <2>1, <2>2 DEF owner
  <2>4. holders' = holders \ {s}
    BY <2>1, <2>2 DEF holders
  <2> QED
    BY <2>3, <2>4 DEF Lease!Next, Lease!GiveBack
<1>5. CASE \/ GetStatus(s, k) \/ CheckStatus(s, k) \/ BeginUpdate(s, k) \/ EndUpdate(s, k)
           \/ FailUpdate(s, k) \/ Verify(s, k)
           \/ \E op \in Ops \ {"status"}, w \in Watches : Control(s, k, op, w)
  <2>1. lock' = lock /\ lease' = lease
    BY <1>5 DEF GetStatus, CheckStatus, BeginUpdate, EndUpdate, FailUpdate, Verify, Control
  <2> QED
    BY <2>1, OwnerFact
<1> QED
  BY <1>1, <1>2, <1>3, <1>4, <1>5 DEF Request

(* The monitor implements the atomic lease until a server dies, for any    *)
(* number of servers and requests, refused status requests and failed      *)
(* updates included.                                                       *)
THEOREM MonitorImplementsLease == Spec => ImplementsLeaseUntilCrash
<1> DEFINE UntilCrash == crashes' = 0 => Lease!Next
<1>1. Init => Lease!Init
  BY DEF Init, Lease!Init, owner, holders
<1>2. MonitorInv /\ [Next]_vars => [UntilCrash]_<<owner, holders>>
  <2> SUFFICES ASSUME MonitorInv, [Next]_vars, crashes' = 0
               PROVE  Lease!Next \/ UNCHANGED <<owner, holders>>
    OBVIOUS
  <2>1. CASE UNCHANGED vars
    BY <2>1, OwnerFact DEF vars, MonitorInv
  <2>2. ASSUME NEW s \in Servers, NEW k \in Slots,
               \/ GetStatus(s, k)
               \/ \E op \in Ops \ {"status"}, w \in Watches : Control(s, k, op, w)
               \/ Request(s, k) \/ FailUpdate(s, k)
        PROVE  Lease!Next \/ UNCHANGED <<owner, holders>>
    <3>1. crashes = 0
      BY <2>2, RequestDeaths
    <3> QED
      BY <2>2, <3>1, RequestImplements DEF MonitorInv, LeaseInv
  <2>3. ASSUME NEW s \in Servers, Fire(s) \/ TickStep(s) \/ Reschedule(s) \/ Throw(s)
        PROVE  UNCHANGED <<owner, holders>>
    <3>1. lock' = lock /\ lease' = lease
      BY <2>3, TickLeaves
    <3> QED
      BY <3>1, OwnerFact DEF MonitorInv
  <2>4. ASSUME NEW s \in Servers, Crash(s) PROVE FALSE
    BY <2>4 DEF Crash, MonitorInv, TypeInv, TypeOK
  <2> QED
    BY <2>1, <2>2, <2>3, <2>4 DEF Next
<1> HIDE DEF UntilCrash
<1>3. Spec => Lease!Init /\ [][UntilCrash]_<<owner, holders>>
  BY <1>1, <1>2, MonitorCorrect, PTL DEF Spec
<1> QED
  BY <1>3 DEF UntilCrash, ImplementsLeaseUntilCrash

(* What the atomic lease promises: who holds it owns the file. *)
THEOREM LeaseExcludes == Lease!Spec => []Lease!HolderIsOwner
<1> USE DEF Lease!HolderIsOwner
<1>1. Lease!Init => Lease!HolderIsOwner
  BY DEF Lease!Init
<1>2. Lease!HolderIsOwner /\ [Lease!Next]_Lease!vars => Lease!HolderIsOwner'
  BY DEF Lease!Next, Lease!vars, Lease!Take, Lease!Enter, Lease!Leave, Lease!GiveBack
<1> QED
  BY <1>1, <1>2, PTL DEF Lease!Spec

-----------------------------------------------------------------------------
(* The protocol of the lock files, FileLease, with names of its own.  It   *)
(* adds the moment between the creation of a file and the writing of pid   *)
(* and token, which the monitor's steps leave out.  The bounds on deaths   *)
(* and failed writes are any numbers.                                      *)

HIDE MonitorAssumption DEF MonitorAssumption, file, service, history, bounds

CONSTANTS Pids, Deaths, WriteErrors, CleansUp, NoLease
VARIABLES leaseFile, place, deaths, writeErrors

File == INSTANCE FileLease WITH
          MaxCrashes <- Deaths, MaxErrors <- WriteErrors, NoFile <- NoLease,
          file <- leaseFile, pc <- place, crashes <- deaths, errors <- writeErrors

(* What FileLease assumes of its constants.                                *)
LeaseAssumption ==
  /\ Deaths \in Nat /\ WriteErrors \in Nat
  /\ CleansUp \in BOOLEAN
  /\ NoLease \notin [owner : Pids, named : BOOLEAN]

LEMMA FileType ==
  ASSUME LeaseAssumption, File!TypeOK, [File!Next]_File!vars
  PROVE  File!TypeOK'
<1> USE LeaseAssumption DEF LeaseAssumption, File!TypeOK, File!Files, File!PCs, File!Goto
<1>1. ASSUME NEW p \in Pids, File!Create(p) \/ File!Exists(p) PROVE File!TypeOK'
  <2>1. CASE File!Create(p)
    BY <2>1 DEF File!Create
  <2>2. CASE File!Exists(p)
    BY <2>2 DEF File!Exists
  <2> QED
    BY <1>1, <2>1, <2>2
<1>2. ASSUME NEW p \in Pids, File!Write(p) PROVE File!TypeOK'
  BY <1>2 DEF File!Write
<1>3. ASSUME NEW p \in Pids, File!WriteError(p) PROVE File!TypeOK'
  BY <1>3 DEF File!WriteError
<1>4. ASSUME NEW p \in Pids, File!Judge(p) \/ File!Verify(p) PROVE File!TypeOK'
  BY <1>4 DEF File!Judge, File!Verify
<1>5. ASSUME NEW p \in Pids, File!Unlink(p) \/ File!Remove(p) PROVE File!TypeOK'
  BY <1>5 DEF File!Unlink, File!Remove
<1>6. ASSUME NEW p \in Pids, File!Crash(p) PROVE File!TypeOK'
  BY <1>6 DEF File!Crash
<1>7. CASE UNCHANGED File!vars
  BY <1>7 DEF File!vars
<1> QED
  BY <1>1, <1>2, <1>3, <1>4, <1>5, <1>6, <1>7 DEF File!Next, File!Step

(* A step of one process leaves the others' places alone. *)
LEMMA OthersKeepTheirPlace ==
  ASSUME File!TypeOK, NEW p \in Pids, NEW l \in File!PCs, File!Goto(p, l)
  PROVE  place'[p] = l /\ \A q \in Pids : q # p => place'[q] = place[q]
BY DEF File!Goto, File!TypeOK

LEMMA FilesAreSomething ==
  ASSUME LeaseAssumption, NEW p \in Pids, NEW b \in BOOLEAN
  PROVE  [owner |-> p, named |-> b] # NoLease
<1>1. [owner |-> p, named |-> b] \in [owner : Pids, named : BOOLEAN]
  OBVIOUS
<1> QED
  BY <1>1, LeaseAssumption DEF LeaseAssumption

LEMMA FileOwners ==
  ASSUME LeaseAssumption, File!TypeOK, File!OwnersOwn, [File!Next]_File!vars
  PROVE  File!OwnersOwn'
<1>1. SUFFICES ASSUME deaths' = 0 PROVE File!OwnersOwn'
  BY DEF File!OwnersOwn
<1>2. ASSUME NEW p \in Pids, File!Crash(p) PROVE FALSE
  BY LeaseAssumption, <1>1, <1>2 DEF LeaseAssumption, File!Crash, File!TypeOK
<1>3. deaths = 0
  BY <1>1, <1>2 DEF File!Next, File!Step, File!Create, File!Exists, File!Write, File!WriteError, File!Judge, File!Unlink, File!Verify, File!Remove, File!vars
<1>4. \A q \in Pids : /\ place[q] \notin {"unlink", "retry", "dead"}
                      /\ place[q] = "write" => leaseFile = [owner |-> q, named |-> FALSE]
                      /\ File!Holds(q) => leaseFile = [owner |-> q, named |-> TRUE]
  BY <1>3 DEF File!OwnersOwn
<1>5. ~File!IsStale
  <2>1. leaseFile # NoLease => leaseFile.owner \in Pids
    BY DEF File!TypeOK, File!Files
  <2> QED
    BY <1>4, <2>1 DEF File!IsStale
<1> USE DEF File!PCs
<1>6. ASSUME NEW p \in Pids, File!Create(p) PROVE File!OwnersOwn'
  <2>1. leaseFile = NoLease /\ leaseFile' = [owner |-> p, named |-> FALSE] /\ File!Goto(p, "write")
    BY <1>6 DEF File!Create
  <2>2. \A q \in Pids : place[q] # "write" /\ ~File!Holds(q)
    BY <1>4, <2>1, FilesAreSomething
  <2> QED
    BY <1>4, <2>1, <2>2, OthersKeepTheirPlace DEF File!OwnersOwn, File!Holds
<1>7. ASSUME NEW p \in Pids, File!Exists(p) PROVE File!OwnersOwn'
  <2>1. File!Goto(p, "judge") /\ leaseFile' = leaseFile
    BY <1>4, <1>7 DEF File!Exists
  <2> QED
    BY <1>4, <2>1, OthersKeepTheirPlace DEF File!OwnersOwn, File!Holds
<1>8. ASSUME NEW p \in Pids, File!Write(p) PROVE File!OwnersOwn'
  <2>1. leaseFile = [owner |-> p, named |-> FALSE] /\ File!Goto(p, "held")
    BY <1>4, <1>8 DEF File!Write
  <2>2. leaseFile' = [owner |-> p, named |-> TRUE]
    <3>1. leaseFile # NoLease /\ leaseFile.owner = p
      BY <2>1, FilesAreSomething
    <3>2. leaseFile' = [leaseFile EXCEPT !.named = TRUE]
      BY <1>8, <3>1 DEF File!Write
    <3> QED
      BY <2>1, <3>2
  <2>3. \A q \in Pids : q # p => place[q] # "write" /\ ~File!Holds(q)
    BY <1>4, <2>1
  <2> QED
    BY <1>4, <2>1, <2>2, <2>3, OthersKeepTheirPlace DEF File!OwnersOwn, File!Holds
<1>9. ASSUME NEW p \in Pids, File!WriteError(p) PROVE File!OwnersOwn'
  <2>1. leaseFile = [owner |-> p, named |-> FALSE] /\ File!Goto(p, "idle")
    BY <1>4, <1>9 DEF File!WriteError
  <2>2. \A q \in Pids : q # p => place[q] # "write" /\ ~File!Holds(q)
    BY <1>4, <2>1
  <2> QED
    BY <1>4, <2>1, <2>2, OthersKeepTheirPlace DEF File!OwnersOwn, File!Holds
<1>10. ASSUME NEW p \in Pids, File!Judge(p) PROVE File!OwnersOwn'
  <2>1. File!Goto(p, "idle") /\ leaseFile' = leaseFile
    BY <1>5, <1>10 DEF File!Judge
  <2> QED
    BY <1>4, <2>1, OthersKeepTheirPlace DEF File!OwnersOwn, File!Holds
<1>11. ASSUME NEW p \in Pids, File!Unlink(p) PROVE FALSE
  BY <1>4, <1>11 DEF File!Unlink
<1>12. ASSUME NEW p \in Pids, File!Verify(p) PROVE File!OwnersOwn'
  <2>1. leaseFile = [owner |-> p, named |-> TRUE]
    BY <1>4, <1>12 DEF File!Verify, File!Holds
  <2>2. File!Goto(p, "remove") /\ leaseFile' = leaseFile
    BY <1>12, <2>1 DEF File!Verify
  <2> QED
    BY <1>4, <2>1, <2>2, OthersKeepTheirPlace DEF File!OwnersOwn, File!Holds
<1>13. ASSUME NEW p \in Pids, File!Remove(p) PROVE File!OwnersOwn'
  <2>1. leaseFile = [owner |-> p, named |-> TRUE] /\ File!Goto(p, "idle")
    BY <1>4, <1>13 DEF File!Remove, File!Holds
  <2>2. \A q \in Pids : q # p => place[q] # "write" /\ ~File!Holds(q)
    BY <1>4, <2>1
  <2> QED
    BY <1>4, <2>1, <2>2, OthersKeepTheirPlace DEF File!OwnersOwn, File!Holds
<1>14. CASE UNCHANGED File!vars
  BY <1>4, <1>14 DEF File!vars, File!OwnersOwn, File!Holds
<1> QED
  BY <1>2, <1>6, <1>7, <1>8, <1>9, <1>10, <1>11, <1>12, <1>13, <1>14 DEF File!Next, File!Step

(* Types, and who owns the file as long as nobody has died. *)
THEOREM LeaseCorrect ==
  ASSUME LeaseAssumption
  PROVE  File!Spec => [](File!TypeOK /\ File!OwnersOwn)
<1>1. File!Init => File!TypeOK /\ File!OwnersOwn
  BY LeaseAssumption DEF LeaseAssumption, File!Init, File!TypeOK, File!Files, File!PCs, File!OwnersOwn, File!Holds
<1>2. File!TypeOK /\ File!OwnersOwn /\ [File!Next]_File!vars => File!TypeOK' /\ File!OwnersOwn'
  BY FileType, FileOwners
<1> QED
  BY <1>1, <1>2, PTL DEF File!Spec

(* The lock excludes until the first process dies: the race needs a stale  *)
(* file to take over.                                                      *)
THEOREM ExclusiveUntilCrashAlways ==
  ASSUME LeaseAssumption
  PROVE  File!Spec => []File!ExclusiveUntilCrash
<1>1. File!OwnersOwn => File!ExclusiveUntilCrash
  BY DEF File!OwnersOwn, File!ExclusiveUntilCrash, File!MutualExclusion, File!Holds
<1> QED
  BY <1>1, LeaseCorrect, PTL

(* Until then a release removes the file it created. *)
THEOREM ReleaseIsOwnAlways ==
  ASSUME LeaseAssumption
  PROVE  File!Spec => File!ReleaseIsOwnUntilCrash
<1>1. File!TypeOK /\ File!OwnersOwn =>
        (deaths = 0 => \A p \in Pids : place[p] = "remove" /\ place'[p] = "idle" =>
                          leaseFile = [owner |-> p, named |-> TRUE])
  BY DEF File!OwnersOwn, File!Holds
<1>2. File!TypeOK /\ File!OwnersOwn /\ [File!Next]_File!vars =>
        [deaths = 0 => \A p \in Pids : place[p] = "remove" /\ place'[p] = "idle" =>
                          leaseFile = [owner |-> p, named |-> TRUE]]_File!vars
  BY <1>1
<1> QED
  BY <1>2, LeaseCorrect, PTL DEF File!Spec, File!ReleaseIsOwnUntilCrash

(* Whose file it is, as the lease sees it.                                 *)
LEMMA FileOwnerFact ==
  ASSUME LeaseAssumption, NEW p \in Pids, NEW b \in BOOLEAN,
         leaseFile = [owner |-> p, named |-> b]
  PROVE  File!owner = {p}
BY FilesAreSomething DEF File!owner

LEMMA NextFileOwnerFact ==
  ASSUME LeaseAssumption, NEW p \in Pids, NEW b \in BOOLEAN,
         leaseFile' = [owner |-> p, named |-> b]
  PROVE  File!owner' = {p}
BY FilesAreSomething DEF File!owner

(* Until a process dies the protocol implements the atomic lease: to       *)
(* create the file is to take it, to name it is to enter, and the write    *)
(* that fails, where it is cleaned up, gives it back like the release.     *)
LEMMA FileImplements ==
  ASSUME LeaseAssumption, File!TypeOK, File!OwnersOwn, File!Next, deaths' = 0
  PROVE  File!Lease!Next \/ UNCHANGED <<File!owner, File!holders>>
<1>1. ASSUME NEW p \in Pids, File!Crash(p) PROVE FALSE
  BY LeaseAssumption, <1>1 DEF LeaseAssumption, File!Crash, File!TypeOK
<1>2. deaths = 0
  BY <1>1 DEF File!Next, File!Step, File!Create, File!Exists, File!Write, File!WriteError,
              File!Judge, File!Unlink, File!Verify, File!Remove
<1>3. \A q \in Pids : /\ place[q] \notin {"unlink", "retry", "dead"}
                      /\ place[q] = "write" => leaseFile = [owner |-> q, named |-> FALSE]
                      /\ File!Holds(q) => leaseFile = [owner |-> q, named |-> TRUE]
  BY <1>2 DEF File!OwnersOwn
<1>4. ~File!IsStale
  <2>1. leaseFile # NoLease => leaseFile.owner \in Pids
    BY DEF File!TypeOK, File!Files
  <2> QED
    BY <1>3, <2>1 DEF File!IsStale
(* A step of p to a place l tells the holders from before and after.       *)
<1>5. ASSUME NEW p \in Pids, NEW l \in File!PCs, File!Goto(p, l)
      PROVE  /\ l \in {"held", "remove"} => File!holders' = File!holders \cup {p}
             /\ l \notin {"held", "remove"} => File!holders' = File!holders \ {p}
             /\ (File!Holds(p) <=> l \in {"held", "remove"}) => File!holders' = File!holders
  <2>1. place'[p] = l /\ \A q \in Pids : q # p => place'[q] = place[q]
    BY <1>5, OthersKeepTheirPlace
  <2> QED
    BY <2>1 DEF File!holders, File!Holds
<1> USE DEF File!PCs
<1>6. ASSUME NEW p \in Pids, File!Create(p) PROVE File!Lease!Take(p)
  <2>1. /\ leaseFile = NoLease /\ leaseFile' = [owner |-> p, named |-> FALSE]
        /\ File!Goto(p, "write") /\ ~File!Holds(p)
    BY <1>6 DEF File!Create, File!Holds
  <2>2. File!owner = {} /\ File!owner' = {p}
    BY <2>1, NextFileOwnerFact DEF File!owner
  <2> QED
    BY <1>5, <2>1, <2>2 DEF File!Lease!Take
<1>7. ASSUME NEW p \in Pids, File!Exists(p) \/ File!Judge(p)
      PROVE  UNCHANGED <<File!owner, File!holders>>
  <2>1. leaseFile' = leaseFile /\ ~File!Holds(p) /\ (File!Goto(p, "judge") \/ File!Goto(p, "idle"))
    BY <1>3, <1>4, <1>7 DEF File!Exists, File!Judge, File!Holds
  <2> QED
    BY <1>5, <2>1 DEF File!owner
<1>8. ASSUME NEW p \in Pids, File!Write(p) PROVE File!Lease!Enter(p)
  <2>1. leaseFile = [owner |-> p, named |-> FALSE] /\ File!Goto(p, "held")
    BY <1>3, <1>8 DEF File!Write
  <2>2. leaseFile' = [owner |-> p, named |-> TRUE]
    <3>1. leaseFile # NoLease /\ leaseFile.owner = p
      BY <2>1, FilesAreSomething
    <3>2. leaseFile' = [leaseFile EXCEPT !.named = TRUE]
      BY <1>8, <3>1 DEF File!Write
    <3> QED
      BY <2>1, <3>2
  <2>3. File!owner = {p} /\ File!owner' = {p}
    BY <2>1, <2>2, FileOwnerFact, NextFileOwnerFact
  <2> QED
    BY <1>5, <2>1, <2>3 DEF File!Lease!Enter
<1>9. ASSUME NEW p \in Pids, File!WriteError(p)
      PROVE  File!Lease!GiveBack(p) \/ UNCHANGED <<File!owner, File!holders>>
  <2>1. /\ leaseFile = [owner |-> p, named |-> FALSE] /\ File!Goto(p, "idle") /\ ~File!Holds(p)
        /\ leaseFile' = IF CleansUp THEN NoLease ELSE leaseFile
    BY <1>3, <1>9 DEF File!WriteError, File!Holds
  <2>2. File!owner = {p} /\ File!holders' = File!holders \ {p} /\ File!holders' = File!holders
    BY <1>5, <2>1, FileOwnerFact
  <2>3. CASE CleansUp
    <3>1. File!owner' = {}
      BY <2>1, <2>3 DEF File!owner
    <3> QED
      BY <2>2, <3>1 DEF File!Lease!GiveBack
  <2>4. CASE ~CleansUp
    BY <2>1, <2>2, <2>4 DEF File!owner
  <2> QED
    BY <2>3, <2>4
<1>10. ASSUME NEW p \in Pids, File!Unlink(p) PROVE FALSE
  BY <1>3, <1>10 DEF File!Unlink
<1>11. ASSUME NEW p \in Pids, File!Verify(p) PROVE UNCHANGED <<File!owner, File!holders>>
  <2>1. leaseFile = [owner |-> p, named |-> TRUE] /\ File!Holds(p)
    BY <1>3, <1>11 DEF File!Verify, File!Holds
  <2>2. File!Goto(p, "remove") /\ leaseFile' = leaseFile
    BY <1>11, <2>1 DEF File!Verify
  <2> QED
    BY <1>5, <2>1, <2>2 DEF File!owner
<1>12. ASSUME NEW p \in Pids, File!Remove(p) PROVE File!Lease!GiveBack(p)
  <2>1. leaseFile = [owner |-> p, named |-> TRUE] /\ File!Goto(p, "idle") /\ leaseFile' = NoLease
    BY <1>3, <1>12 DEF File!Remove, File!Holds
  <2>2. File!owner = {p} /\ File!owner' = {}
    BY <2>1, FileOwnerFact DEF File!owner
  <2> QED
    BY <1>5, <2>1, <2>2 DEF File!Lease!GiveBack
<1> QED
  BY <1>1, <1>6, <1>7, <1>8, <1>9, <1>10, <1>11, <1>12 DEF File!Next, File!Step, File!Lease!Next

(* As long as no process has died, the protocol is the atomic lease, the    *)
(* moment between the creation of the file and its naming included.         *)
THEOREM FileImplementsLease ==
  ASSUME LeaseAssumption
  PROVE  File!Spec => File!ImplementsLeaseUntilCrash
<1>1. File!Init => File!Lease!Init
  BY DEF File!Init, File!Lease!Init, File!owner, File!holders, File!Holds
<1>2. File!TypeOK /\ File!OwnersOwn /\ [File!Next]_File!vars =>
        [deaths' = 0 => File!Lease!Next]_<<File!owner, File!holders>>
  <2> SUFFICES ASSUME File!TypeOK, File!OwnersOwn, [File!Next]_File!vars, deaths' = 0
               PROVE  File!Lease!Next \/ UNCHANGED <<File!owner, File!holders>>
    OBVIOUS
  <2>1. CASE UNCHANGED File!vars
    BY <2>1 DEF File!vars, File!owner, File!holders, File!Holds
  <2>2. CASE File!Next
    BY <2>2, FileImplements
  <2> QED
    BY <2>1, <2>2
<1> QED
  BY <1>1, <1>2, LeaseCorrect, PTL DEF File!Spec, File!ImplementsLeaseUntilCrash

===============================================================================
