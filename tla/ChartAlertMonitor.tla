------------------------- MODULE ChartAlertMonitor -------------------------
(***************************************************************************)
(* The report-focus chart monitor of the local Next servers                *)
(* (web/src/server/chart-alert-monitor.ts).  Every server process has one  *)
(* ChartAlertMonitorService; all of them share a state file and a lease    *)
(* file.  A service has a timer, at most one tick past its busy flag,      *)
(* control requests that interleave at their awaits, and a queue that      *)
(* serialises the read-modify-writes of its own process only.              *)
(*                                                                         *)
(* A step of the lease file is one file-system call, as in FileLease, but  *)
(* a file names its process from its creation on: the moment before pid    *)
(* and token are written is FileLease's.  Dates, delays and backoff are a  *)
(* choice: a watch is due or not.  The cap of 1000 known ids per watch is  *)
(* left out.                                                               *)
(***************************************************************************)
EXTENDS Naturals, FiniteSets

CONSTANTS Servers,       \* Next processes: the 3010 preview and the 8780 service
          Slots,         \* control requests a server can have in flight
          Watches,       \* report-focus candidates, one watch id each
          Patterns,      \* pattern transitions a poll can observe
          WatchLimit,    \* chart-alert-watch-limit
          MaxControls,   \* bound: add, remove, start and pause requests
          MaxPolls,      \* bound: polls that return bars
          MaxErrors,     \* bound: writes of a tick that fail
          MaxFileErrors, \* bound: finally reads and control updates that fail
          MaxCrashes,    \* bound: server crashes
          Free, Dead, Nobody, Tick, Kept

ASSUME MonitorAssumption ==
    /\ {Free, Dead} \cap Servers = {} /\ Free # Dead
    /\ {Nobody, Tick, Kept} \cap Slots = {} /\ Tick # Nobody /\ Kept # Nobody
    /\ Watches # {} /\ IsFiniteSet(Watches)
    /\ WatchLimit \in Nat /\ MaxControls \in Nat /\ MaxPolls \in Nat
    /\ MaxErrors \in Nat /\ MaxFileErrors \in Nat /\ MaxCrashes \in Nat

VARIABLES
    state,      \* the state file
    lock,       \* the server whose live pid the lease file names, Dead or Free
    key,        \* who has the closure with the token of the lease file: a
                \* request of that server, releaseLease (Kept) or Nobody
    lease,      \* releaseLease is not null, per server
    timer,      \* a timeout is set, per server
    busy,       \* the busy flag, per server
    tick,       \* the tick past the busy flag, per server
    tail,       \* ticks that still have to read the file in their finally
    req,        \* the control requests in flight
    writer,     \* who is between the read and the write of an update
    snap,       \* what that update read
    spooled,    \* <<watch, pattern>> ever written to the spool
    silent,     \* <<watch, pattern>> ever taken into a baseline
    applied,    \* running flag and watches had each update met the latest file
    controls, polls, errors, fileErrors, crashes

file     == <<state, lock, key>>
service  == <<lease, timer, busy, tick, tail, req, writer, snap>>
history  == <<spooled, silent, applied>>
bounds   == <<controls, polls, errors, fileErrors, crashes>>
vars     == <<file, service, history, bounds>>

Files    == [running: BOOLEAN, watched: SUBSET Watches,
             initialized: SUBSET Watches, known: [Watches -> SUBSET Patterns]]
AWatch   == CHOOSE w \in Watches : TRUE
NoFile   == [running |-> FALSE, watched |-> {}, initialized |-> {},
             known |-> [w \in Watches |-> {}]]
NoTick   == [pc |-> "idle", w |-> AWatch, seen |-> {}, todo |-> {}, known |-> {}]
NoReq    == [pc |-> "idle", op |-> "status", w |-> AWatch, got |-> FALSE]
Ops      == {"status", "add", "remove", "start", "pause"}

(* A file written by an earlier life of the monitor; nobody holds the lease. *)
Init ==
    /\ \E r \in BOOLEAN, W \in SUBSET Watches :
          /\ Cardinality(W) <= WatchLimit
          /\ state = [NoFile EXCEPT !.running = r, !.watched = W]
    /\ lock = Free /\ key = Nobody
    /\ lease = [s \in Servers |-> FALSE] /\ timer = [s \in Servers |-> FALSE]
    /\ busy = [s \in Servers |-> FALSE] /\ tick = [s \in Servers |-> NoTick]
    /\ tail = [s \in Servers |-> 0]
    /\ req = [s \in Servers |-> [k \in Slots |-> NoReq]]
    /\ writer = [s \in Servers |-> Nobody] /\ snap = [s \in Servers |-> NoFile]
    /\ spooled = {} /\ silent = {}
    /\ applied = [running |-> state.running, watched |-> state.watched]
    /\ controls = 0 /\ polls = 0 /\ errors = 0 /\ fileErrors = 0 /\ crashes = 0

-----------------------------------------------------------------------------
(* Control requests.                                                       *)

Goto(s, k, pc) == req' = [req EXCEPT ![s][k].pc = pc]

(* getStatus: `const state = await this.read()`. *)
GetStatus(s, k) ==
    /\ req[s][k].pc = "idle"
    /\ req' = [req EXCEPT ![s][k] = [NoReq EXCEPT !.pc = "check", !.got = state.running]]
    /\ UNCHANGED <<file, lease, timer, busy, tick, tail, writer, snap, history, bounds>>

CheckStatus(s, k) ==
    /\ req[s][k].pc = "check"
    /\ Goto(s, k, IF req[s][k].got /\ ~lease[s] THEN "acquire" ELSE "idle")
    /\ UNCHANGED <<file, lease, timer, busy, tick, tail, writer, snap, history, bounds>>

(* addWatch, removeWatch, start and pause up to their first await. *)
Control(s, k, op, w) ==
    /\ req[s][k].pc = "idle" /\ controls < MaxControls
    /\ controls' = controls + 1
    /\ req' = [req EXCEPT ![s][k] = [pc |-> IF lease[s] THEN "update" ELSE "acquire",
                                     op |-> op, w |-> w, got |-> FALSE]]
    /\ timer' = IF op = "pause" THEN [timer EXCEPT ![s] = FALSE] ELSE timer
    /\ UNCHANGED <<file, lease, busy, tick, tail, writer, snap, history,
                   polls, errors, fileErrors, crashes>>

(* acquireChartAlertLock: `open(filePath, "wx")` makes the file. *)
Create(s, k) ==
    /\ req[s][k].pc \in {"acquire", "retry"} /\ lock = Free
    /\ lock' = s /\ key' = k
    /\ req' = [req EXCEPT ![s][k].pc = "assign", ![s][k].got = TRUE]
    /\ UNCHANGED <<state, lease, timer, busy, tick, tail, writer, snap, history, bounds>>

(* EEXIST: the owner is judged; the second time its verdict is of no use. *)
Exists(s, k) ==
    /\ req[s][k].pc \in {"acquire", "retry"} /\ lock # Free
    /\ req' = [req EXCEPT ![s][k].pc = IF @ = "acquire" THEN "judge" ELSE "assign",
                          ![s][k].got = FALSE]
    /\ UNCHANGED <<file, lease, timer, busy, tick, tail, writer, snap, history, bounds>>

(* Mutation: a lease of another live process is stale. *)
IsStale_NotOwn(s) == lock \notin {s, Free}

(* Mutation: a lease of a dead process is respected. *)
IsStale_Never(s) == FALSE

(* A file of a live pid, its own included, and one that is gone are not. *)
IsStale(s) == lock = Dead

Judge(s, k) ==
    /\ req[s][k].pc = "judge"
    /\ req' = [req EXCEPT ![s][k].pc = IF IsStale(s) THEN "clear" ELSE "assign",
                          ![s][k].got = FALSE]
    /\ UNCHANGED <<file, lease, timer, busy, tick, tail, writer, snap, history, bounds>>

(* By now the file can be that of a live server. *)
Clear(s, k) ==
    /\ req[s][k].pc = "clear"
    /\ lock' = Free /\ key' = Nobody
    /\ Goto(s, k, "retry")
    /\ UNCHANGED <<state, lease, timer, busy, tick, tail, writer, snap, history, bounds>>

(* The value releaseLease takes when the await returns, *)
Assigned(s, k) == IF req[s][k].op \in {"add", "remove"} THEN lease[s] ELSE req[s][k].got

(* and what it makes of the closures: the one it had before is lost. *)
KeyAssigned(s, k) ==
    CASE lock # s \/ req[s][k].op \in {"add", "remove"} -> key
      [] key = k -> Kept
      [] key = Kept -> Nobody
      [] OTHER -> key

Assign(s, k) ==
    /\ req[s][k].pc = "assign"
    /\ lease' = [lease EXCEPT ![s] = Assigned(s, k)]
    /\ key' = KeyAssigned(s, k)
    /\ LET r == req[s][k] IN
       /\ timer' = IF r.op = "status" /\ r.got THEN [timer EXCEPT ![s] = TRUE] ELSE timer
       /\ Goto(s, k, IF r.got /\ r.op # "status" THEN "update" ELSE "idle")
    /\ UNCHANGED <<state, lock, busy, tick, tail, writer, snap, history, bounds>>

(* Mutation: updates are not queued. *)
MayUpdate_Always(s) == TRUE

(* `this.writes.then(...)`: one update of a process at a time. *)
MayUpdate(s) == writer[s] = Nobody

BeginUpdate(s, k) ==
    /\ req[s][k].pc = "update" /\ MayUpdate(s)
    /\ writer' = [writer EXCEPT ![s] = k]
    /\ snap' = [snap EXCEPT ![s] = state]
    /\ Goto(s, k, "write")
    /\ UNCHANGED <<file, lease, timer, busy, tick, tail, history, bounds>>

(* An update that throws writes nothing: no room for a watch, none to start. *)
Refused(f, op, w) ==
    \/ op = "add" /\ w \notin f.watched /\ Cardinality(f.watched) >= WatchLimit
    \/ op = "start" /\ f.watched = {}

Changed(f, op, w) ==
    CASE op = "add" /\ w \notin f.watched ->
            [f EXCEPT !.watched = @ \cup {w}, !.initialized = @ \ {w}, !.known[w] = {}]
      [] op = "remove" ->
            [f EXCEPT !.watched = @ \ {w}, !.initialized = @ \ {w}, !.known[w] = {}]
      [] op = "start" -> [f EXCEPT !.running = TRUE]
      [] op = "pause" -> [f EXCEPT !.running = FALSE]
      [] OTHER -> f

(* What the same change makes of the latest running flag and watches. *)
AppliedTo(a, op, w) ==
    LET f == Changed([NoFile EXCEPT !.running = a.running, !.watched = a.watched], op, w)
    IN  [running |-> f.running, watched |-> f.watched]

(* After the update: start arms its timer, a refused start and pause give  *)
(* the lease back, add and remove drop a lock they took themselves.        *)
EndUpdate(s, k) ==
    /\ req[s][k].pc = "write"
    /\ writer' = [writer EXCEPT ![s] = Nobody]
    /\ snap' = [snap EXCEPT ![s] = NoFile]
    /\ LET r == req[s][k]
           refused == Refused(snap[s], r.op, r.w) IN
       /\ state' = IF refused THEN state ELSE Changed(snap[s], r.op, r.w)
       /\ applied' = IF refused THEN applied ELSE AppliedTo(applied, r.op, r.w)
       /\ timer' = IF r.op = "start" /\ ~refused THEN [timer EXCEPT ![s] = TRUE] ELSE timer
       /\ Goto(s, k, CASE r.op = "pause" \/ (r.op = "start" /\ refused) -> "release"
                       [] r.op \in {"add", "remove"} /\ r.got -> "verify"
                       [] OTHER -> "idle")
    /\ UNCHANGED <<lock, key, lease, busy, tick, tail, spooled, silent, bounds>>

(* The update of a request throws.  start gives the lease back, add and    *)
(* remove drop their own lock; pause, whose timer is gone, keeps the lease. *)
FailUpdate(s, k) ==
    /\ req[s][k].pc = "write"
    /\ fileErrors < MaxFileErrors /\ fileErrors' = fileErrors + 1
    /\ writer' = [writer EXCEPT ![s] = Nobody]
    /\ snap' = [snap EXCEPT ![s] = NoFile]
    /\ Goto(s, k, CASE req[s][k].op = "start" -> "release"
                    [] req[s][k].op \in {"add", "remove"} /\ req[s][k].got -> "verify"
                    [] OTHER -> "idle")
    /\ UNCHANGED <<file, lease, timer, busy, tick, tail, history,
                   controls, polls, errors, crashes>>

(* release(): the closure is taken and the field cleared before the await. *)
Release(s, k) ==
    /\ req[s][k].pc = "release"
    /\ lease' = [lease EXCEPT ![s] = FALSE]
    /\ key' = IF lock = s /\ key = Kept THEN k ELSE key
    /\ Goto(s, k, IF lease[s] THEN "verify" ELSE "idle")
    /\ UNCHANGED <<state, lock, timer, busy, tick, tail, writer, snap, history, bounds>>

(* The closure reads the file: its own pid and token? *)
Verify(s, k) ==
    /\ req[s][k].pc = "verify"
    /\ Goto(s, k, IF lock = s /\ key = k THEN "unlink" ELSE "idle")
    /\ UNCHANGED <<file, lease, timer, busy, tick, tail, writer, snap, history, bounds>>

Unlink(s, k) ==
    /\ req[s][k].pc = "unlink"
    /\ lock' = Free /\ key' = Nobody
    /\ Goto(s, k, "idle")
    /\ UNCHANGED <<state, lease, timer, busy, tick, tail, writer, snap, history, bounds>>

-----------------------------------------------------------------------------
(* The tick.                                                               *)

MayTick(s) == ~busy[s] /\ lease[s]

(* The timeout fires; a second tick, or one without the lease, returns. *)
Fire(s) ==
    /\ timer[s]
    /\ timer' = [timer EXCEPT ![s] = FALSE]
    /\ IF MayTick(s)
       THEN /\ busy' = [busy EXCEPT ![s] = TRUE]
            /\ tick' = [tick EXCEPT ![s] = [NoTick EXCEPT !.pc = "read"]]
       ELSE UNCHANGED <<busy, tick>>
    /\ UNCHANGED <<file, lease, tail, req, writer, snap, history, bounds>>

(* A due watch of a running monitor, or nothing to poll now. *)
Select(s) ==
    /\ tick[s].pc = "read"
    /\ \/ /\ state.running
          /\ \E w \in state.watched :
                tick' = [tick EXCEPT ![s].pc = "poll", ![s].w = w]
       \/ tick' = [tick EXCEPT ![s].pc = "finally"]
    /\ UNCHANGED <<file, lease, timer, busy, tail, req, writer, snap, history, bounds>>

(* Calendar and candles: closed market, failure, or bars and their patterns. *)
Poll(s) ==
    /\ tick[s].pc = "poll"
    /\ \/ /\ \E pc \in {"finally", "fail"} : tick' = [tick EXCEPT ![s].pc = pc]
          /\ polls' = polls
       \/ /\ polls < MaxPolls /\ polls' = polls + 1
          /\ \E P \in SUBSET Patterns :
                tick' = [tick EXCEPT ![s].pc = "match", ![s].seen = P]
    /\ UNCHANGED <<file, lease, timer, busy, tail, req, writer, snap, history,
                   controls, errors, fileErrors, crashes>>

(* recordPatterns gives up when the monitor was paused or the watch removed. *)
StillWatched(t) == state.running /\ t.w \in state.watched

(* Mutation: known ids are not filtered out. *)
Additions_All(t) == IF t.w \in state.initialized THEN t.seen ELSE {}

(* Only an initialized watch has events; the first poll is its baseline. *)
Additions(t) == IF t.w \in state.initialized THEN t.seen \ state.known[t.w] ELSE {}

Match(s) ==
    /\ tick[s].pc = "match"
    /\ LET t == tick[s] IN
       IF StillWatched(t)
       THEN /\ tick' = [tick EXCEPT ![s].pc = "spool", ![s].todo = Additions(t),
                                    ![s].known = state.known[t.w] \cup t.seen]
            /\ silent' = IF t.w \in state.initialized THEN silent
                         ELSE silent \cup ({t.w} \X t.seen)
       ELSE tick' = [tick EXCEPT ![s].pc = "finally"] /\ silent' = silent
    /\ UNCHANGED <<file, lease, timer, busy, tail, req, writer, snap, spooled, applied, bounds>>

Spool(s) ==
    /\ tick[s].pc = "spool"
    /\ \E p \in tick[s].todo :
          /\ spooled' = spooled \cup {<<tick[s].w, p>>}
          /\ tick' = [tick EXCEPT ![s].todo = @ \ {p}]
    /\ UNCHANGED <<file, lease, timer, busy, tail, req, writer, snap, silent, applied, bounds>>

(* Mutation: the state is updated before the events are written. *)
ReadyToRecord_First(t) == t.pc = "fail" \/ t.pc = "spool"

(* The state is updated when every event is on disk, or after a failure. *)
ReadyToRecord(t) == t.pc = "fail" \/ (t.pc = "spool" /\ t.todo = {})

BeginRecord(s) ==
    /\ ReadyToRecord(tick[s]) /\ MayUpdate(s)
    /\ writer' = [writer EXCEPT ![s] = Tick]
    /\ snap' = [snap EXCEPT ![s] = state]
    /\ tick' = [tick EXCEPT ![s].pc = IF @ = "fail" THEN "failing" ELSE "recording"]
    /\ UNCHANGED <<file, lease, timer, busy, tail, req, history, bounds>>

(* recordPatterns marks the watch if it is still there; recordFailure only *)
(* counts the failure, and writes the whole file back all the same.        *)
Recorded(f, t) ==
    IF t.pc = "recording" /\ t.w \in f.watched
    THEN [f EXCEPT !.initialized = @ \cup {t.w}, !.known[t.w] = t.known]
    ELSE f

EndRecord(s) ==
    /\ tick[s].pc \in {"recording", "failing"}
    /\ state' = Recorded(snap[s], tick[s])
    /\ writer' = [writer EXCEPT ![s] = Nobody]
    /\ snap' = [snap EXCEPT ![s] = NoFile]
    /\ tick' = [tick EXCEPT ![s].pc = "finally"]
    /\ UNCHANGED <<lock, key, lease, timer, busy, tail, req, history, bounds>>

(* A write of the tick throws; recordFailure follows, and may throw too. *)
Throw(s) ==
    /\ tick[s].pc \in {"spool", "recording", "failing"}
    /\ errors < MaxErrors /\ errors' = errors + 1
    /\ tick' = [tick EXCEPT ![s].pc = IF @ = "failing" THEN "finally" ELSE "fail"]
    /\ IF writer[s] = Tick
       THEN writer' = [writer EXCEPT ![s] = Nobody] /\ snap' = [snap EXCEPT ![s] = NoFile]
       ELSE UNCHANGED <<writer, snap>>
    /\ UNCHANGED <<file, lease, timer, busy, tail, req, history,
                   controls, polls, fileErrors, crashes>>

(* Mutation: the tick ends without reading the file again. *)
Finally_NoReread(s) ==
    /\ tick[s].pc = "finally"
    /\ busy' = [busy EXCEPT ![s] = FALSE]
    /\ tick' = [tick EXCEPT ![s] = NoTick]
    /\ UNCHANGED <<file, lease, timer, tail, req, writer, snap, history, bounds>>

(* finally: busy is cleared before the file is read again. *)
Finally(s) ==
    /\ tick[s].pc = "finally"
    /\ busy' = [busy EXCEPT ![s] = FALSE]
    /\ tick' = [tick EXCEPT ![s] = NoTick]
    /\ tail' = [tail EXCEPT ![s] = @ + 1]
    /\ UNCHANGED <<file, lease, timer, req, writer, snap, history, bounds>>

(* A file that cannot be read counts as an empty, stopped monitor. *)
Reschedule(s) ==
    /\ tail[s] > 0
    /\ tail' = [tail EXCEPT ![s] = @ - 1]
    /\ \/ /\ timer' = IF state.running THEN [timer EXCEPT ![s] = TRUE] ELSE timer
          /\ fileErrors' = fileErrors
       \/ /\ fileErrors < MaxFileErrors /\ fileErrors' = fileErrors + 1
          /\ timer' = timer
    /\ UNCHANGED <<file, lease, busy, tick, req, writer, snap, history,
                   controls, polls, errors, crashes>>

(* The server dies and is started again with a new pid and empty memory. *)
Crash(s) ==
    /\ crashes < MaxCrashes /\ crashes' = crashes + 1
    /\ IF lock = s THEN lock' = Dead /\ key' = Nobody ELSE UNCHANGED <<lock, key>>
    /\ lease' = [lease EXCEPT ![s] = FALSE] /\ timer' = [timer EXCEPT ![s] = FALSE]
    /\ busy' = [busy EXCEPT ![s] = FALSE] /\ tick' = [tick EXCEPT ![s] = NoTick]
    /\ tail' = [tail EXCEPT ![s] = 0]
    /\ req' = [req EXCEPT ![s] = [k \in Slots |-> NoReq]]
    /\ writer' = [writer EXCEPT ![s] = Nobody] /\ snap' = [snap EXCEPT ![s] = NoFile]
    /\ UNCHANGED <<state, history, controls, polls, errors, fileErrors>>

-----------------------------------------------------------------------------
Acquire(s, k) == Create(s, k) \/ Exists(s, k) \/ Judge(s, k) \/ Clear(s, k)

Request(s, k) ==
    \/ CheckStatus(s, k) \/ Acquire(s, k) \/ Assign(s, k) \/ BeginUpdate(s, k)
    \/ EndUpdate(s, k) \/ Release(s, k) \/ Verify(s, k) \/ Unlink(s, k)

TickStep(s) ==
    \/ Select(s) \/ Poll(s) \/ Match(s) \/ Spool(s)
    \/ BeginRecord(s) \/ EndRecord(s) \/ Finally(s)

Next ==
    \E s \in Servers :
        \/ \E k \in Slots :
              \/ GetStatus(s, k)
              \/ \E op \in Ops \ {"status"}, w \in Watches : Control(s, k, op, w)
              \/ Request(s, k)
              \/ FailUpdate(s, k)
        \/ Fire(s) \/ TickStep(s) \/ Reschedule(s) \/ Throw(s) \/ Crash(s)

(* Promises and timeouts run; an open panel asks for the status every 10 s *)
(* (chart-lab-report-alert-panel.tsx:60).                                  *)
Fairness ==
    \A s \in Servers :
        /\ WF_vars(Fire(s)) /\ WF_vars(TickStep(s)) /\ WF_vars(Reschedule(s))
        /\ \A k \in Slots : WF_vars(Request(s, k)) /\ WF_vars(GetStatus(s, k))

Spec     == Init /\ [][Next]_vars
FairSpec == Spec /\ Fairness

-----------------------------------------------------------------------------
TickPcs == {"idle", "read", "poll", "match", "spool", "recording", "failing", "fail", "finally"}
ReqPcs  == {"idle", "check", "acquire", "judge", "clear", "retry", "assign",
            "update", "write", "release", "verify", "unlink"}

(* Every variable has its type and no bound is exceeded. *)
TypeOK ==
    /\ state \in Files /\ Cardinality(state.watched) <= WatchLimit
    /\ lock \in Servers \cup {Free, Dead} /\ key \in Slots \cup {Nobody, Kept}
    /\ lease \in [Servers -> BOOLEAN] /\ timer \in [Servers -> BOOLEAN]
    /\ busy \in [Servers -> BOOLEAN] /\ tail \in [Servers -> Nat]
    /\ tick \in [Servers -> [pc: TickPcs, w: Watches, seen: SUBSET Patterns,
                              todo: SUBSET Patterns, known: SUBSET Patterns]]
    /\ req \in [Servers -> [Slots -> [pc: ReqPcs, op: Ops, w: Watches, got: BOOLEAN]]]
    /\ writer \in [Servers -> Slots \cup {Nobody, Tick}] /\ snap \in [Servers -> Files]
    /\ spooled \subseteq Watches \X Patterns /\ silent \subseteq Watches \X Patterns
    /\ applied \in [running: BOOLEAN, watched: SUBSET Watches]
    /\ controls \in 0..MaxControls /\ polls \in 0..MaxPolls /\ errors \in 0..MaxErrors
    /\ fileErrors \in 0..MaxFileErrors /\ crashes \in 0..MaxCrashes

(* As long as no server has died, at most one service believes it owns the *)
(* lease.  After a death two can: both judge the file stale, and the later *)
(* one unlinks what the earlier one made.                                  *)
OneOwnerUntilCrash ==
    crashes = 0 => \A s, t \in Servers : lease[s] /\ lease[t] => s = t

(* As long as no server has died, the service that believes it owns the    *)
(* lease is the one the file names.                                        *)
OwnerIsNamedUntilCrash ==
    crashes = 0 => \A s \in Servers : lease[s] => lock = s

(* Until a server dies, whatever its requests, ticks and failing files do, *)
(* the lease file and the beliefs of the services behave as AtomicLease    *)
(* says.  From the first death on nothing is claimed.                      *)
owner   == {lock} \cap Servers
holders == {s \in Servers : lease[s]}
Lease   == INSTANCE AtomicLease WITH Users <- Servers

ImplementsLeaseUntilCrash ==
    Lease!Init /\ [][crashes' = 0 => Lease!Next]_<<owner, holders>>

(* Within one process the queue keeps read-modify-writes whole: a watch    *)
(* added or removed, a start or a pause, is not undone by the tick that    *)
(* was writing its poll at the time.                                       *)
NoLostUpdate ==
    /\ state.running = applied.running
    /\ state.watched = applied.watched

(* A pattern becomes known only after its event is in the spool, or by the *)
(* first poll of the watch: failures, crashes, a pause or a removed and    *)
(* added watch never make the monitor forget to report one.                *)
KnownIsAccountedFor ==
    \A w \in state.watched : {w} \X state.known[w] \subseteq spooled \cup silent

Armed(s) == timer[s] \/ busy[s] \/ tail[s] > 0

(* A running monitor whose server holds the lease and answers no request   *)
(* has its next poll on the way, unless the state file failed it: nothing  *)
(* else, a start or pause during a tick included, stops the polling.       *)
PollerIsArmed ==
    \A s \in Servers :
        (/\ state.running /\ lease[s] /\ fileErrors = 0
         /\ \A k \in Slots : req[s][k].pc \in {"idle", "check"})
        => Armed(s)

(* A pattern the file calls known is never written to the spool, be it     *)
(* known from a baseline or from an event spooled before, as long as one   *)
(* server works on the file.  It is said of the step, since a second file  *)
(* of an event that the spool had before changes no set.                   *)
KnownIsNotRespooled ==
    [][\A s \in Servers, p \in Patterns :
          (tick[s].pc = "spool" /\ tick'[s].pc = "spool" /\ p \in tick[s].todo \ tick'[s].todo)
          => p \notin state.known[tick[s].w]]_vars

(* Doc: "A per-user process lock prevents the 3010 preview and 8780        *)
(* service from polling the same watch file concurrently."                 *)
PollingIsExclusive ==
    \A s, t \in Servers : tick[s].pc = "poll" /\ tick[t].pc = "poll" => s = t

(* Panel text for ownerActiveElsewhere: another local server owns the      *)
(* monitor.  A refused status request of the owner itself says so too.     *)
OwnerElsewhereIsElsewhere ==
    [][\A s \in Servers, k \in Slots :
          (req[s][k].op = "status" /\ req[s][k].pc = "judge" /\ req'[s][k].pc = "assign")
          => lock # s]_vars

(* A monitor recorded as running is polled by some server in the end, also *)
(* after its owner crashed, if the panel keeps asking for the status and   *)
(* the state file can be read.                                             *)
RunningIsPolled ==
    state.running ~> \/ ~state.running \/ fileErrors > 0
                     \/ \E s \in Servers : lease[s] /\ Armed(s)
=============================================================================
