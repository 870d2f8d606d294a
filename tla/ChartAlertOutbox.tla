--------------------------- MODULE ChartAlertOutbox ---------------------------
(***************************************************************************)
(* Chart alerts on their way to Telegram: the Next server writes immutable *)
(* event files into a spool directory, `chart-alerts-dispatch --send`      *)
(* imports them into the table chart_alert_outbox and gives every row one  *)
(* transport attempt (_process_chart_alert_spool).                         *)
(*                                                                         *)
(* Dispatchers may overlap and may be killed: the lock file that should    *)
(* keep them apart is not assumed (FileLease shows how two can hold it).   *)
(* A step is one directory scan, one unlink, one SQLite transaction or one *)
(* sendMessage call.  A dry run changes no state and is left out.          *)
(***************************************************************************)
EXTENDS Integers, FiniteSets

CONSTANTS
  Events,         \* event ids: hashes of watch, pattern, basis start and state
  Dispatchers,    \* processes that may run chart-alerts-dispatch --send
  Writers,        \* processes that may run the chart alert monitor
  MaxSpoolFiles,  \* MAX_SPOOL_FILES, the same on both sides
  Limit,          \* --limit: rows handled in one pass
  MaxCrashes,     \* bound: dispatchers killed in mid-pass
  NoEvent

ASSUME BoundsAssumption ==
  MaxSpoolFiles \in Nat /\ Limit \in Nat \ {0} /\ MaxCrashes \in Nat
ASSUME NoEventAssumption == NoEvent \notin Events

VARIABLES
  spool,     \* events with a file in the spool directory
  reported,  \* events whose stock has two reports in the database
  writing,   \* the event each monitor has found room for, or NoEvent
  outbox,    \* chart_alert_outbox.status
  attempts,  \* chart_alert_outbox.attempts
  pc,        \* what each dispatcher does next
  valid,     \* valid_events: read, validated, backed by reports
  rows,      \* rows it listed as pending and has not dealt with
  cur,       \* the row it has claimed, or NoEvent
  received,  \* history: how often the chat received an event
  crashes    \* history: dispatchers killed so far

files == <<spool, writing>>
vars == <<spool, reported, writing, outbox, attempts, pc, valid, rows, cur, received, crashes>>

Statuses == {"none", "pending", "sending", "sent", "ambiguous"}
PCs == {"idle", "import", "unlink", "list", "loop", "send", "accepted", "error"}

Init ==
  /\ spool = {}
  /\ reported = {}
  /\ writing = [w \in Writers |-> NoEvent]
  /\ outbox = [e \in Events |-> "none"]
  /\ attempts = [e \in Events |-> 0]
  /\ pc = [d \in Dispatchers |-> "idle"]
  /\ valid = [d \in Dispatchers |-> {}]
  /\ rows = [d \in Dispatchers |-> {}]
  /\ cur = [d \in Dispatchers |-> NoEvent]
  /\ received = [e \in Events |-> 0]
  /\ crashes = 0
-------------------------------------------------------------------------------
(* The monitor's side, and the reports the poller inserts. *)

(* Mutation: a full directory is discovered one file too late. *)
HasRoom_OffByOne == Cardinality(spool) <= MaxSpoolFiles

HasRoom == Cardinality(spool) < MaxSpoolFiles

(* writeChartAlertEvent finds no file of that name and room for one more.  *)
(* The monitor may present an event again that has long been dispatched.   *)
CheckRoom(w, e) ==
  /\ writing[w] = NoEvent
  /\ e \notin spool
  /\ HasRoom
  /\ writing' = [writing EXCEPT ![w] = e]
  /\ UNCHANGED <<spool, reported, outbox, attempts, pc, valid, rows, cur, received, crashes>>

(* The finished temporary file is renamed into place. *)
Spool(w) ==
  /\ writing[w] # NoEvent
  /\ spool' = spool \union {writing[w]}
  /\ writing' = [writing EXCEPT ![w] = NoEvent]
  /\ UNCHANGED <<reported, outbox, attempts, pc, valid, rows, cur, received, crashes>>

(* The poller stores the second report of the stock. *)
Report(e) ==
  /\ e \notin reported
  /\ reported' = reported \union {e}
  /\ UNCHANGED <<files, outbox, attempts, pc, valid, rows, cur, received, crashes>>

-------------------------------------------------------------------------------
(* The dispatcher, pass by pass. *)

Goto(d, l) == pc' = [pc EXCEPT ![d] = l]

Leave(d) ==
  /\ Goto(d, "idle")
  /\ valid' = [valid EXCEPT ![d] = {}]
  /\ rows' = [rows EXCEPT ![d] = {}]
  /\ cur' = [cur EXCEPT ![d] = NoEvent]

(* More than MAX_SPOOL_FILES files: the pass raises and changes nothing. *)
MayScan == Cardinality(spool) <= MaxSpoolFiles

(* Files are read and validated, and checked against saved reports. *)
Scan(d) ==
  /\ pc[d] = "idle"
  /\ MayScan
  /\ valid' = [valid EXCEPT ![d] = spool \intersect reported]
  /\ Goto(d, "import")
  /\ UNCHANGED <<files, reported, outbox, attempts, rows, cur, received, crashes>>

(* Mutation: nobody looks at interrupted rows. *)
Swept_Never(e) == outbox[e]

(* A row found in 'sending' was interrupted, as far as this pass knows. *)
Swept(e) == IF outbox[e] = "sending" THEN "ambiguous" ELSE outbox[e]

(* INSERT OR IGNORE: an event that has a row keeps it. *)
Imported(d) ==
  [e \in Events |->
     IF e \in valid[d] /\ outbox[e] = "none" THEN "pending" ELSE Swept(e)]

(* Mutation: the files are removed before the rows are committed. *)
Import_UnlinkFirst(d) ==
  /\ pc[d] = "import"
  /\ \E e \in valid[d] \intersect spool : spool' = spool \ {e}
  /\ UNCHANGED <<reported, writing, outbox, attempts, pc, valid, rows, cur, received, crashes>>

(* One transaction sweeps the table and imports the events. *)
Import(d) ==
  /\ pc[d] = "import"
  /\ outbox' = Imported(d)
  /\ Goto(d, "unlink")
  /\ UNCHANGED <<files, reported, attempts, valid, rows, cur, received, crashes>>

Unlink(d) ==
  /\ pc[d] = "unlink"
  /\ \E e \in valid[d] :
       /\ spool' = spool \ {e}
       /\ valid' = [valid EXCEPT ![d] = @ \ {e}]
  /\ UNCHANGED <<reported, writing, outbox, attempts, pc, rows, cur, received, crashes>>

Unlinked(d) ==
  /\ pc[d] = "unlink"
  /\ valid[d] = {}
  /\ Goto(d, "list")
  /\ UNCHANGED <<files, reported, outbox, attempts, valid, rows, cur, received, crashes>>

(* The first Limit pending rows.  Which rows those are depends on creation *)
(* times; the properties do not, so it may be any of the right number.     *)
Listing(r) ==
  LET pending == {e \in Events : outbox[e] = "pending"}
  IN  IF Cardinality(pending) <= Limit THEN r = pending
      ELSE r \subseteq pending /\ Cardinality(r) = Limit

List(d) ==
  /\ pc[d] = "list"
  /\ \E r \in SUBSET Events : Listing(r) /\ rows' = [rows EXCEPT ![d] = r]
  /\ Goto(d, "loop")
  /\ UNCHANGED <<files, reported, outbox, attempts, valid, cur, received, crashes>>

(* Mutation: UPDATE without AND status = 'pending'. *)
Claimable_Always(e) == TRUE

Claimable(e) == outbox[e] = "pending"

(* The conditional UPDATE to 'sending' changes one row. *)
Claim(d) ==
  /\ pc[d] = "loop"
  /\ \E e \in rows[d] :
       /\ Claimable(e)
       /\ outbox' = [outbox EXCEPT ![e] = "sending"]
       /\ attempts' = [attempts EXCEPT ![e] = @ + 1]
       /\ cur' = [cur EXCEPT ![d] = e]
       /\ rows' = [rows EXCEPT ![d] = @ \ {e}]
  /\ Goto(d, "send")
  /\ UNCHANGED <<files, reported, valid, received, crashes>>

(* ... or none: somebody else has claimed the row. *)
Skip(d) ==
  /\ pc[d] = "loop"
  /\ \E e \in rows[d] : ~Claimable(e) /\ rows' = [rows EXCEPT ![d] = @ \ {e}]
  /\ UNCHANGED <<files, reported, outbox, attempts, pc, valid, cur, received, crashes>>

SendAccepted(d) ==
  /\ pc[d] = "send"
  /\ received' = [received EXCEPT ![cur[d]] = @ + 1]
  /\ Goto(d, "accepted")
  /\ UNCHANGED <<files, reported, outbox, attempts, valid, rows, cur, crashes>>

(* Any exception at all, whether or not Telegram took the message. *)
SendError(d) ==
  /\ pc[d] = "send"
  /\ \E arrived \in {0, 1} : received' = [received EXCEPT ![cur[d]] = @ + arrived]
  /\ Goto(d, "error")
  /\ UNCHANGED <<files, reported, outbox, attempts, valid, rows, cur, crashes>>

(* Mutation: a failed attempt is released for the next pass. *)
Outcome_Retry(d) == IF pc[d] = "accepted" THEN "sent" ELSE "pending"

(* Mutation: the two branches after the call are confused. *)
Outcome_Swapped(d) == IF pc[d] = "accepted" THEN "ambiguous" ELSE "sent"

Outcome(d) == IF pc[d] = "accepted" THEN "sent" ELSE "ambiguous"

(* UPDATE ... AND status = 'sending': a swept row stays ambiguous. *)
Mark(d) ==
  /\ pc[d] \in {"accepted", "error"}
  /\ outbox' = [outbox EXCEPT ![cur[d]] = IF @ = "sending" THEN Outcome(d) ELSE @]
  /\ cur' = [cur EXCEPT ![d] = NoEvent]
  /\ Goto(d, "loop")
  /\ UNCHANGED <<files, reported, attempts, valid, rows, received, crashes>>

Finish(d) ==
  /\ pc[d] = "loop"
  /\ rows[d] = {}
  /\ Leave(d)
  /\ UNCHANGED <<files, reported, outbox, attempts, received, crashes>>

(* The dispatcher is killed, or dies of a database error. *)
Crash(d) ==
  /\ pc[d] # "idle"
  /\ crashes < MaxCrashes
  /\ crashes' = crashes + 1
  /\ Leave(d)
  /\ UNCHANGED <<files, reported, outbox, attempts, received>>

Write(w) == (\E e \in Events : CheckRoom(w, e)) \/ Spool(w)
Send(d) == SendAccepted(d) \/ SendError(d)
Pass(d) ==
  \/ Scan(d) \/ Import(d) \/ Unlink(d) \/ Unlinked(d) \/ List(d)
  \/ Claim(d) \/ Skip(d) \/ Send(d) \/ Mark(d) \/ Finish(d)

Next ==
  \/ \E w \in Writers : Write(w)
  \/ \E e \in Events : Report(e)
  \/ \E d \in Dispatchers : Pass(d) \/ Crash(d)

Spec == Init /\ [][Next]_vars

(* A dispatcher under --watch starts a pass every few seconds, and a pass  *)
(* goes on until it ends: no fairness for the monitor, the reports, or     *)
(* crashes.                                                                *)
FairSpec == Spec /\ \A d \in Dispatchers : WF_vars(Pass(d))

-------------------------------------------------------------------------------
TypeOK ==
  /\ spool \subseteq Events
  /\ reported \subseteq Events
  /\ writing \in [Writers -> Events \union {NoEvent}]
  /\ outbox \in [Events -> Statuses]
  /\ attempts \in [Events -> Nat]
  /\ pc \in [Dispatchers -> PCs]
  /\ valid \in [Dispatchers -> SUBSET Events]
  /\ rows \in [Dispatchers -> SUBSET Events]
  /\ cur \in [Dispatchers -> Events \union {NoEvent}]
  /\ \A d \in Dispatchers : pc[d] \in {"send", "accepted", "error"} => cur[d] \in Events
  /\ received \in [Events -> Nat]
  /\ crashes \in 0..MaxCrashes

(* "Each event gets one transport attempt": whatever overlaps, crashes or  *)
(* is presented again, the chat receives an event at most once.            *)
AttemptedOnce ==
  \A e \in Events : attempts[e] <= 1 /\ received[e] <= attempts[e]

(* What is recorded as sent reached the chat; what is pending did not, so  *)
(* sending it is right.                                                    *)
StatusIsTrue ==
  \A e \in Events :
    /\ outbox[e] = "sent" => received[e] = 1
    /\ outbox[e] \in {"none", "pending"} => received[e] = 0

(* The monitor leaves no more files than a dispatcher is ready to read. *)
SpoolNeverBlocks == MayScan

(* An event is not lost between directory and table: its file goes away    *)
(* only when it has a row, and the row stays.                              *)
NothingIsLost ==
  [][\A e \in Events :
       /\ e \in spool /\ e \notin spool' => outbox[e] # "none"
       /\ outbox[e] # "none" => outbox'[e] # "none"]_vars

(* A row that has been attempted is never queued again, and a final status *)
(* is final.                                                               *)
StatusOnlyAdvances ==
  [][\A e \in Events :
       /\ outbox[e] \in {"sent", "ambiguous"} => outbox'[e] = outbox[e]
       /\ outbox[e] = "sending" => outbox'[e] \in {"sending", "sent", "ambiguous"}]_vars

(* A spooled event of a reported stock is settled in the end: it is sent,  *)
(* or it waits for the operator as ambiguous.                              *)
EveryEventIsSettled ==
  \A e \in Events :
    e \in spool /\ e \in reported ~> outbox[e] \in {"sent", "ambiguous"}

(* The outbox implements the one-attempt promise. *)
OneShot == INSTANCE OneShotDelivery WITH
  tried     <- {e \in Events : outbox[e] \notin {"none", "pending"}},
  flying    <- {e \in Events : \E d \in Dispatchers : pc[d] = "send" /\ cur[d] = e},
  received  <- received,
  confirmed <- {e \in Events : outbox[e] = "sent"}

ImplementsOneShot == OneShot!Spec

(* Why an event is attempted once: a row is claimed before the call, and   *)
(* only the claim of a pending row leads to the call.                      *)
ClaimIsExclusive ==
  /\ \A d, c \in Dispatchers :
       /\ pc[d] \in {"send", "accepted", "error"}
       /\ pc[c] \in {"send", "accepted", "error"}
       /\ cur[d] = cur[c]
       => d = c
  /\ \A d \in Dispatchers :
       /\ pc[d] = "send" => received[cur[d]] = 0
       /\ pc[d] = "accepted" => received[cur[d]] = 1
       /\ pc[d] \in {"send", "accepted", "error"} =>
            outbox[cur[d]] \in {"sending", "ambiguous"}

UnclaimedIsFresh ==
  \A e \in Events : outbox[e] \in {"none", "pending"} <=> attempts[e] = 0

(* Files of imported events only are removed. *)
UnlinkIsSafe ==
  \A d \in Dispatchers : pc[d] = "unlink" => \A e \in valid[d] : outbox[e] # "none"

OutboxInv == AttemptedOnce /\ StatusIsTrue /\ ClaimIsExclusive /\ UnclaimedIsFresh /\ UnlinkIsSafe
===============================================================================
