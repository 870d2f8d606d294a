------------------------- MODULE DailySummaryDelivery -------------------------
(***************************************************************************)
(* Delivery of the production daily summary of ONE business date on ONE    *)
(* channel: `scheduled-notify` -> _run_send_test_notification ->           *)
(* _send_production_daily_summary_fragments, and the tables                *)
(* daily_summary_delivery_runs, daily_summary_delivery_fragments and       *)
(* delivery_log they write.  Every query of that path is restricted to one *)
(* date and channel, so one date stands for all.                           *)
(*                                                                         *)
(* A process is one CLI invocation.  A step is one SQLite transaction, one *)
(* sendMessage call or one save of the control-state file: the code holds  *)
(* no lock between them, and a process may die between any two.            *)
(***************************************************************************)
EXTENDS Integers

CONSTANTS
  Procs,           \* operating-system processes that may run scheduled-notify
  Signatures,      \* summary signatures: the hash of the settings and messages
  Texts,           \* message texts
  MaxFragments,    \* bound: fragments of one summary
  Size,            \* Size[s]: number of messages signature s stands for
  Text,            \* Text[s][i]: the i-th message of signature s
  NoSignature,     \* the signature of a row that does not exist
  MaxInvocations,  \* bound: CLI invocations
  MaxCrashes,      \* bound: processes killed in mid-run
  Overlap,         \* may a second invocation start while one is running?
  TruncatedReads   \* may a response body break off (http.client.IncompleteRead)?

Index == 1..MaxFragments
Runs  == 1..MaxInvocations  \* an invocation inserts at most one run

ASSUME BoundsAssumption ==
  MaxFragments \in Nat /\ MaxInvocations \in Nat /\ MaxCrashes \in Nat
ASSUME MessagesAssumption ==
  /\ NoSignature \notin Signatures
  /\ Size \in [Signatures -> Index]
  /\ Text \in [Signatures -> [Index -> Texts]]
ASSUME SwitchAssumption == Overlap \in BOOLEAN /\ TruncatedReads \in BOOLEAN

VARIABLES
  runStatus,    \* daily_summary_delivery_runs.status, in order of started_at
  runSig,       \* daily_summary_delivery_runs.summary_signature
  fragment,     \* daily_summary_delivery_fragments.status
  log,          \* statuses of the delivery_log rows of this date and channel
  paging,       \* has TelegramControlState.set_delivered_for been saved?
  pc,           \* what each invocation does next
  repeat,       \* its --allow-repeat flag
  already,      \* what it read from has_successful_delivery
  review,       \* whether it found a run awaiting operator review
  run,          \* the run it started or resumed
  todo,         \* fragments it listed and has not dealt with
  accepted,     \* history: how often Telegram accepted a fragment
  invocations,  \* history: invocations so far
  crashes,      \* history: processes killed so far
  broken,       \* history: replies that broke off after Telegram accepted
  overlapped    \* history: have two invocations run at the same time?

tables  == <<runStatus, runSig, fragment, log, paging>>
locals  == <<repeat, already, review, run, todo>>
history == <<accepted, invocations, crashes, broken, overlapped>>
vars == <<runStatus, runSig, fragment, log, paging, pc, repeat, already, review,
          run, todo, accepted, invocations, crashes, broken, overlapped>>

RunStates      == {"none", "pending", "failed", "ambiguous", "sent", "superseded"}
FragmentStates == {"none", "pending", "failed", "ambiguous", "sent"}
Resumable      == {"pending", "failed"}
Unfinished     == {"pending", "failed", "ambiguous"}
PCs == {"idle", "compose", "begin", "list", "sending", "acknowledged", "rejected",
        "unknown", "log-failed", "log-ambiguous", "completed", "paging"}
Busy == {"sending", "acknowledged", "rejected", "unknown"}  \* ... with fragments
Engaged == PCs \ {"idle", "compose", "begin"}   \* ... with a run

Init ==
  /\ runStatus = [r \in Runs |-> "none"]
  /\ runSig = [r \in Runs |-> NoSignature]
  /\ fragment = [r \in Runs |-> [i \in Index |-> "none"]]
  /\ log = {}
  /\ paging = FALSE
  /\ pc = [p \in Procs |-> "idle"]
  /\ repeat = [p \in Procs |-> FALSE]
  /\ already = [p \in Procs |-> FALSE]
  /\ review = [p \in Procs |-> FALSE]
  /\ run = [p \in Procs |-> 0]
  /\ todo = [p \in Procs |-> {}]
  /\ accepted = [r \in Runs |-> [i \in Index |-> 0]]
  /\ invocations = 0
  /\ crashes = 0
  /\ broken = 0
  /\ overlapped = FALSE
-------------------------------------------------------------------------------
(* What the transactions compute. *)

(* Mutation: a fragment that failed once is not listed again. *)
Unsent_Forgets(r) == {i \in Index : fragment[r][i] = "pending"}

(* The rows list_pending_daily_summary_fragments returns. *)
Unsent(r) == {i \in Index : fragment[r][i] \in Resumable}

(* Mutation: no ORDER BY. *)
IsNext_Unordered(p, i) == i \in todo[p]

(* ORDER BY fragment_index ASC: i is the fragment p handles now. *)
IsNext(p, i) == i \in todo[p] /\ \A j \in todo[p] : i <= j

AmbiguousHeld == \E r \in Runs : runStatus[r] = "ambiguous"

(* Status of every run after the two superseding UPDATEs; the first one is *)
(* executed only if the SELECT before it found an ambiguous run.           *)
Superseded(p, s) ==
  [r \in Runs |->
     IF \/ review[p] /\ runStatus[r] = "ambiguous"
        \/ runStatus[r] \in Resumable /\ runSig[r] # s
     THEN "superseded" ELSE runStatus[r]]

(* ORDER BY started_at DESC LIMIT 1 among the runs that can be resumed. *)
IsResumed(r, s) ==
  /\ runStatus[r] \in Resumable /\ runSig[r] = s
  /\ \A q \in Runs : runStatus[q] \in Resumable /\ runSig[q] = s => q <= r

IsFresh(r) ==
  /\ runStatus[r] = "none"
  /\ \A q \in Runs : q < r => runStatus[q] # "none"

Goto(p, l) == pc' = [pc EXCEPT ![p] = l]

(* The invocation ends, by return, by exception or because it is killed. *)
Exit(p) ==
  /\ Goto(p, "idle")
  /\ repeat'  = [repeat EXCEPT ![p] = FALSE]
  /\ already' = [already EXCEPT ![p] = FALSE]
  /\ review'  = [review EXCEPT ![p] = FALSE]
  /\ run'     = [run EXCEPT ![p] = 0]
  /\ todo'    = [todo EXCEPT ![p] = {}]

-------------------------------------------------------------------------------
(* The invocation, step by step. *)

(* scheduled-notify passes its guards and reads has_successful_delivery    *)
(* before it fetches quotes, which takes long.                             *)
Invoke(p, rep) ==
  /\ pc[p] = "idle"
  /\ invocations < MaxInvocations
  /\ Overlap \/ \A q \in Procs : pc[q] = "idle"
  /\ Goto(p, "compose")
  /\ repeat' = [repeat EXCEPT ![p] = rep]
  /\ already' = [already EXCEPT ![p] = "sent" \in log]
  /\ invocations' = invocations + 1
  /\ overlapped' = (overlapped \/ \E q \in Procs : pc[q] # "idle")
  /\ UNCHANGED <<tables, review, run, todo, accepted, crashes, broken>>

(* "Telegram notification already sent ...; skipping." *)
SkipSent(p) ==
  /\ pc[p] = "compose"
  /\ already[p] /\ ~repeat[p]
  /\ Exit(p)
  /\ UNCHANGED <<tables, history>>

(* Quotes are fetched and messages composed; the first statement of        *)
(* start_or_resume_daily_summary_run, a SELECT outside any transaction,    *)
(* looks for an ambiguous run.                                             *)
CheckReview(p) ==
  /\ pc[p] = "compose"
  /\ repeat[p] \/ ~already[p]
  /\ review' = [review EXCEPT ![p] = AmbiguousHeld]
  /\ Goto(p, "begin")
  /\ UNCHANGED <<tables, repeat, already, run, todo, history>>

(* It raises: operator review is required before another send. *)
Refuse(p) ==
  /\ pc[p] = "begin"
  /\ review[p] /\ ~repeat[p]
  /\ Exit(p)
  /\ UNCHANGED <<tables, history>>

(* Mutation: a review that is due stops nobody. *)
MayBegin_Unreviewed(p) == pc[p] = "begin"

(* It goes on to the transaction that the first UPDATE opens. *)
MayBegin(p) == pc[p] = "begin" /\ (repeat[p] \/ ~review[p])

(* The transaction finds a run of this signature to resume.  The signature *)
(* depends on quotes fetched just before, so any may come.       *)
Resume(p, s) ==
  /\ MayBegin(p)
  /\ \E r \in Runs :
       /\ IsResumed(r, s)
       /\ runStatus' = [Superseded(p, s) EXCEPT ![r] = "pending"]
       /\ run' = [run EXCEPT ![p] = r]
  /\ Goto(p, "list")
  /\ UNCHANGED <<runSig, fragment, log, paging, repeat, already, review, todo, history>>

(* ... or inserts a run and its fragments. *)
Start(p, s) ==
  /\ MayBegin(p)
  /\ ~\E r \in Runs : IsResumed(r, s)
  /\ \E r \in Runs :
       /\ IsFresh(r)
       /\ runStatus' = [Superseded(p, s) EXCEPT ![r] = "pending"]
       /\ runSig' = [runSig EXCEPT ![r] = s]
       /\ fragment' = [fragment EXCEPT ![r] =
            [i \in Index |-> IF i <= Size[s] THEN "pending" ELSE "none"]]
       /\ run' = [run EXCEPT ![p] = r]
  /\ Goto(p, "list")
  /\ UNCHANGED <<log, paging, repeat, already, review, todo, history>>

ListPending(p) ==
  /\ pc[p] = "list"
  /\ todo' = [todo EXCEPT ![p] = Unsent(run[p])]
  /\ Goto(p, "sending")
  /\ UNCHANGED <<tables, repeat, already, review, run, history>>

(* send_telegram_message(max_retries=1): Telegram answers with a message id *)
SendAccepted(p) ==
  /\ pc[p] = "sending"
  /\ \E i \in Index :
       /\ IsNext(p, i)
       /\ accepted' = [accepted EXCEPT ![run[p]][i] = @ + 1]
  /\ Goto(p, "acknowledged")
  /\ UNCHANGED <<tables, locals, invocations, crashes, broken, overlapped>>

(* ... or the exception looks definite: Telegram refused (ok: false, HTTP  *)
(* 4xx other than 408).  http.client.IncompleteRead is no OSError and has  *)
(* no `ambiguous`, so a reply that breaks off ends here too.               *)
SendRejected(p) ==
  /\ pc[p] = "sending"
  /\ \E i \in Index, arrived \in IF TruncatedReads THEN {0, 1} ELSE {0} :
       /\ IsNext(p, i)
       /\ accepted' = [accepted EXCEPT ![run[p]][i] = @ + arrived]
       /\ broken' = broken + arrived
  /\ Goto(p, "rejected")
  /\ UNCHANGED <<tables, locals, invocations, crashes, overlapped>>

(* ... or nobody knows: timeout, transport error, HTTP 5xx, bad JSON. *)
SendUnknown(p) ==
  /\ pc[p] = "sending"
  /\ \E i \in Index, arrived \in {0, 1} :
       /\ IsNext(p, i)
       /\ accepted' = [accepted EXCEPT ![run[p]][i] = @ + arrived]
  /\ Goto(p, "unknown")
  /\ UNCHANGED <<tables, locals, invocations, crashes, broken, overlapped>>

(* Mutation: an unknown outcome is taken for a success. *)
MarkSent_Optimistic(p) ==
  /\ pc[p] \in {"acknowledged", "unknown"}
  /\ \E i \in Index :
       /\ IsNext(p, i)
       /\ fragment' = [fragment EXCEPT ![run[p]][i] = "sent"]
       /\ todo' = [todo EXCEPT ![p] = @ \ {i}]
  /\ Goto(p, "sending")
  /\ UNCHANGED <<runStatus, runSig, log, paging, repeat, already, review, run, history>>

MarkSent(p) ==
  /\ pc[p] = "acknowledged"
  /\ \E i \in Index :
       /\ IsNext(p, i)
       /\ fragment' = [fragment EXCEPT ![run[p]][i] = "sent"]
       /\ todo' = [todo EXCEPT ![p] = @ \ {i}]
  /\ Goto(p, "sending")
  /\ UNCHANGED <<runStatus, runSig, log, paging, repeat, already, review, run, history>>

MarkFailed(p) ==
  /\ pc[p] = "rejected"
  /\ \E i \in Index :
       /\ IsNext(p, i)
       /\ fragment' = [fragment EXCEPT ![run[p]][i] = "failed"]
  /\ runStatus' = [runStatus EXCEPT ![run[p]] = "failed"]
  /\ Goto(p, "log-failed")
  /\ UNCHANGED <<runSig, log, paging, locals, history>>

(* Mutation: every exception is a definite failure. *)
MarkAmbiguous_AsFailed(p) ==
  /\ pc[p] = "unknown"
  /\ \E i \in Index :
       /\ IsNext(p, i)
       /\ fragment' = [fragment EXCEPT ![run[p]][i] = "failed"]
  /\ runStatus' = [runStatus EXCEPT ![run[p]] = "failed"]
  /\ Goto(p, "log-failed")
  /\ UNCHANGED <<runSig, log, paging, locals, history>>

MarkAmbiguous(p) ==
  /\ pc[p] = "unknown"
  /\ \E i \in Index :
       /\ IsNext(p, i)
       /\ fragment' = [fragment EXCEPT ![run[p]][i] = "ambiguous"]
  /\ runStatus' = [runStatus EXCEPT ![run[p]] = "ambiguous"]
  /\ Goto(p, "log-ambiguous")
  /\ UNCHANGED <<runSig, log, paging, locals, history>>

(* record_delivery of the failure, then the exception leaves the command. *)
LogFailure(p) ==
  /\ \/ pc[p] = "log-failed"    /\ log' = log \union {"failed"}
     \/ pc[p] = "log-ambiguous" /\ log' = log \union {"ambiguous"}
  /\ Exit(p)
  /\ UNCHANGED <<runStatus, runSig, fragment, paging, history>>

(* complete_daily_summary_run: unconditional. *)
Complete(p) ==
  /\ pc[p] = "sending"
  /\ todo[p] = {}
  /\ runStatus' = [runStatus EXCEPT ![run[p]] = "sent"]
  /\ Goto(p, "completed")
  /\ UNCHANGED <<runSig, fragment, log, paging, locals, history>>

(* delivery_log holds one 'sent' row at most (uq_delivery_log_success); the *)
(* row of an authorised repetition has a status of its own.                *)
LogRow(p) == IF repeat[p] /\ already[p] THEN "sent_repeat" ELSE "sent"
IsLogged(p) == LogRow(p) = "sent" /\ "sent" \in log

LogSent(p) ==
  /\ pc[p] = "completed"
  /\ ~IsLogged(p)
  /\ log' = log \union {LogRow(p)}
  /\ Goto(p, "paging")
  /\ UNCHANGED <<runStatus, runSig, fragment, paging, locals, history>>

(* IntegrityError: the summary is out, and the invocation ends in a failure. *)
LogRefused(p) ==
  /\ pc[p] = "completed"
  /\ IsLogged(p)
  /\ Exit(p)
  /\ UNCHANGED <<tables, history>>

(* load_control_state; set_delivered_for; save_control_state. *)
SavePaging(p) ==
  /\ pc[p] = "paging"
  /\ paging' = TRUE
  /\ Exit(p)
  /\ UNCHANGED <<runStatus, runSig, fragment, log, history>>

(* The process is killed: what SQLite committed and Telegram took remains. *)
Crash(p) ==
  /\ pc[p] # "idle"
  /\ crashes < MaxCrashes
  /\ crashes' = crashes + 1
  /\ Exit(p)
  /\ UNCHANGED <<tables, accepted, invocations, broken, overlapped>>

(* No process runs and the bound on invocations is used up. *)
Rest ==
  /\ invocations = MaxInvocations
  /\ \A p \in Procs : pc[p] = "idle"
  /\ UNCHANGED vars

Send(p) == SendAccepted(p) \/ SendRejected(p) \/ SendUnknown(p)
Record(p) == MarkSent(p) \/ MarkFailed(p) \/ MarkAmbiguous(p)
Begin(p) == \E s \in Signatures : Resume(p, s) \/ Start(p, s)

Step(p) ==
  \/ SkipSent(p) \/ CheckReview(p) \/ Refuse(p) \/ Begin(p) \/ ListPending(p)
  \/ Send(p) \/ Record(p) \/ LogFailure(p)
  \/ Complete(p) \/ LogSent(p) \/ LogRefused(p) \/ SavePaging(p)

Next ==
  \/ \E p \in Procs : (\E rep \in BOOLEAN : Invoke(p, rep)) \/ Step(p) \/ Crash(p)
  \/ Rest

Spec == Init /\ [][Next]_vars

-------------------------------------------------------------------------------
TypeOK ==
  /\ runStatus \in [Runs -> RunStates]
  /\ runSig \in [Runs -> Signatures \union {NoSignature}]
  /\ fragment \in [Runs -> [Index -> FragmentStates]]
  /\ log \subseteq {"sent", "sent_repeat", "failed", "ambiguous"}
  /\ paging \in BOOLEAN
  /\ pc \in [Procs -> PCs]
  /\ repeat \in [Procs -> BOOLEAN]
  /\ already \in [Procs -> BOOLEAN]
  /\ review \in [Procs -> BOOLEAN]
  /\ run \in [Procs -> Runs \union {0}]
  /\ \A p \in Procs : pc[p] \in Engaged => run[p] \in Runs
  /\ todo \in [Procs -> SUBSET Index]
  /\ accepted \in [Runs -> [Index -> Nat]]
  /\ invocations \in 0..MaxInvocations
  /\ crashes \in 0..MaxCrashes
  /\ broken \in Nat
  /\ overlapped \in BOOLEAN

(* At most one run of the date is still to be finished or reviewed: a new  *)
(* signature or an authorised retry closes the others.                     *)
OneUnfinishedRun ==
  \A r, q \in Runs :
    runStatus[r] \in Unfinished /\ runStatus[q] \in Unfinished => r = q

(* Invocations of one date may overlap.  Until two have, these hold.       *)

(* A run recorded as sent has all its fragments recorded as sent and each  *)
(* of them was accepted by Telegram.                                       *)
SentRunIsComplete ==
  overlapped \/
  \A r \in Runs : runStatus[r] = "sent" =>
    \A i \in 1..Size[runSig[r]] : fragment[r][i] = "sent" /\ accepted[r][i] > 0

(* Nothing is attempted, let alone accepted, before the fragments in front *)
(* of it are recorded as sent.                                             *)
InOrder ==
  \A r \in Runs : \A i, j \in Index :
    /\ i < j
    /\ \/ fragment[r][j] \in {"failed", "ambiguous", "sent"}
       \/ accepted[r][j] > 0
    => fragment[r][i] = "sent"

(* Fragments go out in order, whatever fails or is killed in between. *)
DeliveredInOrder == overlapped \/ InOrder

(* Within a run, Telegram accepts a fragment twice only if a process died  *)
(* between sendMessage and the mark that records its outcome, or a reply   *)
(* broke off.                                                              *)
DuplicateNeedsCrash ==
  overlapped \/ \A r \in Runs, i \in Index : accepted[r][i] <= 1 + crashes + broken

(* Telegram may have accepted fragment i of run r, and the process that    *)
(* knows has not recorded it.                                              *)
InFlight(r, i) ==
  \E p \in Procs : /\ pc[p] \in {"acknowledged", "unknown"}
                   /\ run[p] = r /\ IsNext(p, i)

(* What is recorded as failed, and will be sent again, never reached the   *)
(* chat, but for the outcomes lost with a process or a broken reply.       *)
FailedWasNotAccepted ==
  overlapped \/
  \A r \in Runs, i \in Index :
    fragment[r][i] = "failed" /\ ~InFlight(r, i) => accepted[r][i] <= crashes + broken

(* Fragment i of run r as HeldDelivery sees it: what a new signature or an *)
(* authorised retry supersedes is closed, unless it was sent before.       *)
StandingOf(r, i) ==
  CASE fragment[r][i] = "none" -> "absent"
    [] fragment[r][i] = "sent" -> "sent"
    [] OTHER -> IF runStatus[r] = "superseded" THEN "closed"
                ELSE IF fragment[r][i] = "ambiguous" THEN "held" ELSE "open"

Fragments == Runs \X Index

standing == [m \in Fragments |-> StandingOf(m[1], m[2])]
flying   == {m \in Fragments : InFlight(m[1], m[2])}
received == [m \in Fragments |-> accepted[m[1]][m[2]]]
excuses  == crashes + broken
Ledger   == INSTANCE HeldDelivery WITH Items <- Fragments

(* Until invocations overlap, every step is one of HeldDelivery, or none:  *)
(* a fragment is sent again only after its outcome was lost with a process *)
(* or a broken reply, and one whose outcome is unknown is held for good.   *)
ImplementsHeldDelivery ==
  Ledger!Init /\ [][~overlapped' => Ledger!Next]_<<standing, flying, received, excuses>>

(* While a run is ambiguous nobody is about to call Telegram. *)
Held == AmbiguousHeld => \A p \in Procs : pc[p] \notin {"list", "sending"}

(* p calls sendMessage for fragment i of its run. *)
Attempt(p, i) ==
  /\ pc[p] = "sending" /\ IsNext(p, i)
  /\ pc'[p] \in {"acknowledged", "rejected", "unknown"}

(* p, which an operator started with --allow-repeat, closes run r. *)
ClosedByOperator(r) ==
  /\ runStatus'[r] = "superseded"
  /\ \E p \in Procs : repeat[p] /\ pc[p] = "begin" /\ pc'[p] = "list"

(* Until invocations overlap, an ambiguous run stays ambiguous until an    *)
(* invocation with --allow-repeat supersedes it, however many others are   *)
(* started, fail or die before, and nothing is sent for that date as long  *)
(* as it is.                                                               *)
AmbiguityIsHeld ==
  [][~overlapped' =>
       /\ \A r \in Runs : runStatus[r] = "ambiguous" =>
            runStatus'[r] = "ambiguous" \/ ClosedByOperator(r)
       /\ AmbiguousHeld => ~\E p \in Procs, i \in Index : Attempt(p, i)]_vars

(* The delivery log and the control state never run ahead of the tables. *)
RecordsAreBacked ==
  /\ "sent" \in log => \E r \in Runs : runStatus[r] = "sent"
  /\ paging => "sent" \in log

(* A completed delivery finds room for its row: the invocation that sent   *)
(* everything does not end in an IntegrityError.                           *)
DeliveryCanBeLogged ==
  overlapped \/ \A p \in Procs : pc[p] = "completed" => ~IsLogged(p)

(* Whatever overlaps, a fragment recorded as sent was accepted. *)
SentWasAccepted ==
  \A r \in Runs, i \in Index : fragment[r][i] = "sent" => accepted[r][i] > 0

(* A sent or superseded run is never reopened. *)
FinishedRunsStay ==
  [][~overlapped' => \A r \in Runs : runStatus[r] \in {"sent", "superseded"}
       => runStatus'[r] = runStatus[r]]_vars

(* The inductive invariant behind the properties, which holds until        *)
(* invocations overlap: one process at a time, and what it remembers is    *)
(* what the tables say.                                                    *)
Alone ==
  \A p, q \in Procs : pc[p] # "idle" /\ pc[q] # "idle" => p = q

MemoryIsCurrent ==
  \A p \in Procs :
    /\ pc[p] = "begin" => review[p] = AmbiguousHeld
    /\ pc[p] \in Busy \union {"list"} => runStatus[run[p]] = "pending"
    /\ pc[p] \in Busy => todo[p] = Unsent(run[p])
    /\ pc[p] = "acknowledged" =>
         \A i \in Index : IsNext(p, i) => accepted[run[p]][i] > 0
    /\ pc[p] = "completed" => runStatus[run[p]] = "sent"
    /\ already[p] \/ pc[p] = "paging" => "sent" \in log
    /\ "sent" \in log => already[p] \/ pc[p] \in {"idle", "paging"}
    /\ already[p] => repeat[p] \/ pc[p] \in {"idle", "compose"}

TablesAgree ==
  \A r \in Runs :
    /\ runStatus[r] # "none" => runSig[r] \in Signatures
    /\ \A i \in Index :
         /\ fragment[r][i] # "none" <=> runStatus[r] # "none" /\ i <= Size[runSig[r]]
         /\ runStatus[r] \in Resumable => fragment[r][i] # "ambiguous"
         /\ runStatus[r] = "sent" => fragment[r][i] \in {"sent", "none"}

AcceptedIsCounted ==
  \A r \in Runs, i \in Index :
    accepted[r][i] <= crashes + broken + (IF \/ fragment[r][i] \in {"sent", "ambiguous"}
                                             \/ InFlight(r, i) THEN 1 ELSE 0)

SerialInv ==
  /\ Alone /\ MemoryIsCurrent /\ TablesAgree /\ AcceptedIsCounted
  /\ OneUnfinishedRun /\ InOrder /\ Held
  /\ RecordsAreBacked /\ SentWasAccepted

-------------------------------------------------------------------------------
(* Claims of the documentation that the code does not keep: see README. *)

(* "A retry after a failure does not send a fragment again that already    *)
(* succeeded": no text recorded as sent is sent again unasked.             *)
SentTextIsNotResent ==
  [][\A p \in Procs, i \in Index : Attempt(p, i) /\ ~repeat[p] =>
       \A r \in Runs, j \in Index :
         fragment[r][j] = "sent" => Text[runSig[r]][j] # Text[runSig[run[p]]][i]]_vars

(* "Replay safety: daily fragments prevent a duplicate side effect": once  *)
(* a run of the date is recorded as sent, nothing is sent unasked.         *)
SentRunIsNotRepeated ==
  [][\A p \in Procs, i \in Index : Attempt(p, i) /\ ~repeat[p] =>
       \A r \in Runs : runStatus[r] # "sent"]_vars

(* "A timeout/transport error, HTTP 5xx, or malformed success response is  *)
(* recorded as ambiguous": what is recorded as failed was refused.         *)
FailedWasRefused ==
  \A r \in Runs, i \in Index : fragment[r][i] = "failed" => accepted[r][i] = 0

(* "Recorded as ambiguous and excluded from automatic retry": no fragment  *)
(* recorded as ambiguous is sent again unasked.                            *)
AmbiguousIsNotRetried ==
  [][\A p \in Procs, i \in Index : Attempt(p, i) /\ ~repeat[p] =>
       fragment[run[p]][i] # "ambiguous"]_vars
===============================================================================
