---------------------------- MODULE MarketMessages ----------------------------
(***************************************************************************)
(* The market messages of ONE day: the scheduled briefing slots            *)
(* (_run_scheduled_market_briefing_slot) and the alerts about official KRX *)
(* market actions (_run_krx_kind_market_action_check), with the            *)
(* delivery_log rows that keep them from being sent twice.                 *)
(*                                                                         *)
(* The two are guarded differently.  A slot is sent with one attempt, and  *)
(* an ambiguous outcome is logged and held for the operator; a notice is   *)
(* sent with retries, and only a success is logged.  An attempt whose reply *)
(* breaks off is reported as failed, and neither holds it back.  The scheduled guards  *)
(* (holiday, profile, review gate, the window of a slot) only keep a run   *)
(* from starting: a run they stop is no step here.                         *)
(***************************************************************************)
EXTENDS Naturals, Sequences, FiniteSetsExt

CONSTANTS Loop,        \* the telegram worker, which checks KIND every minute
          Others,      \* scheduled slot tasks and manual commands
          Slots,       \* mood, lunch, preclose
          MaxNotices,  \* bound: notices of the day, numbered as published
          Page,        \* currentPageSize (15): notices one search returns
          Attempts,    \* telegram_max_retries
          MaxFaults,   \* bound: attempts that go wrong, and crashes
          MaxRepeats   \* bound: runs with --allow-repeat

Notices  == 1..MaxNotices
Messages == Slots \cup Notices
Procs    == Others \cup {Loop}

ASSUME MessagesAssumption ==
    /\ Loop \notin Others /\ Slots \cap Nat = {}
    /\ MaxNotices \in Nat /\ Page \in Nat \ {0} /\ Attempts \in Nat \ {0}
    /\ MaxFaults \in Nat /\ MaxRepeats \in Nat

VARIABLES
    market,     \* the hours of the KIND check: before, open, after
    published,  \* notices published so far
    log,        \* delivery_log: per message, the outcomes and when attempted
    pc, job,    \* per process: where it is, the message in hand
    page,       \* per process: the notices of its search not yet handled
    repeat,     \* per process: its message goes to a repeat channel
    tries, at,  \* per process: attempts left, when its attempt began
    outcome,    \* per process: how its attempt ended
    clock,      \* per message: attempts begun
    received,   \* per message: how often the operator received it
    doubt,      \* messages with an attempt whose answer was lost or unreadable
    broken,     \* messages with an attempt whose reply broke off
    died,       \* messages whose process died before it logged a receipt
    asked,      \* slots the operator had repeated
    overlap,    \* messages two processes had in hand at the same time
    faults, repeats

day     == <<market, published>>
local   == <<page, repeat, tries, at, outcome>>
process == <<pc, job, local>>
history == <<clock, received, doubt, broken, died, asked, overlap>>
bounds  == <<faults, repeats>>
vars    == <<day, log, process, history, bounds>>

NoMessage == 0
NoOutcome == "none"

Init ==
    /\ market = "before" /\ published = 0
    /\ log = [m \in Messages |-> {}]
    /\ pc = [p \in Procs |-> "idle"] /\ job = [p \in Procs |-> NoMessage]
    /\ page = [p \in Procs |-> <<>>] /\ repeat = [p \in Procs |-> FALSE]
    /\ tries = [p \in Procs |-> 0] /\ at = [p \in Procs |-> 0]
    /\ outcome = [p \in Procs |-> NoOutcome]
    /\ clock = [m \in Messages |-> 0] /\ received = [m \in Messages |-> 0]
    /\ doubt = {} /\ broken = {} /\ died = {} /\ asked = {} /\ overlap = {}
    /\ faults = 0 /\ repeats = 0

-----------------------------------------------------------------------------
Goto(p, where) == pc' = [pc EXCEPT ![p] = where]

Leave(p) ==
    /\ Goto(p, "idle")
    /\ job' = [job EXCEPT ![p] = NoMessage]
    /\ page' = [page EXCEPT ![p] = <<>>] /\ repeat' = [repeat EXCEPT ![p] = FALSE]
    /\ tries' = [tries EXCEPT ![p] = 0] /\ at' = [at EXCEPT ![p] = 0]
    /\ outcome' = [outcome EXCEPT ![p] = NoOutcome]

(* p takes a message in hand, which another process may have in hand too. *)
Take(p, m) ==
    /\ job' = [job EXCEPT ![p] = m]
    /\ overlap' = IF \E q \in Procs \ {p} : job[q] = m THEN overlap \cup {m} ELSE overlap

(* Mutation: the log is not consulted. *)
Sent_Never(m) == FALSE

(* has_successful_delivery *)
Sent(m) == \E r \in log[m] : r.status = "sent"

(* Mutation: an ambiguous outcome holds nothing back. *)
Held_Never(m) == FALSE

(* has_latest_delivery_status(ambiguous), by delivered_at: when attempted. *)
Held(m) ==
    \E r \in log[m] : r.status = "ambiguous" /\ \A s \in log[m] : s.at <= r.at

(* Mutation: the oldest notices first. *)
Newest_Oldest == [i \in 1..Min({Page, published}) |-> i]

(* One page of the search of today's notices, the newest first. *)
Newest == [i \in 1..Min({Page, published}) |-> published - i + 1]

(* Time passes. *)
Tick ==
    /\ market # "after"
    /\ market' = IF market = "before" THEN "open" ELSE "after"
    /\ UNCHANGED <<published, log, process, history, bounds>>

(* KRX publishes a notice. *)
Publish ==
    /\ published < MaxNotices
    /\ published' = published + 1
    /\ UNCHANGED <<market, log, process, history, bounds>>

-----------------------------------------------------------------------------
(* A slot: the log is read first, then news are collected and the message  *)
(* is composed, which takes long.                                          *)
BeginSlot(p, s) ==
    /\ pc[p] = "idle"
    /\ ~Held(s) /\ ~Sent(s)
    /\ Take(p, s)
    /\ Goto(p, "compose")
    /\ UNCHANGED <<day, log, local, clock, received, doubt, broken, died, asked, bounds>>

(* --allow-repeat: neither the log nor a hold stops it, and after a success *)
(* the outcome goes to a channel of its own.                                *)
RepeatSlot(p, s) ==
    /\ pc[p] = "idle"
    /\ repeats < MaxRepeats /\ repeats' = repeats + 1
    /\ asked' = asked \cup {s}
    /\ repeat' = [repeat EXCEPT ![p] = Sent(s)]
    /\ Take(p, s)
    /\ Goto(p, "compose")
    /\ UNCHANGED <<day, log, page, tries, at, outcome, clock, received, doubt, broken, died, faults>>

(* attempted_at is taken, and one attempt is made. *)
Compose(p) ==
    /\ pc[p] = "compose"
    /\ clock' = [clock EXCEPT ![job[p]] = @ + 1]
    /\ at' = [at EXCEPT ![p] = clock[job[p]] + 1]
    /\ tries' = [tries EXCEPT ![p] = 1]
    /\ Goto(p, "send")
    /\ UNCHANGED <<day, log, job, page, repeat, outcome, received, doubt, broken, died, asked,
                   overlap, bounds>>

(* The message cannot be composed or is not fit to publish. *)
Abandon(p) ==
    /\ pc[p] = "compose"
    /\ Leave(p)
    /\ UNCHANGED <<day, log, history, bounds>>

(* A KIND check reads today's notices; outside its hours it does nothing. *)
BeginCheck(p) ==
    /\ pc[p] = "idle"
    /\ market = "open"
    /\ page' = [page EXCEPT ![p] = Newest]
    /\ Goto(p, "next")
    /\ UNCHANGED <<day, log, job, repeat, tries, at, outcome, history, bounds>>

(* The next notice of the page that has not been sent. *)
NextNotice(p) ==
    /\ pc[p] = "next" /\ page[p] # <<>>
    /\ page' = [page EXCEPT ![p] = Tail(@)]
    /\ IF Sent(Head(page[p]))
       THEN UNCHANGED <<pc, job, tries, overlap>>
       ELSE /\ Take(p, Head(page[p]))
            /\ tries' = [tries EXCEPT ![p] = Attempts]
            /\ Goto(p, "send")
    /\ UNCHANGED <<day, log, repeat, at, outcome, clock, received, doubt, broken, died, asked, bounds>>

EndCheck(p) ==
    /\ pc[p] = "next" /\ page[p] = <<>>
    /\ Leave(p)
    /\ UNCHANGED <<day, log, history, bounds>>

-----------------------------------------------------------------------------
(* send_telegram_message.                                                  *)

Deliver(m, n) == received' = [received EXCEPT ![m] = @ + n]

Ends(p, how) ==
    /\ outcome' = [outcome EXCEPT ![p] = how]
    /\ Goto(p, "record")
    /\ tries' = [tries EXCEPT ![p] = 0]

Again(p) ==
    /\ tries[p] > 1
    /\ tries' = [tries EXCEPT ![p] = @ - 1]
    /\ UNCHANGED <<pc, outcome>>

(* Telegram answers with a message id. *)
Answered(p) ==
    /\ pc[p] = "send"
    /\ Deliver(job[p], 1)
    /\ Ends(p, "sent")
    /\ UNCHANGED <<day, log, job, page, repeat, at, clock, doubt, broken, died, asked, overlap, bounds>>

(* A timeout, a transport error or HTTP 5xx: tried again while attempts are *)
(* left.  The message may have arrived.                                     *)
Unanswered(p) ==
    /\ pc[p] = "send"
    /\ faults < MaxFaults /\ faults' = faults + 1
    /\ \E n \in {0, 1} : Deliver(job[p], n)
    /\ doubt' = doubt \cup {job[p]}
    /\ Again(p) \/ (tries[p] = 1 /\ Ends(p, "ambiguous"))
    /\ UNCHANGED <<day, log, job, page, repeat, at, clock, broken, died, asked, overlap,
                   repeats>>

(* The reply is no JSON object, or has no message id: ambiguous at once,    *)
(* whatever attempts are left.                                              *)
Unreadable(p) ==
    /\ pc[p] = "send"
    /\ faults < MaxFaults /\ faults' = faults + 1
    /\ \E n \in {0, 1} : Deliver(job[p], n)
    /\ doubt' = doubt \cup {job[p]}
    /\ Ends(p, "ambiguous")
    /\ UNCHANGED <<day, log, job, page, repeat, at, clock, broken, died, asked, overlap,
                   repeats>>

(* The reply breaks off while it is read.  HTTPException is no OSError: it  *)
(* leaves the call at once, and as no TelegramRequestError it is not        *)
(* ambiguous, whether the message was accepted or not.                      *)
BrokenOff(p) ==
    /\ pc[p] = "send"
    /\ faults < MaxFaults /\ faults' = faults + 1
    /\ \E n \in {0, 1} : Deliver(job[p], n)
    /\ broken' = broken \cup {job[p]}
    /\ Ends(p, "failed")
    /\ UNCHANGED <<day, log, job, page, repeat, at, clock, doubt, died, asked, overlap,
                   repeats>>

(* Telegram refuses: ok false at once, HTTP 4xx after the last attempt. *)
Refused(p) ==
    /\ pc[p] = "send"
    /\ faults < MaxFaults /\ faults' = faults + 1
    /\ Again(p) \/ Ends(p, "failed")
    /\ UNCHANGED <<day, log, job, page, repeat, at, clock, received, doubt, broken, died, asked,
                   overlap, repeats>>

(* uq_delivery_log_success: a second row that says sent is refused, and the *)
(* IntegrityError leaves the command.                                       *)
Refuses(m, status) == status = "sent" /\ Sent(m)

(* record_delivery of a slot: every outcome, at the time of the attempt; a  *)
(* repeat goes to a channel nothing reads.                                  *)
RecordSlot(p) ==
    /\ pc[p] = "record" /\ job[p] \in Slots
    /\ log' = IF repeat[p] \/ Refuses(job[p], outcome[p]) THEN log
              ELSE [log EXCEPT ![job[p]] = @ \cup {[status |-> outcome[p], at |-> at[p]]}]
    /\ Leave(p)
    /\ UNCHANGED <<day, history, bounds>>

(* record_delivery of a notice that was sent; the check goes on. *)
LogNotice(p) ==
    /\ pc[p] = "record" /\ job[p] \in Notices
    /\ outcome[p] = "sent" /\ ~Refuses(job[p], "sent")
    /\ log' = [log EXCEPT ![job[p]] = @ \cup {[status |-> "sent", at |-> 0]}]
    /\ outcome' = [outcome EXCEPT ![p] = NoOutcome] /\ job' = [job EXCEPT ![p] = NoMessage]
    /\ Goto(p, "next")
    /\ UNCHANGED <<page, repeat, tries, at, day, history, bounds>>

(* Any other outcome is no delivery: the exception ends the check, and the  *)
(* rest of the page waits for the next one.                                 *)
DropNotice(p) ==
    /\ pc[p] = "record" /\ job[p] \in Notices
    /\ outcome[p] # "sent" \/ Refuses(job[p], "sent")
    /\ Leave(p)
    /\ UNCHANGED <<day, log, history, bounds>>

(* The process is killed. *)
Crash(p) ==
    /\ pc[p] # "idle"
    /\ faults < MaxFaults /\ faults' = faults + 1
    /\ died' = IF pc[p] = "record" /\ outcome[p] # "failed" THEN died \cup {job[p]} ELSE died
    /\ Leave(p)
    /\ UNCHANGED <<day, log, clock, received, doubt, broken, asked, overlap, repeats>>

-----------------------------------------------------------------------------
(* What a process does once it has begun, when nothing goes wrong. *)
Continue(p) ==
    \/ Compose(p) \/ NextNotice(p) \/ EndCheck(p) \/ Answered(p)
    \/ RecordSlot(p) \/ LogNotice(p) \/ DropNotice(p)

Next ==
    \/ Tick \/ Publish
    \/ \E p \in Procs : \/ BeginCheck(p) \/ Continue(p) \/ Abandon(p)
                        \/ Unanswered(p) \/ Unreadable(p) \/ BrokenOff(p)
                        \/ Refused(p) \/ Crash(p)
    \/ \E p \in Others, s \in Slots : BeginSlot(p, s) \/ RepeatSlot(p, s)

(* The worker checks again and again, whatever a check ran into, and a      *)
(* process that has begun goes on; nothing makes anyone start a slot.       *)
Fairness ==
    /\ WF_vars(BeginCheck(Loop))
    /\ \A p \in Procs : WF_vars(Continue(p))

Spec     == Init /\ [][Next]_vars
FairSpec == Spec /\ Fairness
-----------------------------------------------------------------------------
Outcomes == {"sent", "ambiguous", "failed"}
Records  == [status: Outcomes, at: Nat]

(* Every variable has its type and no bound is exceeded. *)
TypeOK ==
    /\ market \in {"before", "open", "after"}
    /\ published \in 0..MaxNotices /\ log \in [Messages -> SUBSET Records]
    /\ pc \in [Procs -> {"idle", "compose", "next", "send", "record"}]
    /\ job \in [Procs -> Messages \cup {NoMessage}] /\ page \in [Procs -> Seq(Notices)]
    /\ repeat \in [Procs -> BOOLEAN] /\ tries \in [Procs -> 0..Attempts]
    /\ at \in [Procs -> Nat] /\ outcome \in [Procs -> Outcomes \cup {NoOutcome}]
    /\ clock \in [Messages -> Nat] /\ received \in [Messages -> Nat]
    /\ doubt \subseteq Messages /\ broken \subseteq Messages /\ died \subseteq Messages
    /\ asked \subseteq Slots /\ overlap \subseteq Messages
    /\ faults \in 0..MaxFaults /\ repeats \in 0..MaxRepeats

(* The operator receives a slot twice only after asking for it, if a reply  *)
(* broke off, if its process died before it logged the outcome, or if two   *)
(* processes had it in hand.  An answer that is lost or unreadable is no    *)
(* cause: it is logged as ambiguous and holds the next run.  A reply that   *)
(* breaks off is one: it is logged as failed, which holds nothing.          *)
SlotRepeatNeedsCause ==
    \A s \in Slots : received[s] > 1 => s \in asked \cup broken \cup died \cup overlap

(* A notice has one cause more: an answer that was lost is followed by      *)
(* another attempt, within the call and in the next check, and one that was *)
(* unreadable in the next check.                                            *)
NoticeRepeatNeedsCause ==
    \A n \in Notices : received[n] > 1 => n \in doubt \cup broken \cup died \cup overlap

(* A slot nobody has in hand, received by the operator, is logged as sent   *)
(* or as ambiguous, so that the next run skips or holds it, unless its      *)
(* reply broke off or its process died; and what is logged as sent was      *)
(* received.                                                                *)
LogMatchesReceipts ==
    \A m \in Messages :
        /\ Sent(m) => received[m] > 0
        /\ m \in Slots /\ received[m] > 0 /\ (\A p \in Procs : job[p] # m)
           => m \in broken \cup died \/ \E r \in log[m] : r.status \in {"sent", "ambiguous"}

(* While the market hours last, every notice is logged as sent in the end,  *)
(* unless a page of newer ones pushed it out of the search: neither a       *)
(* failing notice before it nor a crash withholds it.  Failures are         *)
(* bounded: a notice that is refused at every check does withhold those     *)
(* behind it.                                                               *)
EveryNoticeIsAlerted ==
    \A n \in Notices :
        n <= published /\ market = "open" ~>
            \/ Sent(n) \/ market = "after" \/ published >= n + Page

(* Doc: the worker "sends one operator alert per official acceptance        *)
(* number".                                                                 *)
OneAlertPerNumber == \A n \in Notices : received[n] <= 1
=============================================================================
