---------------------------- MODULE IntradayAlerts ----------------------------
(***************************************************************************)
(* Report collection and intraday alerts (stock_monitor/cli.py and         *)
(* db/repository.py).  A poll inserts the reports it fetched, queues the   *)
(* new ones as one batch per business date, rebuilds the daily summaries   *)
(* and, at a delivery slot, sends the pending batches of the day as one    *)
(* message.  A manual poll or process-intraday-alerts sends every pending  *)
(* batch in turn, and the latter may retry ambiguous ones after a review.  *)
(*                                                                         *)
(* Every SQLite transaction and every send is a step.  delivery_log rows,  *)
(* operation events and the paging position in the control file are left   *)
(* out; a batch always has reports, so the no-reports branch is too.       *)
(* Batches are listed by collection time and a random id: in any order.    *)
(* Reports stand for stocks: a message shows PageSize of them and stands   *)
(* for its whole batch, the rest is paged or cut.                          *)
(***************************************************************************)
EXTENDS Naturals, FiniteSets

CONSTANTS Reports,        \* identity keys
          DayOf,          \* business date of a report, [Reports -> 1..Days]
          Days,           \* bound: business dates
          Processes,      \* CLI invocations that can run at the same time
          PageSize,       \* notification_default_limit
          MaxPolls,       \* bound: invocations that collect reports
          MaxReviews,     \* bound: process-intraday-alerts --retry-ambiguous
          MaxLosses       \* bound: invocations killed or aborted, and accepted
                          \* messages whose reply breaks off, together

ASSUME IntradayAssumption ==
    /\ Days \in Nat \ {0} /\ DayOf \in [Reports -> 1..Days]
    /\ PageSize \in Nat
    /\ MaxPolls \in Nat /\ MaxReviews \in Nat /\ MaxLosses \in Nat

VARIABLES
    today,      \* the business date of the clock
    stored,     \* table reports
    status,     \* intraday_alert_batches.status
    members,    \* table intraday_alert_batch_reports
    summary,    \* table daily_stock_summaries: the reports a date's rows count
    proc,       \* the invocations
    accepted,   \* how often the chat received a message for a report's batch
    quiet,      \* reports stored by a poll that queues nothing
    polls, reviews, crashes,
    broken      \* messages the chat received though the reply broke off

queue == <<status, members>>
vars  == <<today, stored, queue, summary, proc, accepted, quiet, polls, reviews, crashes, broken>>

(* The batch a poll makes for a date. *)
Batches  == (1..MaxPolls) \X (1..Days)
Statuses == {"none", "pending", "sent", "failed", "ambiguous"}
Commands == {"slot", "between", "manual", "collect", "process", "review"}
Outcomes == {"sent", "failed", "ambiguous"}
(* An invocation: the number of its poll, the dates left to rebuild, the   *)
(* date and rows being replaced, the listed batches left, those of its     *)
(* last message that are still to be marked, and if that one was paged.    *)
Done == [pc |-> "done", cmd |-> "collect", day |-> 1, number |-> 1, fetched |-> {},
         dates |-> {}, date |-> 1, rows |-> {}, todo |-> {}, left |-> {},
         outcome |-> "sent", paged |-> FALSE]

OfDay(R, d) == {r \in R : DayOf[r] = d}

Init ==
    /\ today = 1 /\ stored = {}
    /\ status = [b \in Batches |-> "none"] /\ members = [b \in Batches |-> {}]
    /\ summary = [d \in 1..Days |-> {}]
    /\ proc = [p \in Processes |-> Done]
    /\ accepted = [r \in Reports |-> 0]
    /\ quiet = {} /\ polls = 0 /\ reviews = 0 /\ crashes = 0 /\ broken = 0

NewDay ==
    /\ today < Days
    /\ today' = today + 1
    /\ UNCHANGED <<stored, queue, summary, proc, accepted, quiet, polls, reviews, crashes, broken>>

(* A scheduled poll at a delivery slot or between two, a manual poll with  *)
(* or without alerts: some reports published up to now are fetched.        *)
Poll(p, cmd) ==
    /\ proc[p].pc = "done" /\ polls < MaxPolls
    /\ \E R \in SUBSET {r \in Reports : DayOf[r] <= today} \ {{}} :
          proc' = [proc EXCEPT ![p] = [Done EXCEPT !.pc = "insert", !.cmd = cmd, !.day = today,
                                           !.number = polls + 1, !.fetched = R]]
    /\ polls' = polls + 1
    /\ UNCHANGED <<today, stored, queue, summary, accepted, quiet, reviews, crashes, broken>>

(* process-intraday-alerts, with --retry-ambiguous after a review. *)
Process(p, cmd) ==
    /\ proc[p].pc = "done"
    /\ cmd = "review" => reviews < MaxReviews
    /\ reviews' = IF cmd = "review" THEN reviews + 1 ELSE reviews
    /\ proc' = [proc EXCEPT ![p] = [Done EXCEPT !.pc = "list", !.cmd = cmd, !.day = today]]
    /\ UNCHANGED <<today, stored, queue, summary, accepted, quiet, polls, crashes, broken>>

(* Mutation: reports already stored count as new. *)
Inserted_All(p) == proc[p].fetched

(* INSERT OR IGNORE tells the new reports from those already stored. *)
Inserted(p) == proc[p].fetched \ stored

(* The new reports of each date become a batch, if alerts are queued. *)
NewBatches(p) ==
    {b \in Batches : /\ proc[p].cmd # "collect" /\ b[1] = proc[p].number
                     /\ OfDay(Inserted(p), b[2]) # {}}

(* Mutation: only today is rebuilt. *)
Touched_Today(p) == {proc[p].day}

(* Every date among the fetched reports is rebuilt, new reports or not. *)
Touched(p) == {DayOf[r] : r \in proc[p].fetched}

(* insert_reports: reports and batches in one transaction. *)
Insert(p) ==
    /\ proc[p].pc = "insert"
    /\ stored' = stored \cup proc[p].fetched
    /\ status' = [b \in Batches |-> IF b \in NewBatches(p) THEN "pending" ELSE status[b]]
    /\ members' = [b \in Batches |-> IF b \in NewBatches(p) THEN OfDay(Inserted(p), b[2])
                                     ELSE members[b]]
    /\ quiet' = IF proc[p].cmd = "collect" THEN quiet \cup Inserted(p) ELSE quiet
    /\ proc' = [proc EXCEPT ![p].pc = "rebuild", ![p].fetched = {}, ![p].dates = Touched(p)]
    /\ UNCHANGED <<today, summary, accepted, polls, reviews, crashes, broken>>

(* rebuild_daily_summaries reads the date's reports, then replaces its     *)
(* rows in a transaction of its own.  The dates come in ascending order.   *)
Rebuild(p) ==
    /\ proc[p].pc = "rebuild"
    /\ \E d \in proc[p].dates :
          /\ \A e \in proc[p].dates : d <= e
          /\ proc' = [proc EXCEPT ![p].pc = "replace", ![p].rows = OfDay(stored, d),
                                  ![p].date = d, ![p].dates = @ \ {d}]
    /\ UNCHANGED <<today, stored, queue, summary, accepted, quiet, polls, reviews, crashes, broken>>

Replace(p) ==
    /\ proc[p].pc = "replace"
    /\ summary' = [summary EXCEPT ![proc[p].date] = proc[p].rows]
    /\ proc' = [proc EXCEPT ![p].pc = "rebuild", ![p].rows = {}, ![p].date = 1]
    /\ UNCHANGED <<today, stored, queue, accepted, quiet, polls, reviews, crashes, broken>>

Rebuilt(p) == proc[p].pc = "rebuild" /\ proc[p].dates = {}

(* Only a slot or a manual poll with alerts goes on to deliver. *)
EndPoll(p) ==
    /\ Rebuilt(p)
    /\ proc' = [proc EXCEPT ![p] =
                  IF @.cmd \in {"slot", "manual"} THEN [@ EXCEPT !.pc = "list"]
                  ELSE Done]
    /\ UNCHANGED <<today, stored, queue, summary, accepted, quiet, polls, reviews, crashes, broken>>

(* Mutation: ambiguous batches are listed without a review. *)
Listed_Ambiguous(p) ==
    {b \in Batches :
        /\ status[b] \in {"pending", "failed", "ambiguous"}
        /\ proc[p].cmd = "slot" => b[2] = proc[p].day}

(* list_pending_intraday_alert_batches; a slot takes those of its own day. *)
Listed(p) ==
    {b \in Batches :
        /\ \/ status[b] \in {"pending", "failed"}
           \/ proc[p].cmd = "review" /\ status[b] = "ambiguous"
        /\ proc[p].cmd = "slot" => b[2] = proc[p].day}

List(p) ==
    /\ proc[p].pc = "list"
    /\ proc' = [proc EXCEPT ![p] = IF Listed(p) = {} THEN Done
                                   ELSE [@ EXCEPT !.pc = "send", !.todo = Listed(p)]]
    /\ UNCHANGED <<today, stored, queue, summary, accepted, quiet, polls, reviews, crashes, broken>>

(* One message for all batches of a slot, or for one of the batches left. *)
Messages(p) == IF proc[p].cmd = "slot" THEN {proc[p].todo} ELSE {{b} : b \in proc[p].todo}

(* Mutation: only one batch of the message is marked. *)
Covered_One(M) == {CHOOSE b \in M : TRUE}

(* The batches the outcome of a message is recorded for. *)
Covered(M) == M

(* More stocks than a message shows: the rest waits for the reader. *)
Paged(M) == \E b \in M : Cardinality(members[b]) > PageSize

(* The chat received the message and the reply broke off: an IncompleteRead *)
(* is no OSError and has no `ambiguous`, so the batches are marked failed.  *)
Breaks(outcome, received) == outcome = "failed" /\ received

(* What the sender reports against whether the chat received the message. *)
Fits(outcome, received) ==
    \/ outcome = "sent" /\ received
    \/ outcome = "failed" /\ (received => crashes + broken < MaxLosses)
    \/ outcome = "ambiguous"

(* Bound: overlapping invocations resend without end, and a count that no  *)
(* invocation alone can reach grows no further.                            *)
MaxAccepted == 2 + MaxLosses + MaxReviews
Count(n) == IF n < MaxAccepted THEN n + 1 ELSE n

Send(p) ==
    /\ proc[p].pc = "send"
    /\ \E M \in Messages(p), outcome \in Outcomes, received \in BOOLEAN :
          /\ Fits(outcome, received)
          /\ accepted' = [r \in Reports |->
                            IF received /\ \E b \in M : r \in members[b]
                            THEN Count(accepted[r]) ELSE accepted[r]]
          /\ proc' = [proc EXCEPT ![p].pc = "mark", ![p].outcome = outcome,
                                  ![p].left = Covered(M), ![p].paged = Paged(M),
                                  ![p].todo = @ \ M]
          /\ broken' = IF Breaks(outcome, received) THEN broken + 1 ELSE broken
    /\ UNCHANGED <<today, stored, queue, summary, quiet, polls, reviews, crashes>>

(* Sent and ambiguous batches are marked in one transaction, failed ones   *)
(* one by one; no statement looks at the status it replaces.               *)
Together(p, b) == IF proc[p].outcome = "failed" THEN {b} ELSE proc[p].left

Verdict(p) == proc[p].outcome

Mark(p) ==
    /\ proc[p].pc = "mark"
    /\ \E b \in proc[p].left :
          /\ status' = [c \in Batches |-> IF c \in Together(p, b) THEN Verdict(p) ELSE status[c]]
          /\ proc' = [proc EXCEPT ![p].left = @ \ Together(p, b)]
    /\ UNCHANGED <<today, stored, members, summary, accepted, quiet, polls, reviews, crashes, broken>>

(* Mutation: a failed batch ends the run. *)
GoesOn_OnlyAfterSent(p) ==
    /\ proc[p].cmd # "slot" /\ proc[p].todo # {}
    /\ proc[p].outcome = "sent" /\ ~proc[p].paged

(* A slot is over after its message.  Otherwise a failed batch is passed   *)
(* over, an ambiguous one ends the run, and so does one that needs paging. *)
GoesOn(p) ==
    /\ proc[p].cmd # "slot" /\ proc[p].todo # {}
    /\ \/ proc[p].outcome = "failed"
       \/ proc[p].outcome = "sent" /\ ~proc[p].paged

Continue(p) ==
    /\ proc[p].pc = "mark" /\ proc[p].left = {}
    /\ proc' = [proc EXCEPT ![p] = IF GoesOn(p) THEN [@ EXCEPT !.pc = "send"]
                                   ELSE Done]
    /\ UNCHANGED <<today, stored, queue, summary, accepted, quiet, polls, reviews, crashes, broken>>

(* The process is killed, or fails between its transactions. *)
Crash(p) ==
    /\ proc[p].pc # "done" /\ crashes + broken < MaxLosses
    /\ crashes' = crashes + 1
    /\ proc' = [proc EXCEPT ![p] = Done]
    /\ UNCHANGED <<today, stored, queue, summary, accepted, quiet, polls, reviews, broken>>

-------------------------------------------------------------------------------
Step(p) ==
    \/ Insert(p) \/ Rebuild(p) \/ Replace(p) \/ EndPoll(p)
    \/ List(p) \/ Send(p) \/ Mark(p) \/ Continue(p)

Next ==
    \/ NewDay
    \/ \E p \in Processes :
          \/ \E cmd \in {"slot", "between", "manual", "collect"} : Poll(p, cmd)
          \/ \E cmd \in {"process", "review"} : Process(p, cmd)
          \/ Step(p) \/ Crash(p)

(* A started invocation goes on, and the operator keeps running the        *)
(* recovery command process-intraday-alerts (operating-guide.md:341).      *)
Fairness ==
    \A p \in Processes : WF_vars(Step(p)) /\ SF_vars(Process(p, "process"))

Spec     == Init /\ [][Next]_vars
FairSpec == Spec /\ Fairness

-------------------------------------------------------------------------------
Pcs   == {"done", "insert", "rebuild", "replace", "list", "send", "mark"}
Procs == [pc: Pcs, cmd: Commands, day: 1..Days, number: Nat, fetched: SUBSET Reports,
          dates: SUBSET (1..Days), date: 1..Days, rows: SUBSET Reports,
          todo: SUBSET Batches, left: SUBSET Batches, outcome: Outcomes, paged: BOOLEAN]

(* Every variable has its type, a batch exists when it has reports, a      *)
(* process lists batches that exist, and no bound is exceeded.             *)
TypeOK ==
    /\ today \in 1..Days /\ stored \subseteq Reports /\ quiet \subseteq stored
    /\ status \in [Batches -> Statuses] /\ members \in [Batches -> SUBSET Reports]
    /\ \A b \in Batches : status[b] = "none" <=> members[b] = {}
    /\ \A p \in Processes : \A b \in proc[p].todo \cup proc[p].left : status[b] # "none"
    /\ summary \in [1..Days -> SUBSET Reports]
    /\ proc \in [Processes -> Procs]
    /\ accepted \in [Reports -> Nat]
    /\ polls \in 0..MaxPolls /\ reviews \in 0..MaxReviews
    /\ crashes \in Nat /\ broken \in Nat /\ crashes + broken <= MaxLosses

(* Every report stored by a poll that alerts is in one batch of its own    *)
(* date, however polls overlap and wherever they die: none is forgotten    *)
(* and none is queued twice.                                               *)
QueuedOnce ==
    /\ \A r \in stored \ quiet : \E b \in Batches : r \in members[b]
    /\ \A b, c \in Batches : members[b] \cap members[c] # {} => b = c
    /\ \A b \in Batches : \A r \in members[b] : DayOf[r] = b[2] /\ r \in stored \ quiet

(* A batch marked sent was received by the chat, all its reports. *)
SentWasReceived ==
    \A b \in Batches : status[b] = "sent" => \A r \in members[b] : accepted[r] > 0

(* One invocation at a time: a report is received again only because a     *)
(* process died between its send and its mark, the reply to a message that *)
(* arrived broke off, or an operator asked for the retry of an ambiguous   *)
(* batch.                                                                  *)
DuplicateNeedsCrash ==
    \A r \in Reports : accepted[r] <= 1 + crashes + reviews + broken

(* One invocation at a time: the rows of a date count every stored report, *)
(* except while its poll has still to rebuild them, or died before; a      *)
(* failed delivery comes after the rebuild and does not leave them stale.  *)
SummaryIsCurrent ==
    crashes = 0 =>
        \A d \in 1..Days :
            \/ summary[d] = OfDay(stored, d)
            \/ \E p \in Processes : \/ proc[p].pc = "rebuild" /\ d \in proc[p].dates
                                    \/ proc[p].pc = "replace" /\ d \in proc[p].dates \cup {proc[p].date}

(* Doc: an ambiguous outcome is "excluded from automatic retry"; only the  *)
(* reviewed command sends an ambiguous batch.  It holds for one invocation *)
(* at a time and fails when two listed the same batch.                     *)
HeldUntilReview ==
    [][\A p \in Processes :
          (/\ proc[p].pc = "send" /\ proc'[p].pc = "mark"
           /\ \E b \in proc'[p].left : status[b] = "ambiguous")
          => proc[p].cmd = "review"]_vars

(* A review has listed b, or will, and has not sent it yet. *)
Reviewing(b) ==
    \E p \in Processes : /\ proc[p].cmd = "review"
                         /\ proc[p].pc = "list" \/ b \in proc[p].todo

(* A report as HeldDelivery sees it: held by an unknown outcome of its     *)
(* batch, unless a review is about to send it or has just sent it.         *)
BatchOf(r) == CHOOSE b \in Batches : r \in members[b]
InHand(b)  == Reviewing(b) \/ \E p \in Processes : b \in proc[p].left

StandingOf(b) ==
    CASE status[b] = "sent" -> "sent"
      [] status[b] = "ambiguous" -> IF InHand(b) THEN "open" ELSE "held"
      [] OTHER -> "open"

standing == [r \in Reports |-> IF \E b \in Batches : r \in members[b]
                               THEN StandingOf(BatchOf(r)) ELSE "absent"]
flying   == {r \in Reports : \E p \in Processes : /\ proc[p].outcome # "failed"
                                                  /\ \E b \in proc[p].left : r \in members[b]}
excuses  == crashes + reviews + broken
Ledger   == INSTANCE HeldDelivery WITH Items <- Reports, received <- accepted

(* One invocation at a time, every step is one of HeldDelivery, or none: a *)
(* report is sent again after a failure or for an excuse, which is a crash,*)
(* a review or a reply that broke off, and one whose outcome is unknown is *)
(* held until a review, again and again.                                   *)
ImplementsHeldDelivery == Ledger!Spec

(* With the recovery command repeated, no batch stays untried: a batch     *)
(* that is refused every time, or answered ambiguously, holds up nobody.   *)
NoBatchIsStarved ==
    \A b \in Batches : status[b] = "pending" ~> status[b] # "pending"

-------------------------------------------------------------------------------
(* What makes the safety properties inductive.  However invocations        *)
(* overlap: polls have numbers of their own, and the batches of a message  *)
(* reported as sent are in the chat.                                       *)
PollsAreNumbered ==
    /\ \A p \in Processes : proc[p].pc = "insert" =>
          /\ proc[p].number \in 1..polls
          /\ \A b \in Batches : b[1] = proc[p].number => members[b] = {}
    /\ \A p, q \in Processes :
          proc[p].pc = "insert" /\ proc[q].pc = "insert" /\ proc[p].number = proc[q].number
          => p = q
    /\ \A b \in Batches : members[b] # {} => b[1] <= polls

MessagesWereReceived ==
    \A p \in Processes : proc[p].outcome = "sent" =>
        \A b \in proc[p].left : \A r \in members[b] : accepted[r] > 0

QueueInv == QueuedOnce /\ SentWasReceived /\ PollsAreNumbered /\ MessagesWereReceived

(* One invocation at a time: the batches it has listed are as they were,   *)
(* the rows it has read are current, and every acceptance of a report is   *)
(* paid for by its batch's mark, a crash, a review or a broken reply.      *)
TodoIsCurrent ==
    \A p \in Processes :
        /\ proc[p].pc \in {"send", "mark"} => \A b \in proc[p].todo \cup proc[p].left :
              \/ status[b] \in {"pending", "failed"}
              \/ proc[p].cmd = "review" /\ status[b] = "ambiguous"
        /\ proc[p].todo \cap proc[p].left = {}
        /\ proc[p].pc \notin {"send", "mark"} => proc[p].todo = {}
        /\ proc[p].pc # "mark" => proc[p].left = {}

RowsAreCurrent ==
    \A p \in Processes :
        proc[p].pc = "replace" => proc[p].rows = OfDay(stored, proc[p].date)

Paid(b) ==
    IF \E p \in Processes : b \in proc[p].left
    THEN \E p \in Processes : b \in proc[p].left /\ proc[p].outcome # "failed"
    ELSE status[b] \in {"sent", "ambiguous"}

One(condition) == IF condition THEN 1 ELSE 0

AcceptedIsPaid ==
    /\ \A b \in Batches : \A r \in members[b] :
          accepted[r] + One(Reviewing(b)) <= crashes + reviews + broken + One(Paid(b))
    /\ \A r \in Reports : accepted[r] = 0 \/ \E b \in Batches : r \in members[b]

SerialInv == TodoIsCurrent /\ RowsAreCurrent /\ AcceptedIsPaid /\ SummaryIsCurrent
===============================================================================
