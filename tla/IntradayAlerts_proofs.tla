------------------------ MODULE IntradayAlerts_proofs ------------------------
(* Proofs about IntradayAlerts for every number of reports, dates, polls,   *)
(* reviews, crashes and broken replies: what holds however invocations      *)
(* overlap, and what holds for one invocation at a time.                    *)
EXTENDS IntradayAlerts, TLAPS

(* The records of the invocations: what each step makes of its own one.     *)
LEMMA DoneIsTyped == Done \in Procs
  BY IntradayAssumption DEF Done, Procs, Pcs, Commands, Outcomes

LEMMA ProcIsTyped ==
  ASSUME TypeOK, NEW p \in Processes
  PROVE  /\ proc[p] \in Procs
         /\ proc[p].todo \subseteq Batches /\ proc[p].left \subseteq Batches
         /\ proc[p].fetched \subseteq Reports /\ proc[p].rows \subseteq Reports
         /\ proc[p].dates \subseteq 1..Days /\ proc[p].date \in 1..Days
         /\ proc[p].outcome \in Outcomes /\ proc[p].number \in Nat
         /\ proc[p].paged \in BOOLEAN /\ proc[p].day \in 1..Days
         /\ \A b \in proc[p].todo \cup proc[p].left : status[b] # "none"
<1>1. proc[p] \in Procs
  BY DEF TypeOK
<1> QED
  BY <1>1 DEF Procs, TypeOK

LEMMA ProcUpdate ==
  ASSUME TypeOK, NEW p \in Processes, NEW v \in Procs, proc' = [proc EXCEPT ![p] = v]
  PROVE  /\ proc' \in [Processes -> Procs]
         /\ proc'[p] = v
         /\ \A q \in Processes : q # p => proc'[q] = proc[q]
  BY DEF TypeOK

LEMMA AfterPoll ==
  ASSUME TypeOK, NEW p \in Processes, NEW cmd \in Commands, Poll(p, cmd)
  PROVE  /\ proc' \in [Processes -> Procs]
         /\ \A q \in Processes : q # p => proc'[q] = proc[q]
         /\ proc'[p].pc = "insert" /\ proc'[p].number = polls + 1 /\ proc'[p].cmd = cmd
         /\ proc'[p].todo = {} /\ proc'[p].left = {} /\ proc'[p].outcome = "sent"
<1>1. PICK R \in SUBSET Reports :
         proc' = [proc EXCEPT ![p] = [Done EXCEPT !.pc = "insert", !.cmd = cmd, !.day = today,
                                                  !.number = polls + 1, !.fetched = R]]
  BY DEF Poll
<1>2. today \in 1..Days /\ polls + 1 \in Nat /\ "insert" \in Pcs
  BY IntradayAssumption DEF TypeOK, Pcs
<1>3. [Done EXCEPT !.pc = "insert", !.cmd = cmd, !.day = today,
                   !.number = polls + 1, !.fetched = R] \in Procs
  BY <1>2, DoneIsTyped DEF Procs
<1> QED
  BY <1>1, <1>3, ProcUpdate DEF Done

LEMMA AfterProcess ==
  ASSUME TypeOK, NEW p \in Processes, NEW cmd \in Commands, Process(p, cmd)
  PROVE  /\ proc' \in [Processes -> Procs]
         /\ \A q \in Processes : q # p => proc'[q] = proc[q]
         /\ proc'[p].pc = "list" /\ proc'[p].cmd = cmd
         /\ proc'[p].todo = {} /\ proc'[p].left = {} /\ proc'[p].outcome = "sent"
<1>1. today \in 1..Days /\ "list" \in Pcs
  BY DEF TypeOK, Pcs
<1>2. [Done EXCEPT !.pc = "list", !.cmd = cmd, !.day = today] \in Procs
  BY <1>1, DoneIsTyped DEF Procs
<1> QED
  BY <1>2, ProcUpdate DEF Process, Done

LEMMA AfterInsert ==
  ASSUME TypeOK, NEW p \in Processes, Insert(p)
  PROVE  /\ proc' \in [Processes -> Procs]
         /\ \A q \in Processes : q # p => proc'[q] = proc[q]
         /\ proc[p].pc = "insert" /\ proc'[p].pc = "rebuild" /\ proc'[p].cmd = proc[p].cmd
         /\ proc'[p].dates = Touched(p) /\ proc'[p].outcome = proc[p].outcome
         /\ proc'[p].todo = proc[p].todo /\ proc'[p].left = proc[p].left
<1>1. Touched(p) \subseteq 1..Days
  BY ProcIsTyped, IntradayAssumption DEF Touched
<1>2. "rebuild" \in Pcs
  BY DEF Pcs
<1>3. [proc[p] EXCEPT !.pc = "rebuild", !.fetched = {}, !.dates = Touched(p)] \in Procs
  BY <1>1, <1>2, ProcIsTyped DEF Procs
<1>4. proc' = [proc EXCEPT ![p] = [proc[p] EXCEPT !.pc = "rebuild", !.fetched = {}, !.dates = Touched(p)]]
  BY DEF Insert, TypeOK
<1>5. PICK v : v = [proc[p] EXCEPT !.pc = "rebuild", !.fetched = {}, !.dates = Touched(p)]
  OBVIOUS
<1>6. /\ v.pc = "rebuild" /\ v.cmd = proc[p].cmd /\ v.todo = proc[p].todo
      /\ v.left = proc[p].left /\ v.outcome = proc[p].outcome /\ v.dates = Touched(p)
  BY <1>5, ProcIsTyped DEF Procs
<1> QED
  BY <1>3, <1>4, <1>5, <1>6, ProcUpdate DEF Insert

LEMMA AfterRebuild ==
  ASSUME TypeOK, NEW p \in Processes, Rebuild(p)
  PROVE  /\ proc' \in [Processes -> Procs]
         /\ \A q \in Processes : q # p => proc'[q] = proc[q]
         /\ proc[p].pc = "rebuild" /\ proc'[p].pc = "replace" /\ proc'[p].cmd = proc[p].cmd
         /\ proc'[p].todo = proc[p].todo /\ proc'[p].left = proc[p].left
         /\ proc'[p].outcome = proc[p].outcome
         /\ proc'[p].dates \cup {proc'[p].date} = proc[p].dates
         /\ proc'[p].rows = OfDay(stored, proc'[p].date)
<1>1. PICK d \in proc[p].dates :
        proc' = [proc EXCEPT ![p].pc = "replace", ![p].rows = OfDay(stored, d),
                             ![p].date = d, ![p].dates = @ \ {d}]
  BY DEF Rebuild
<1>2. d \in 1..Days /\ OfDay(stored, d) \in SUBSET Reports /\ "replace" \in Pcs
  BY ProcIsTyped DEF OfDay, TypeOK, Pcs
<1>3. PICK v : v = [proc[p] EXCEPT !.pc = "replace", !.rows = OfDay(stored, d),
                                   !.date = d, !.dates = @ \ {d}]
  OBVIOUS
<1>4. proc[p] \in Procs
  BY ProcIsTyped
<1>5. v \in Procs
  BY <1>2, <1>3, <1>4 DEF Procs
<1>6. proc' = [proc EXCEPT ![p] = v]
  BY <1>1, <1>3 DEF TypeOK
<1>7. /\ v.pc = "replace" /\ v.cmd = proc[p].cmd /\ v.todo = proc[p].todo
      /\ v.left = proc[p].left /\ v.outcome = proc[p].outcome
      /\ v.dates = proc[p].dates \ {d} /\ v.date = d /\ v.rows = OfDay(stored, d)
  BY <1>3, <1>4 DEF Procs
<1>8. v.dates \cup {v.date} = proc[p].dates
  BY <1>7
<1>9. proc'[p] = v
  BY <1>5, <1>6, ProcUpdate
<1> QED
  BY <1>5, <1>6, <1>7, <1>8, <1>9, ProcUpdate DEF Rebuild

LEMMA AfterReplace ==
  ASSUME TypeOK, NEW p \in Processes, Replace(p)
  PROVE  /\ proc' \in [Processes -> Procs]
         /\ \A q \in Processes : q # p => proc'[q] = proc[q]
         /\ proc[p].pc = "replace" /\ proc'[p].pc = "rebuild" /\ proc'[p].cmd = proc[p].cmd
         /\ proc'[p].todo = proc[p].todo /\ proc'[p].left = proc[p].left
         /\ proc'[p].outcome = proc[p].outcome /\ proc'[p].dates = proc[p].dates
<1>1. PICK v : v = [proc[p] EXCEPT !.pc = "rebuild", !.rows = {}, !.date = 1]
  OBVIOUS
<1>2. proc[p] \in Procs
  BY ProcIsTyped
<1>3. "rebuild" \in Pcs /\ 1 \in 1..Days
  BY IntradayAssumption DEF Pcs
<1>4. v \in Procs
  BY <1>1, <1>2, <1>3 DEF Procs
<1>5. proc' = [proc EXCEPT ![p] = v]
  BY <1>1 DEF Replace, TypeOK
<1>6. /\ v.pc = "rebuild" /\ v.cmd = proc[p].cmd /\ v.todo = proc[p].todo
      /\ v.left = proc[p].left /\ v.outcome = proc[p].outcome /\ v.dates = proc[p].dates
  BY <1>1, <1>2 DEF Procs
<1> QED
  BY <1>4, <1>5, <1>6, ProcUpdate DEF Replace

LEMMA AfterEndPoll ==
  ASSUME TypeOK, NEW p \in Processes, EndPoll(p)
  PROVE  /\ proc' \in [Processes -> Procs]
         /\ \A q \in Processes : q # p => proc'[q] = proc[q]
         /\ proc[p].pc = "rebuild" /\ proc[p].dates = {}
         /\ \/ proc'[p] = Done
            \/ /\ proc'[p].pc = "list" /\ proc'[p].cmd = proc[p].cmd
               /\ proc[p].cmd \in {"slot", "manual"}
               /\ proc'[p].todo = proc[p].todo /\ proc'[p].left = proc[p].left
               /\ proc'[p].outcome = proc[p].outcome
<1>1. PICK v : v = [proc[p] EXCEPT !.pc = "list"]
  OBVIOUS
<1>2. proc[p] \in Procs /\ "list" \in Pcs
  BY ProcIsTyped DEF Pcs
<1>3. v \in Procs
  BY <1>1, <1>2 DEF Procs
<1>4. /\ v.pc = "list" /\ v.cmd = proc[p].cmd /\ v.todo = proc[p].todo
      /\ v.left = proc[p].left /\ v.outcome = proc[p].outcome
  BY <1>1, <1>2 DEF Procs
<1>5. proc' = [proc EXCEPT ![p] = IF proc[p].cmd \in {"slot", "manual"} THEN v ELSE Done]
  BY <1>1 DEF EndPoll, TypeOK
<1> QED
  BY <1>3, <1>4, <1>5, DoneIsTyped, ProcUpdate DEF EndPoll, Rebuilt

LEMMA AfterList ==
  ASSUME TypeOK, NEW p \in Processes, List(p)
  PROVE  /\ proc' \in [Processes -> Procs]
         /\ \A q \in Processes : q # p => proc'[q] = proc[q]
         /\ proc[p].pc = "list"
         /\ \/ proc'[p] = Done /\ Listed(p) = {}
            \/ /\ proc'[p].pc = "send" /\ proc'[p].cmd = proc[p].cmd
               /\ proc'[p].todo = Listed(p) /\ proc'[p].left = proc[p].left
               /\ proc'[p].outcome = proc[p].outcome
<1>1. PICK v : v = [proc[p] EXCEPT !.pc = "send", !.todo = Listed(p)]
  OBVIOUS
<1>2. proc[p] \in Procs /\ "send" \in Pcs /\ Listed(p) \subseteq Batches
  BY ProcIsTyped DEF Pcs, Listed
<1>3. v \in Procs
  BY <1>1, <1>2 DEF Procs
<1>4. /\ v.pc = "send" /\ v.cmd = proc[p].cmd /\ v.todo = Listed(p)
      /\ v.left = proc[p].left /\ v.outcome = proc[p].outcome
  BY <1>1, <1>2 DEF Procs
<1>5. proc' = [proc EXCEPT ![p] = IF Listed(p) = {} THEN Done ELSE v]
  BY <1>1 DEF List, TypeOK
<1> QED
  BY <1>3, <1>4, <1>5, DoneIsTyped, ProcUpdate DEF List

LEMMA AfterSend ==
  ASSUME TypeOK, NEW p \in Processes, Send(p)
  PROVE  \E M \in Messages(p), outcome \in Outcomes, received \in BOOLEAN :
         /\ Fits(outcome, received)
         /\ accepted' = [r \in Reports |-> IF received /\ \E b \in M : r \in members[b]
                                           THEN Count(accepted[r]) ELSE accepted[r]]
         /\ broken' = IF Breaks(outcome, received) THEN broken + 1 ELSE broken
         /\ proc' \in [Processes -> Procs]
         /\ \A q \in Processes : q # p => proc'[q] = proc[q]
         /\ proc[p].pc = "send" /\ proc'[p].pc = "mark" /\ proc'[p].cmd = proc[p].cmd
         /\ M \subseteq proc[p].todo
         /\ proc'[p].todo = proc[p].todo \ M /\ proc'[p].left = M
         /\ proc'[p].outcome = outcome
<1>1. PICK M \in Messages(p), outcome \in Outcomes, received \in BOOLEAN :
        /\ Fits(outcome, received)
        /\ accepted' = [r \in Reports |-> IF received /\ \E b \in M : r \in members[b]
                                          THEN Count(accepted[r]) ELSE accepted[r]]
        /\ broken' = IF Breaks(outcome, received) THEN broken + 1 ELSE broken
        /\ proc' = [proc EXCEPT ![p].pc = "mark", ![p].outcome = outcome, ![p].left = Covered(M),
                                ![p].paged = Paged(M), ![p].todo = @ \ M]
  BY DEF Send
<1>2. M \subseteq proc[p].todo
  BY DEF Messages
<1>3. PICK v : v = [proc[p] EXCEPT !.pc = "mark", !.outcome = outcome, !.left = M,
                                   !.paged = Paged(M), !.todo = @ \ M]
  OBVIOUS
<1>4. proc[p] \in Procs /\ "mark" \in Pcs /\ M \subseteq Batches /\ Paged(M) \in BOOLEAN
  BY <1>2, ProcIsTyped DEF Pcs, Paged
<1>5. v \in Procs
  BY <1>3, <1>4 DEF Procs
<1>6. /\ v.pc = "mark" /\ v.cmd = proc[p].cmd /\ v.todo = proc[p].todo \ M
      /\ v.left = M /\ v.outcome = outcome
  BY <1>3, <1>4 DEF Procs
<1>7. proc' = [proc EXCEPT ![p] = v]
  BY <1>1, <1>3 DEF TypeOK, Covered
<1>8. /\ proc' \in [Processes -> Procs] /\ proc'[p] = v
      /\ \A q \in Processes : q # p => proc'[q] = proc[q]
  BY <1>5, <1>7, ProcUpdate
<1>9. proc[p].pc = "send"
  BY DEF Send
<1>10. /\ proc'[p].pc = "mark" /\ proc'[p].cmd = proc[p].cmd
       /\ proc'[p].todo = proc[p].todo \ M /\ proc'[p].left = M
       /\ proc'[p].outcome = outcome
  BY <1>6, <1>8
<1>11. WITNESS M \in Messages(p), outcome \in Outcomes, received \in BOOLEAN
<1> QED
  BY <1>1, <1>2, <1>8, <1>9, <1>10

LEMMA AfterMark ==
  ASSUME TypeOK, NEW p \in Processes, Mark(p)
  PROVE  \E M \in SUBSET proc[p].left :
         /\ status' = [c \in Batches |-> IF c \in M THEN proc[p].outcome ELSE status[c]]
         /\ proc' \in [Processes -> Procs]
         /\ \A q \in Processes : q # p => proc'[q] = proc[q]
         /\ proc[p].pc = "mark" /\ proc'[p].pc = "mark" /\ proc'[p].cmd = proc[p].cmd
         /\ proc'[p].todo = proc[p].todo /\ proc'[p].left = proc[p].left \ M
         /\ proc'[p].outcome = proc[p].outcome
<1>1. PICK b \in proc[p].left :
        /\ status' = [c \in Batches |-> IF c \in Together(p, b) THEN Verdict(p) ELSE status[c]]
        /\ proc' = [proc EXCEPT ![p].left = @ \ Together(p, b)]
  BY DEF Mark
<1>2. PICK M : M = Together(p, b)
  OBVIOUS
<1>3. M \subseteq proc[p].left
  BY <1>2 DEF Together
<1>4. PICK v : v = [proc[p] EXCEPT !.left = @ \ M]
  OBVIOUS
<1>5. proc[p] \in Procs /\ proc[p].left \subseteq Batches
  BY ProcIsTyped
<1>6. v \in Procs
  BY <1>4, <1>5 DEF Procs
<1>7. /\ v.pc = proc[p].pc /\ v.cmd = proc[p].cmd /\ v.todo = proc[p].todo
      /\ v.left = proc[p].left \ M /\ v.outcome = proc[p].outcome
  BY <1>4, <1>5 DEF Procs
<1>8. proc' = [proc EXCEPT ![p] = v]
  BY <1>1, <1>2, <1>4 DEF TypeOK
<1>9. /\ proc' \in [Processes -> Procs] /\ proc'[p] = v
      /\ \A q \in Processes : q # p => proc'[q] = proc[q]
  BY <1>6, <1>8, ProcUpdate
<1>10. proc[p].pc = "mark"
  BY DEF Mark
<1>11. status' = [c \in Batches |-> IF c \in M THEN proc[p].outcome ELSE status[c]]
  BY <1>1, <1>2, Zenon DEF Verdict
<1> QED
  BY <1>3, <1>7, <1>9, <1>10, <1>11

LEMMA AfterContinue ==
  ASSUME TypeOK, NEW p \in Processes, Continue(p)
  PROVE  /\ proc' \in [Processes -> Procs]
         /\ \A q \in Processes : q # p => proc'[q] = proc[q]
         /\ proc[p].pc = "mark" /\ proc[p].left = {}
         /\ \/ proc'[p] = Done
            \/ /\ proc'[p].pc = "send" /\ proc'[p].cmd = proc[p].cmd
               /\ proc'[p].todo = proc[p].todo /\ proc'[p].left = {}
               /\ proc'[p].outcome = proc[p].outcome
<1>1. PICK v : v = [proc[p] EXCEPT !.pc = "send"]
  OBVIOUS
<1>2. proc[p] \in Procs /\ "send" \in Pcs
  BY ProcIsTyped DEF Pcs
<1>3. v \in Procs
  BY <1>1, <1>2 DEF Procs
<1>4. /\ v.pc = "send" /\ v.cmd = proc[p].cmd /\ v.todo = proc[p].todo
      /\ v.left = proc[p].left /\ v.outcome = proc[p].outcome
  BY <1>1, <1>2 DEF Procs
<1>5. proc' = [proc EXCEPT ![p] = IF GoesOn(p) THEN v ELSE Done]
  BY <1>1 DEF Continue, TypeOK
<1> QED
  BY <1>3, <1>4, <1>5, DoneIsTyped, ProcUpdate DEF Continue

LEMMA AfterCrash ==
  ASSUME TypeOK, NEW p \in Processes, Crash(p)
  PROVE  /\ proc' \in [Processes -> Procs] /\ proc'[p] = Done
         /\ \A q \in Processes : q # p => proc'[q] = proc[q]
  BY DoneIsTyped, ProcUpdate DEF Crash

(* Type correctness.  A batch once queued is never taken back, so those an  *)
(* invocation holds stay in the queue whatever the others do.               *)
LEMMA HeldStayQueued ==
  ASSUME TypeOK, NEW p \in Processes,
         \A q \in Processes : q # p => proc'[q] = proc[q],
         \A b \in Batches : status[b] # "none" => status'[b] # "none",
         \A b \in proc'[p].todo \cup proc'[p].left : status'[b] # "none"
  PROVE  \A q \in Processes : \A b \in proc'[q].todo \cup proc'[q].left : status'[b] # "none"
<1> SUFFICES ASSUME NEW q \in Processes, NEW b \in proc'[q].todo \cup proc'[q].left
             PROVE  status'[b] # "none"
  OBVIOUS
<1>1. CASE q = p
  BY <1>1
<1>2. CASE q # p
  <2>1. proc'[q] = proc[q]
    BY <1>2
  <2>2. b \in proc[q].todo \cup proc[q].left
    BY <2>1
  <2>3. b \in Batches /\ status[b] # "none"
    BY <2>2, ProcIsTyped
  <2> QED
    BY <2>3
<1> QED
  BY <1>1, <1>2

LEMMA PollType ==
  ASSUME TypeOK, NEW p \in Processes, NEW cmd \in Commands, Poll(p, cmd)
  PROVE  TypeOK'
<1>1. /\ UNCHANGED <<today, stored, status, members, summary, accepted, quiet, reviews, crashes, broken>>
      /\ polls' = polls + 1 /\ polls < MaxPolls
  BY DEF Poll, queue
<1>2. polls' \in 0..MaxPolls
  BY <1>1, IntradayAssumption DEF TypeOK
<1>3. proc' \in [Processes -> Procs]
  BY AfterPoll
<1>4. \A q \in Processes : \A b \in proc'[q].todo \cup proc'[q].left : status'[b] # "none"
  BY <1>1, AfterPoll, HeldStayQueued
<1> QED
  BY <1>1, <1>2, <1>3, <1>4 DEF TypeOK

LEMMA ProcessType ==
  ASSUME TypeOK, NEW p \in Processes, NEW cmd \in Commands, Process(p, cmd)
  PROVE  TypeOK'
<1>1. UNCHANGED <<today, stored, status, members, summary, accepted, quiet, polls, crashes, broken>>
  BY DEF Process, queue
<1>2. reviews' \in 0..MaxReviews
  BY IntradayAssumption DEF TypeOK, Process
<1>3. proc' \in [Processes -> Procs]
  BY AfterProcess
<1>4. \A q \in Processes : \A b \in proc'[q].todo \cup proc'[q].left : status'[b] # "none"
  BY <1>1, AfterProcess, HeldStayQueued
<1> QED
  BY <1>1, <1>2, <1>3, <1>4 DEF TypeOK

LEMMA InsertType ==
  ASSUME TypeOK, NEW p \in Processes, Insert(p)
  PROVE  TypeOK'
<1>1. UNCHANGED <<today, summary, accepted, polls, reviews, crashes, broken>>
  BY DEF Insert
<1>2. proc[p].fetched \subseteq Reports /\ Inserted(p) \subseteq Reports
  BY ProcIsTyped DEF Inserted
<1>3. stored' \subseteq Reports /\ quiet' \subseteq stored'
  BY <1>2 DEF Insert, Inserted, TypeOK
<1>4. status' \in [Batches -> Statuses]
  BY DEF Insert, TypeOK, Statuses
<1>5. members' \in [Batches -> SUBSET Reports]
  BY <1>2 DEF Insert, TypeOK, OfDay
<1>6. \A b \in Batches : status'[b] = "none" <=> members'[b] = {}
  BY DEF Insert, TypeOK, NewBatches
<1>7. \A b \in Batches : status[b] # "none" => status'[b] # "none"
  BY DEF Insert
<1>8. proc' \in [Processes -> Procs]
  BY AfterInsert
<1>9. \A b \in proc'[p].todo \cup proc'[p].left : status'[b] # "none"
  BY <1>7, AfterInsert, ProcIsTyped
<1>10. \A q \in Processes : \A b \in proc'[q].todo \cup proc'[q].left : status'[b] # "none"
  BY <1>7, <1>9, AfterInsert, HeldStayQueued
<1> QED
  BY <1>1, <1>3, <1>4, <1>5, <1>6, <1>8, <1>10 DEF TypeOK

LEMMA RebuildType ==
  ASSUME TypeOK, NEW p \in Processes, Rebuild(p)
  PROVE  TypeOK'
<1>1. UNCHANGED <<today, stored, status, members, summary, accepted, quiet, polls, reviews, crashes, broken>>
  BY DEF Rebuild, queue
<1>2. \A q \in Processes : \A b \in proc'[q].todo \cup proc'[q].left : status'[b] # "none"
  BY <1>1, AfterRebuild, ProcIsTyped, HeldStayQueued
<1>3. proc' \in [Processes -> Procs]
  BY AfterRebuild
<1> QED
  BY <1>1, <1>2, <1>3 DEF TypeOK

LEMMA ReplaceType ==
  ASSUME TypeOK, NEW p \in Processes, Replace(p)
  PROVE  TypeOK'
<1>1. UNCHANGED <<today, stored, status, members, accepted, quiet, polls, reviews, crashes, broken>>
  BY DEF Replace, queue
<1>2. \A q \in Processes : \A b \in proc'[q].todo \cup proc'[q].left : status'[b] # "none"
  BY <1>1, AfterReplace, ProcIsTyped, HeldStayQueued
<1>3. proc' \in [Processes -> Procs]
  BY AfterReplace
<1>4. summary' \in [1..Days -> SUBSET Reports]
  BY ProcIsTyped DEF Replace, TypeOK
<1> QED
  BY <1>1, <1>2, <1>3, <1>4 DEF TypeOK

LEMMA EndPollType ==
  ASSUME TypeOK, NEW p \in Processes, EndPoll(p)
  PROVE  TypeOK'
<1>1. UNCHANGED <<today, stored, status, members, summary, accepted, quiet, polls, reviews, crashes, broken>>
  BY DEF EndPoll, queue
<1>2. \A b \in proc'[p].todo \cup proc'[p].left : status'[b] # "none"
  BY <1>1, AfterEndPoll, ProcIsTyped DEF Done
<1>3. \A q \in Processes : \A b \in proc'[q].todo \cup proc'[q].left : status'[b] # "none"
  BY <1>1, <1>2, AfterEndPoll, HeldStayQueued
<1>4. proc' \in [Processes -> Procs]
  BY AfterEndPoll
<1> QED
  BY <1>1, <1>3, <1>4 DEF TypeOK

LEMMA ListType ==
  ASSUME TypeOK, NEW p \in Processes, List(p)
  PROVE  TypeOK'
<1>1. UNCHANGED <<today, stored, status, members, summary, accepted, quiet, polls, reviews, crashes, broken>>
  BY DEF List, queue
<1>2. \A b \in Listed(p) : status[b] # "none"
  BY DEF Listed
<1>3. \A b \in proc'[p].todo \cup proc'[p].left : status'[b] # "none"
  BY <1>1, <1>2, AfterList, ProcIsTyped DEF Done
<1>4. \A q \in Processes : \A b \in proc'[q].todo \cup proc'[q].left : status'[b] # "none"
  BY <1>1, <1>3, AfterList, HeldStayQueued
<1>5. proc' \in [Processes -> Procs]
  BY AfterList
<1> QED
  BY <1>1, <1>4, <1>5 DEF TypeOK

LEMMA SendType ==
  ASSUME TypeOK, NEW p \in Processes, Send(p)
  PROVE  TypeOK'
<1>1. UNCHANGED <<today, stored, status, members, summary, quiet, polls, reviews, crashes>>
  BY DEF Send, queue
<1>2. PICK M \in Messages(p), outcome \in Outcomes, received \in BOOLEAN :
         /\ Fits(outcome, received)
         /\ broken' = IF Breaks(outcome, received) THEN broken + 1 ELSE broken
         /\ accepted' = [r \in Reports |-> IF received /\ \E b \in M : r \in members[b]
                                           THEN Count(accepted[r]) ELSE accepted[r]]
         /\ proc' \in [Processes -> Procs]
         /\ \A q \in Processes : q # p => proc'[q] = proc[q]
         /\ M \subseteq proc[p].todo
         /\ proc'[p].todo = proc[p].todo \ M /\ proc'[p].left = M
  BY AfterSend
<1>3. accepted' \in [Reports -> Nat]
  BY <1>2 DEF TypeOK, Count
<1>4. \A b \in proc'[p].todo \cup proc'[p].left : status'[b] # "none"
  BY <1>1, <1>2, ProcIsTyped
<1>5. \A q \in Processes : \A b \in proc'[q].todo \cup proc'[q].left : status'[b] # "none"
  BY <1>1, <1>2, <1>4, HeldStayQueued
<1>6. broken' \in Nat /\ crashes' + broken' <= MaxLosses
  BY <1>1, <1>2, IntradayAssumption DEF TypeOK, Fits, Breaks
<1> QED
  BY <1>1, <1>2, <1>3, <1>5, <1>6 DEF TypeOK

LEMMA MarkType ==
  ASSUME TypeOK, NEW p \in Processes, Mark(p)
  PROVE  TypeOK'
<1>1. UNCHANGED <<today, stored, members, summary, accepted, quiet, polls, reviews, crashes, broken>>
  BY DEF Mark
<1>2. PICK M \in SUBSET proc[p].left :
         /\ status' = [c \in Batches |-> IF c \in M THEN proc[p].outcome ELSE status[c]]
         /\ proc' \in [Processes -> Procs]
         /\ \A q \in Processes : q # p => proc'[q] = proc[q]
         /\ proc'[p].todo = proc[p].todo /\ proc'[p].left = proc[p].left \ M
  BY AfterMark
<1>3. proc[p].outcome \in Statuses /\ proc[p].outcome # "none"
  BY ProcIsTyped DEF Outcomes, Statuses
<1>4. status' \in [Batches -> Statuses]
  BY <1>2, <1>3 DEF TypeOK
<1>5. \A c \in Batches : status'[c] = "none" <=> status[c] = "none"
  BY <1>2, <1>3, ProcIsTyped
<1>6. \A b \in proc'[p].todo \cup proc'[p].left : status'[b] # "none"
  BY <1>2, <1>5, ProcIsTyped
<1>7. \A q \in Processes : \A b \in proc'[q].todo \cup proc'[q].left : status'[b] # "none"
  BY <1>2, <1>5, <1>6, HeldStayQueued
<1> QED
  BY <1>1, <1>2, <1>4, <1>5, <1>7 DEF TypeOK

LEMMA ContinueType ==
  ASSUME TypeOK, NEW p \in Processes, Continue(p)
  PROVE  TypeOK'
<1>1. UNCHANGED <<today, stored, status, members, summary, accepted, quiet, polls, reviews, crashes, broken>>
  BY DEF Continue, queue
<1>2. \A b \in proc'[p].todo \cup proc'[p].left : status'[b] # "none"
  BY <1>1, AfterContinue, ProcIsTyped DEF Done
<1>3. \A q \in Processes : \A b \in proc'[q].todo \cup proc'[q].left : status'[b] # "none"
  BY <1>1, <1>2, AfterContinue, HeldStayQueued
<1>4. proc' \in [Processes -> Procs]
  BY AfterContinue
<1> QED
  BY <1>1, <1>3, <1>4 DEF TypeOK

LEMMA CrashType ==
  ASSUME TypeOK, NEW p \in Processes, Crash(p)
  PROVE  TypeOK'
<1>1. UNCHANGED <<today, stored, status, members, summary, accepted, quiet, polls, reviews, broken>>
  BY DEF Crash, queue
<1>2. crashes' \in Nat /\ crashes' + broken' <= MaxLosses
  BY <1>1, IntradayAssumption DEF Crash, TypeOK
<1>3. \A b \in proc'[p].todo \cup proc'[p].left : status'[b] # "none"
  BY AfterCrash DEF Done
<1>4. \A q \in Processes : \A b \in proc'[q].todo \cup proc'[q].left : status'[b] # "none"
  BY <1>1, <1>3, AfterCrash, HeldStayQueued
<1>5. proc' \in [Processes -> Procs]
  BY AfterCrash
<1> QED
  BY <1>1, <1>2, <1>4, <1>5 DEF TypeOK

LEMMA TypeInit ==
  ASSUME Init
  PROVE  TypeOK
<1>1. proc \in [Processes -> Procs]
  BY DoneIsTyped DEF Init
<1>2. \A p \in Processes : proc[p].todo = {} /\ proc[p].left = {}
  BY DEF Init, Done
<1>3. status \in [Batches -> Statuses] /\ members \in [Batches -> SUBSET Reports]
  BY DEF Init, Statuses
<1> QED
  BY <1>1, <1>2, <1>3, IntradayAssumption DEF Init, TypeOK

LEMMA TypeStep ==
  ASSUME TypeOK, [Next]_vars
  PROVE  TypeOK'
<1>1. CASE NewDay
  <2>1. UNCHANGED <<stored, status, members, summary, proc, accepted, quiet, polls, reviews, crashes, broken>>
    BY <1>1 DEF NewDay, queue
  <2>2. today' \in 1..Days
    BY <1>1, IntradayAssumption DEF NewDay, TypeOK
  <2> QED
    BY <2>1, <2>2 DEF TypeOK
<1>2. ASSUME NEW p \in Processes, NEW cmd \in {"slot", "between", "manual", "collect"}, Poll(p, cmd)
      PROVE  TypeOK'
  BY <1>2, PollType DEF Commands
<1>3. ASSUME NEW p \in Processes, NEW cmd \in {"process", "review"}, Process(p, cmd)
      PROVE  TypeOK'
  BY <1>3, ProcessType DEF Commands
<1>4. ASSUME NEW p \in Processes, Step(p)
      PROVE  TypeOK'
  BY <1>4, InsertType, RebuildType, ReplaceType, EndPollType, ListType, SendType,
     MarkType, ContinueType DEF Step
<1>5. ASSUME NEW p \in Processes, Crash(p)
      PROVE  TypeOK'
  BY <1>5, CrashType
<1>6. CASE UNCHANGED vars
  BY <1>6 DEF vars, queue, TypeOK
<1> QED
  BY <1>1, <1>2, <1>3, <1>4, <1>5, <1>6 DEF Next

(* In every reachable state the variables have their types, a batch exists  *)
(* exactly when it has reports, and invocations hold batches that exist.    *)
THEOREM TypeCorrect == Spec => []TypeOK
<1>1. Init => TypeOK
  BY TypeInit
<1>2. TypeOK /\ [Next]_vars => TypeOK'
  BY TypeStep
<1> QED
  BY <1>1, <1>2, PTL DEF Spec

(* The queue, however invocations overlap.  A step that changes neither the *)
(* tables nor the chat and starts no poll disturbs nothing.                 *)
LEMMA QueueFrame ==
  ASSUME TypeOK, QueueInv, NEW p \in Processes,
         UNCHANGED <<stored, quiet, status, members, accepted, polls>>,
         \A q \in Processes : q # p => proc'[q] = proc[q],
         proc'[p].pc # "insert",
         \/ proc'[p].left = {}
         \/ proc'[p].left \subseteq proc[p].left /\ proc'[p].outcome = proc[p].outcome
  PROVE  QueueInv'
<1>1. QueuedOnce' /\ SentWasReceived'
  BY DEF QueueInv, QueuedOnce, SentWasReceived
<1>2. \A q \in Processes : proc'[q].pc = "insert" => q # p /\ proc'[q] = proc[q]
  OBVIOUS
<1>3. PollsAreNumbered'
  BY <1>2 DEF QueueInv, PollsAreNumbered
<1>4. MessagesWereReceived'
  <2> SUFFICES ASSUME NEW q \in Processes, proc'[q].outcome = "sent",
                      NEW b \in proc'[q].left, NEW r \in members[b]
               PROVE  accepted[r] > 0
    BY DEF MessagesWereReceived
  <2>1. proc[q].outcome = "sent" /\ b \in proc[q].left
    BY DEF QueueInv
  <2> QED
    BY <2>1 DEF QueueInv, MessagesWereReceived
<1> QED
  BY <1>1, <1>3, <1>4 DEF QueueInv

LEMMA QueuePoll ==
  ASSUME TypeOK, QueueInv, NEW p \in Processes, NEW cmd \in Commands, Poll(p, cmd)
  PROVE  QueueInv'
<1>1. UNCHANGED <<stored, quiet, status, members, accepted>> /\ polls' = polls + 1
  BY DEF Poll, queue
<1>2. /\ \A q \in Processes : q # p => proc'[q] = proc[q]
      /\ proc'[p].number = polls + 1 /\ proc'[p].left = {}
  BY AfterPoll
<1>3. polls \in Nat
  BY DEF TypeOK
<1>4. QueuedOnce' /\ SentWasReceived'
  BY <1>1 DEF QueueInv, QueuedOnce, SentWasReceived
<1>5. \A b \in Batches : b[1] \in Nat /\ (members[b] # {} => b[1] <= polls)
  BY IntradayAssumption DEF QueueInv, PollsAreNumbered, Batches
<1>6. \A q \in Processes : proc'[q].pc = "insert" =>
          /\ proc'[q].number \in 1..polls'
          /\ \A b \in Batches : b[1] = proc'[q].number => members'[b] = {}
  <2> SUFFICES ASSUME NEW q \in Processes, proc'[q].pc = "insert"
               PROVE  /\ proc'[q].number \in 1..polls'
                      /\ \A b \in Batches : b[1] = proc'[q].number => members'[b] = {}
    OBVIOUS
  <2>1. CASE q = p
    BY <1>1, <1>2, <1>3, <1>5, <2>1
  <2>2. CASE q # p
    <3>1. proc'[q] = proc[q]
      BY <1>2, <2>2
    <3> QED
      BY <1>1, <1>3, <3>1 DEF QueueInv, PollsAreNumbered
  <2> QED
    BY <2>1, <2>2
<1>7. \A q \in Processes : q # p /\ proc[q].pc = "insert" => proc[q].number # polls + 1
  BY <1>3 DEF QueueInv, PollsAreNumbered
<1>8. \A q, s \in Processes :
         proc'[q].pc = "insert" /\ proc'[s].pc = "insert" /\ proc'[q].number = proc'[s].number
         => q = s
  BY <1>2, <1>7 DEF QueueInv, PollsAreNumbered
<1>9. \A b \in Batches : members'[b] # {} => b[1] <= polls'
  BY <1>1, <1>3, <1>5
<1>10. MessagesWereReceived'
  BY <1>1, <1>2 DEF QueueInv, MessagesWereReceived
<1> QED
  BY <1>4, <1>6, <1>8, <1>9, <1>10 DEF QueueInv, PollsAreNumbered

(* The batches a poll makes were empty, and hold reports new to the table.  *)
LEMMA NewBatchesAreFresh ==
  ASSUME TypeOK, QueueInv, NEW p \in Processes, Insert(p)
  PROVE  /\ \A b \in NewBatches(p) : /\ b \in Batches /\ members[b] = {} /\ status[b] = "none"
                                     /\ members'[b] = OfDay(Inserted(p), b[2])
                                     /\ status'[b] = "pending" /\ b[1] \in 1..polls
                                     /\ b[1] = proc[p].number
         /\ \A b \in Batches \ NewBatches(p) : members'[b] = members[b] /\ status'[b] = status[b]
<1>1. proc[p].number \in 1..polls
  BY DEF Insert, QueueInv, PollsAreNumbered
<1>2. \A b \in NewBatches(p) : b \in Batches /\ b[1] = proc[p].number /\ members[b] = {}
  BY DEF Insert, NewBatches, QueueInv, PollsAreNumbered
<1> QED
  BY <1>1, <1>2 DEF Insert, TypeOK

LEMMA QueuedInsert ==
  ASSUME TypeOK, QueueInv, NEW p \in Processes, Insert(p)
  PROVE  QueuedOnce'
<1>1. Inserted(p) = proc[p].fetched \ stored /\ Inserted(p) \subseteq Reports
  BY ProcIsTyped DEF Inserted
<1>2. /\ stored' = stored \cup proc[p].fetched
      /\ quiet' = IF proc[p].cmd = "collect" THEN quiet \cup Inserted(p) ELSE quiet
      /\ quiet \subseteq stored
  BY DEF Insert, TypeOK
<1>3. /\ \A b \in Batches : \A r \in members[b] : DayOf[r] = b[2] /\ r \in stored \ quiet
      /\ \A b, c \in Batches : members[b] \cap members[c] # {} => b = c
      /\ \A r \in stored \ quiet : \E b \in Batches : r \in members[b]
  BY DEF QueueInv, QueuedOnce
<1>4. \A b \in NewBatches(p) : \A r \in members'[b] :
         DayOf[r] = b[2] /\ r \in Inserted(p) /\ r \notin stored /\ proc[p].cmd # "collect"
  BY <1>1, NewBatchesAreFresh DEF OfDay, NewBatches
<1>5. \A r \in stored' \ quiet' : \E b \in Batches : r \in members'[b]
  <2> SUFFICES ASSUME NEW r \in stored' \ quiet'
               PROVE  \E b \in Batches : r \in members'[b]
    OBVIOUS
  <2>1. CASE r \in stored
    <3>1. PICK b \in Batches : r \in members[b]
      BY <1>2, <1>3, <2>1
    <3>2. b \notin NewBatches(p)
      BY <3>1, NewBatchesAreFresh
    <3> QED
      BY <3>1, <3>2, NewBatchesAreFresh
  <2>2. CASE r \notin stored
    <3>1. r \in Inserted(p) /\ proc[p].cmd # "collect"
      BY <1>1, <1>2, <2>2
    <3>2. DayOf[r] \in 1..Days /\ proc[p].number \in 1..MaxPolls
      BY <1>1, <3>1, IntradayAssumption DEF Insert, QueueInv, PollsAreNumbered, TypeOK
    <3>3. PICK b : b = <<proc[p].number, DayOf[r]>>
      OBVIOUS
    <3>4. b \in Batches /\ b[1] = proc[p].number /\ b[2] = DayOf[r]
      BY <3>2, <3>3 DEF Batches
    <3>5. r \in OfDay(Inserted(p), b[2])
      BY <3>1, <3>4 DEF OfDay
    <3>6. b \in NewBatches(p)
      BY <3>1, <3>4, <3>5 DEF NewBatches
    <3> QED
      BY <3>4, <3>5, <3>6, NewBatchesAreFresh
  <2> QED
    BY <2>1, <2>2
<1>6. \A b, c \in Batches : members'[b] \cap members'[c] # {} => b = c
  <2> SUFFICES ASSUME NEW b \in Batches, NEW c \in Batches, NEW r,
                      r \in members'[b], r \in members'[c]
               PROVE  b = c
    OBVIOUS
  <2>1. CASE b \in NewBatches(p) /\ c \in NewBatches(p)
    <3>1. b[1] = c[1] /\ b[2] = c[2]
      BY <1>4, <2>1, NewBatchesAreFresh
    <3> QED
      BY <3>1 DEF Batches
  <2>2. CASE b \notin NewBatches(p) /\ c \notin NewBatches(p)
    BY <1>3, <2>2, NewBatchesAreFresh
  <2>3. CASE b \in NewBatches(p) /\ c \notin NewBatches(p)
    <3>1. r \notin stored /\ r \in members[c]
      BY <1>4, <2>3, NewBatchesAreFresh
    <3> QED
      BY <1>3, <3>1
  <2>4. CASE b \notin NewBatches(p) /\ c \in NewBatches(p)
    <3>1. r \notin stored /\ r \in members[b]
      BY <1>4, <2>4, NewBatchesAreFresh
    <3> QED
      BY <1>3, <3>1
  <2> QED
    BY <2>1, <2>2, <2>3, <2>4
<1>7. \A b \in Batches : \A r \in members'[b] : DayOf[r] = b[2] /\ r \in stored' \ quiet'
  <2> SUFFICES ASSUME NEW b \in Batches, NEW r \in members'[b]
               PROVE  DayOf[r] = b[2] /\ r \in stored' \ quiet'
    OBVIOUS
  <2>1. CASE b \in NewBatches(p)
    <3>1. DayOf[r] = b[2] /\ r \in Inserted(p) /\ r \notin stored /\ proc[p].cmd # "collect"
      BY <1>4, <2>1
    <3> QED
      BY <1>1, <1>2, <3>1
  <2>2. CASE b \notin NewBatches(p)
    <3>1. DayOf[r] = b[2] /\ r \in stored \ quiet
      BY <1>3, <2>2, NewBatchesAreFresh
    <3> QED
      BY <1>1, <1>2, <3>1
  <2> QED
    BY <2>1, <2>2
<1> QED
  BY <1>5, <1>6, <1>7 DEF QueuedOnce

LEMMA QueueInsert ==
  ASSUME TypeOK, QueueInv, NEW p \in Processes, Insert(p)
  PROVE  QueueInv'
<1>1. UNCHANGED <<accepted, polls>>
  BY DEF Insert
<1>2. QueuedOnce'
  BY QueuedInsert
<1>3. SentWasReceived'
  BY <1>1, NewBatchesAreFresh DEF QueueInv, SentWasReceived
<1>4. /\ \A q \in Processes : q # p => proc'[q] = proc[q]
      /\ proc[p].pc = "insert" /\ proc'[p].pc # "insert"
      /\ proc'[p].left = proc[p].left /\ proc'[p].outcome = proc[p].outcome
  BY AfterInsert
<1>5. PollsAreNumbered'
  <2>1. \A b \in Batches : members'[b] # {} => b[1] <= polls'
    BY <1>1, NewBatchesAreFresh DEF QueueInv, PollsAreNumbered, TypeOK
  <2>2. ASSUME NEW q \in Processes, proc'[q].pc = "insert"
        PROVE  /\ proc'[q] = proc[q] /\ proc[q].pc = "insert" /\ q # p
               /\ proc[q].number # proc[p].number
    BY <1>4, <2>2 DEF QueueInv, PollsAreNumbered
  <2>3. ASSUME NEW q \in Processes, proc'[q].pc = "insert",
               NEW b \in Batches, b[1] = proc'[q].number
        PROVE  members'[b] = {}
    BY <2>2, <2>3, NewBatchesAreFresh DEF QueueInv, PollsAreNumbered
  <2> QED
    BY <1>1, <2>1, <2>2, <2>3 DEF QueueInv, PollsAreNumbered
<1>6. MessagesWereReceived'
  <2> SUFFICES ASSUME NEW q \in Processes, proc'[q].outcome = "sent",
                      NEW b \in proc'[q].left, NEW r \in members'[b]
               PROVE  accepted[r] > 0
    BY <1>1 DEF MessagesWereReceived
  <2>1. proc[q].outcome = "sent" /\ b \in proc[q].left
    BY <1>4
  <2>2. b \in Batches \ NewBatches(p)
    BY <2>1, ProcIsTyped, NewBatchesAreFresh
  <2>3. r \in members[b]
    BY <2>2, NewBatchesAreFresh
  <2> QED
    BY <2>1, <2>3 DEF QueueInv, MessagesWereReceived
<1> QED
  BY <1>2, <1>3, <1>5, <1>6 DEF QueueInv

LEMMA QueueSend ==
  ASSUME TypeOK, QueueInv, NEW p \in Processes, Send(p)
  PROVE  QueueInv'
<1>1. UNCHANGED <<stored, quiet, status, members, polls>>
  BY DEF Send, queue
<1>2. PICK M \in Messages(p), outcome \in Outcomes, received \in BOOLEAN :
         /\ Fits(outcome, received)
         /\ accepted' = [r \in Reports |-> IF received /\ \E b \in M : r \in members[b]
                                           THEN Count(accepted[r]) ELSE accepted[r]]
         /\ \A q \in Processes : q # p => proc'[q] = proc[q]
         /\ proc'[p].pc = "mark" /\ M \subseteq proc[p].todo
         /\ proc'[p].left = M /\ proc'[p].outcome = outcome
  BY AfterSend
<1>3. \A r \in Reports : accepted[r] \in Nat /\ (accepted[r] > 0 => accepted'[r] > 0)
  BY <1>2 DEF TypeOK, Count
<1>4. \A b \in Batches : members[b] \subseteq Reports
  BY DEF TypeOK
<1>5. outcome = "sent" => \A b \in M : \A r \in members[b] : accepted'[r] > 0
  <2> SUFFICES ASSUME outcome = "sent", NEW b \in M, NEW r \in members[b]
               PROVE  accepted'[r] > 0
    OBVIOUS
  <2>1. received
    BY <1>2 DEF Fits
  <2>2. r \in Reports
    BY <1>2, <1>4, ProcIsTyped
  <2>3. accepted'[r] = Count(accepted[r])
    BY <1>2, <2>1, <2>2
  <2> QED
    BY <1>3, <2>2, <2>3, IntradayAssumption DEF Count, MaxAccepted
<1>6. QueuedOnce'
  BY <1>1 DEF QueueInv, QueuedOnce
<1>7. SentWasReceived'
  BY <1>1, <1>3, <1>4 DEF QueueInv, SentWasReceived
<1>8. \A q \in Processes : proc'[q].pc = "insert" => q # p /\ proc'[q] = proc[q]
  BY <1>2
<1>9. PollsAreNumbered'
  BY <1>1, <1>8 DEF QueueInv, PollsAreNumbered
<1>10. MessagesWereReceived'
  <2> SUFFICES ASSUME NEW q \in Processes, proc'[q].outcome = "sent",
                      NEW b \in proc'[q].left, NEW r \in members[b]
               PROVE  accepted'[r] > 0
    BY <1>1 DEF MessagesWereReceived
  <2>1. CASE q = p
    BY <1>2, <1>5, <2>1
  <2>2. CASE q # p
    <3>1. proc'[q] = proc[q]
      BY <1>2, <2>2
    <3>2. accepted[r] > 0 /\ b \in Batches
      BY <3>1, ProcIsTyped DEF QueueInv, MessagesWereReceived
    <3> QED
      BY <1>3, <1>4, <3>2
  <2> QED
    BY <2>1, <2>2
<1> QED
  BY <1>6, <1>7, <1>9, <1>10 DEF QueueInv

LEMMA QueueMark ==
  ASSUME TypeOK, QueueInv, NEW p \in Processes, Mark(p)
  PROVE  QueueInv'
<1>1. UNCHANGED <<stored, quiet, members, accepted, polls>>
  BY DEF Mark
<1>2. PICK M \in SUBSET proc[p].left :
         /\ status' = [c \in Batches |-> IF c \in M THEN proc[p].outcome ELSE status[c]]
         /\ \A q \in Processes : q # p => proc'[q] = proc[q]
         /\ proc'[p].pc = "mark" /\ proc'[p].left = proc[p].left \ M
         /\ proc'[p].outcome = proc[p].outcome
  BY AfterMark
<1>3. QueuedOnce'
  BY <1>1 DEF QueueInv, QueuedOnce
<1>4. SentWasReceived'
  BY <1>1, <1>2 DEF QueueInv, SentWasReceived, MessagesWereReceived
<1>5. \A q \in Processes : proc'[q].pc = "insert" => q # p /\ proc'[q] = proc[q]
  BY <1>2
<1>6. PollsAreNumbered'
  BY <1>1, <1>5 DEF QueueInv, PollsAreNumbered
<1>7. \A q \in Processes : proc'[q].outcome = proc[q].outcome /\ proc'[q].left \subseteq proc[q].left
  BY <1>2
<1>8. MessagesWereReceived'
  BY <1>1, <1>7 DEF QueueInv, MessagesWereReceived
<1> QED
  BY <1>3, <1>4, <1>6, <1>8 DEF QueueInv

LEMMA QueueInit ==
  ASSUME Init
  PROVE  QueueInv
<1>1. \A p \in Processes : proc[p].pc = "done" /\ proc[p].left = {}
  BY DEF Init, Done
<1>2. stored = {} /\ \A b \in Batches : members[b] = {} /\ status[b] = "none"
  BY DEF Init
<1> QED
  BY <1>1, <1>2 DEF QueueInv, QueuedOnce, SentWasReceived, PollsAreNumbered, MessagesWereReceived

LEMMA QueueStep ==
  ASSUME TypeOK, QueueInv, [Next]_vars
  PROVE  QueueInv'
<1>1. CASE NewDay
  BY <1>1 DEF NewDay, queue, QueueInv, QueuedOnce, SentWasReceived, PollsAreNumbered, MessagesWereReceived
<1>2. ASSUME NEW p \in Processes, NEW cmd \in {"slot", "between", "manual", "collect"}, Poll(p, cmd)
      PROVE  QueueInv'
  BY <1>2, QueuePoll DEF Commands
<1>3. ASSUME NEW p \in Processes, NEW cmd \in {"process", "review"}, Process(p, cmd)
      PROVE  QueueInv'
  BY <1>3, AfterProcess, QueueFrame DEF Process, queue, Commands
<1>4. ASSUME NEW p \in Processes, Step(p)
      PROVE  QueueInv'
  <2>1. CASE Insert(p)
    BY <2>1, QueueInsert
  <2>2. CASE Rebuild(p)
    BY <2>2, AfterRebuild, QueueFrame DEF Rebuild, queue
  <2>3. CASE Replace(p)
    BY <2>3, AfterReplace, QueueFrame DEF Replace, queue
  <2>4. CASE EndPoll(p)
    BY <2>4, AfterEndPoll, QueueFrame DEF EndPoll, queue, Done
  <2>5. CASE List(p)
    BY <2>5, AfterList, QueueFrame DEF List, queue, Done
  <2>6. CASE Send(p)
    BY <2>6, QueueSend
  <2>7. CASE Mark(p)
    BY <2>7, QueueMark
  <2>8. CASE Continue(p)
    BY <2>8, AfterContinue, QueueFrame DEF Continue, queue, Done
  <2> QED
    BY <1>4, <2>1, <2>2, <2>3, <2>4, <2>5, <2>6, <2>7, <2>8 DEF Step
<1>5. ASSUME NEW p \in Processes, Crash(p)
      PROVE  QueueInv'
  BY <1>5, AfterCrash, QueueFrame DEF Crash, queue, Done
<1>6. CASE UNCHANGED vars
  BY <1>6 DEF vars, queue, QueueInv, QueuedOnce, SentWasReceived, PollsAreNumbered, MessagesWereReceived
<1> QED
  BY <1>1, <1>2, <1>3, <1>4, <1>5, <1>6 DEF Next

(* However invocations overlap and wherever they die: polls have numbers of *)
(* their own, their reports are queued once, and the batches recorded as    *)
(* sent were received.                                                      *)
THEOREM QueueCorrect == Spec => [](TypeOK /\ QueueInv)
<1>1. Init => TypeOK /\ QueueInv
  BY TypeInit, QueueInit
<1>2. TypeOK /\ QueueInv /\ [Next]_vars => TypeOK' /\ QueueInv'
  BY TypeStep, QueueStep
<1> QED
  BY <1>1, <1>2, PTL DEF Spec

(* Every report an alerting poll stored is in one batch, of its own date.   *)
THEOREM QueuedOnceAlways == Spec => []QueuedOnce
<1>1. TypeOK /\ QueueInv => QueuedOnce
  BY DEF QueueInv
<1> QED
  BY <1>1, QueueCorrect, PTL

(* A batch recorded as sent was received by the chat, all its reports.      *)
THEOREM SentWasReceivedAlways == Spec => []SentWasReceived
<1>1. TypeOK /\ QueueInv => SentWasReceived
  BY DEF QueueInv
<1> QED
  BY <1>1, QueueCorrect, PTL

(* One invocation at a time, and replies that are never cut short.          *)
LEMMA SerialCases ==
  ASSUME NEW p, Processes = {p}, [Next]_vars
  PROVE  \/ NewDay \/ UNCHANGED vars
         \/ \E cmd \in Commands : Poll(p, cmd)
         \/ \E cmd \in Commands : Process(p, cmd)
         \/ Insert(p) \/ Rebuild(p) \/ Replace(p) \/ EndPoll(p)
         \/ List(p) \/ Send(p) \/ Mark(p) \/ Continue(p) \/ Crash(p)
  BY DEF Next, Step, Commands

LEMMA TodoStep ==
  ASSUME TypeOK, TodoIsCurrent, NEW p, Processes = {p}, [Next]_vars
  PROVE  TodoIsCurrent'
<1>0. p \in Processes
  OBVIOUS
<1>1. CASE NewDay \/ UNCHANGED vars
  BY <1>1 DEF NewDay, vars, queue, TodoIsCurrent
<1>2. CASE \E cmd \in Commands : Poll(p, cmd)
  BY <1>0, <1>2, AfterPoll DEF TodoIsCurrent
<1>3. CASE \E cmd \in Commands : Process(p, cmd)
  BY <1>0, <1>3, AfterProcess DEF TodoIsCurrent
<1>4. CASE Insert(p)
  BY <1>0, <1>4, AfterInsert DEF TodoIsCurrent
<1>5. CASE Rebuild(p)
  BY <1>0, <1>5, AfterRebuild DEF TodoIsCurrent
<1>6. CASE Replace(p)
  BY <1>0, <1>6, AfterReplace DEF TodoIsCurrent
<1>7. CASE EndPoll(p)
  BY <1>0, <1>7, AfterEndPoll DEF TodoIsCurrent, Done
<1>8. CASE List(p)
  <2>1. status' = status
    BY <1>8 DEF List, queue
  <2>2. proc[p].left = {}
    BY <1>0, <1>8 DEF List, TodoIsCurrent
  <2>3. CASE proc'[p] = Done
    BY <2>3 DEF TodoIsCurrent, Done
  <2>4. CASE /\ proc'[p].pc = "send" /\ proc'[p].cmd = proc[p].cmd
             /\ proc'[p].todo = Listed(p) /\ proc'[p].left = proc[p].left
    BY <2>1, <2>2, <2>4 DEF TodoIsCurrent, Listed
  <2> QED
    BY <1>0, <1>8, <2>3, <2>4, AfterList
<1>9. CASE Send(p)
  <2>1. status' = status
    BY <1>9 DEF Send, queue
  <2>2. PICK M \in Messages(p) :
           /\ proc[p].pc = "send" /\ proc'[p].pc = "mark" /\ proc'[p].cmd = proc[p].cmd
           /\ proc'[p].todo = proc[p].todo \ M /\ proc'[p].left = M
           /\ M \subseteq proc[p].todo
    BY <1>0, <1>9, AfterSend
  <2>3. proc'[p].todo \cup proc'[p].left = proc[p].todo
    BY <2>2
  <2> QED
    BY <1>0, <2>1, <2>2, <2>3 DEF TodoIsCurrent
<1>10. CASE Mark(p)
  <2>1. PICK M \in SUBSET proc[p].left :
           /\ status' = [c \in Batches |-> IF c \in M THEN proc[p].outcome ELSE status[c]]
           /\ proc[p].pc = "mark" /\ proc'[p].pc = "mark" /\ proc'[p].cmd = proc[p].cmd
           /\ proc'[p].todo = proc[p].todo /\ proc'[p].left = proc[p].left \ M
    BY <1>0, <1>10, AfterMark
  <2>2. \A b \in proc'[p].todo \cup proc'[p].left : b \in Batches /\ b \notin M
    BY <1>0, <2>1, ProcIsTyped DEF TodoIsCurrent
  <2>3. \A b \in proc'[p].todo \cup proc'[p].left : status'[b] = status[b]
    BY <2>1, <2>2
  <2> QED
    BY <1>0, <2>1, <2>3 DEF TodoIsCurrent
<1>11. CASE Continue(p)
  <2>1. status' = status
    BY <1>11 DEF Continue, queue
  <2> QED
    BY <1>0, <1>11, <2>1, AfterContinue DEF TodoIsCurrent, Done
<1>12. CASE Crash(p)
  BY <1>0, <1>12, AfterCrash DEF TodoIsCurrent, Done
<1> QED
  BY <1>1, <1>2, <1>3, <1>4, <1>5, <1>6, <1>7, <1>8, <1>9, <1>10, <1>11, <1>12, SerialCases

LEMMA RowsStep ==
  ASSUME TypeOK, RowsAreCurrent, NEW p, Processes = {p}, [Next]_vars
  PROVE  RowsAreCurrent'
<1>0. p \in Processes
  OBVIOUS
<1>1. CASE NewDay \/ UNCHANGED vars
  BY <1>1 DEF NewDay, vars, RowsAreCurrent, OfDay
<1>2. CASE Rebuild(p)
  <2>1. proc'[p].rows = OfDay(stored, proc'[p].date)
    BY <1>0, <1>2, AfterRebuild
  <2>2. stored' = stored
    BY <1>2 DEF Rebuild
  <2>3. proc'[p].rows = OfDay(stored', proc'[p].date)
    BY <2>1, <2>2
  <2> QED
    BY <2>3 DEF RowsAreCurrent, OfDay
<1>3. CASE ~(NewDay \/ UNCHANGED vars \/ Rebuild(p))
  <2>1. proc'[p].pc # "replace"
    BY <1>0, <1>3, SerialCases, AfterPoll, AfterProcess, AfterInsert, AfterReplace, AfterEndPoll,
       AfterList, AfterSend, AfterMark, AfterContinue, AfterCrash DEF Done
  <2> QED
    BY <2>1 DEF RowsAreCurrent
<1> QED
  BY <1>1, <1>2, <1>3

LEMMA SummaryStep ==
  ASSUME TypeOK, RowsAreCurrent, SummaryIsCurrent, NEW p, Processes = {p}, [Next]_vars
  PROVE  SummaryIsCurrent'
<1>0. p \in Processes
  OBVIOUS
<1>1. CASE NewDay \/ UNCHANGED vars
  BY <1>1 DEF NewDay, vars, SummaryIsCurrent, OfDay
<1>2. CASE Crash(p)
  BY <1>2 DEF Crash, SummaryIsCurrent, TypeOK
<1> SUFFICES ASSUME ~(NewDay \/ UNCHANGED vars \/ Crash(p)), crashes' = 0, NEW d \in 1..Days
             PROVE  \/ summary'[d] = OfDay(stored', d)
                    \/ proc'[p].pc = "rebuild" /\ d \in proc'[p].dates
                    \/ proc'[p].pc = "replace" /\ d \in proc'[p].dates \cup {proc'[p].date}
  BY <1>0, <1>1, <1>2 DEF SummaryIsCurrent, OfDay
<1>3. crashes = 0
  BY SerialCases DEF Poll, Process, Insert, Rebuild, Replace, EndPoll, List, Send, Mark, Continue
<1>4. \/ summary[d] = OfDay(stored, d)
      \/ proc[p].pc = "rebuild" /\ d \in proc[p].dates
      \/ proc[p].pc = "replace" /\ d \in proc[p].dates \cup {proc[p].date}
  BY <1>0, <1>3 DEF SummaryIsCurrent
<1>5. CASE Insert(p)
  <2>1. CASE d \in Touched(p)
    BY <1>0, <1>5, <2>1, AfterInsert
  <2>2. CASE d \notin Touched(p)
    <3>1. summary[d] = OfDay(stored, d) /\ summary' = summary
      BY <1>4, <1>5 DEF Insert
    <3>2. OfDay(stored', d) = OfDay(stored, d)
      BY <1>5, <2>2 DEF Insert, OfDay, Touched
    <3> QED
      BY <3>1, <3>2
  <2> QED
    BY <2>1, <2>2
<1>6. CASE Rebuild(p)
  <2>1. summary' = summary /\ stored' = stored
    BY <1>6 DEF Rebuild
  <2> QED
    BY <1>0, <1>4, <1>6, <2>1, AfterRebuild
<1>7. CASE Replace(p)
  <2>1. /\ stored' = stored
        /\ proc'[p].pc = "rebuild" /\ proc'[p].dates = proc[p].dates /\ proc[p].pc = "replace"
    BY <1>0, <1>7, AfterReplace DEF Replace
  <2>2. summary' = [summary EXCEPT ![proc[p].date] = proc[p].rows]
    BY <1>7 DEF Replace
  <2>3. summary'[d] = IF d = proc[p].date THEN proc[p].rows ELSE summary[d]
    BY <2>2 DEF TypeOK
  <2>4. proc[p].rows = OfDay(stored, proc[p].date)
    BY <1>0, <2>1 DEF RowsAreCurrent
  <2> QED
    BY <1>4, <2>1, <2>3, <2>4
<1>8. CASE EndPoll(p)
  <2>1. summary[d] = OfDay(stored, d)
    BY <1>0, <1>4, <1>8, AfterEndPoll
  <2> QED
    BY <1>8, <2>1 DEF EndPoll
<1>9. CASE ~(Insert(p) \/ Rebuild(p) \/ Replace(p) \/ EndPoll(p))
  <2>1. stored' = stored /\ summary' = summary /\ proc[p].pc \notin {"rebuild", "replace"}
    BY <1>9, SerialCases DEF Poll, Process, List, Send, Mark, Continue
  <2> QED
    BY <1>4, <2>1
<1> QED
  BY <1>5, <1>6, <1>7, <1>8, <1>9

(* What one invocation owes and is owed for a batch.                        *)
LEMMA SerialPaid ==
  ASSUME NEW p, Processes = {p}
  PROVE  \A b : /\ Reviewing(b) <=> (/\ proc[p].cmd = "review"
                                     /\ proc[p].pc = "list" \/ b \in proc[p].todo)
                /\ Reviewing(b)' <=> (/\ proc'[p].cmd = "review"
                                      /\ proc'[p].pc = "list" \/ b \in proc'[p].todo)
                /\ Paid(b) <=> (IF b \in proc[p].left THEN proc[p].outcome # "failed"
                                ELSE status[b] \in {"sent", "ambiguous"})
                /\ Paid(b)' <=> (IF b \in proc'[p].left THEN proc'[p].outcome # "failed"
                                 ELSE status'[b] \in {"sent", "ambiguous"})
  BY DEF Reviewing, Paid

LEMMA AcceptedFrame ==
  ASSUME AcceptedIsPaid, UNCHANGED <<members, accepted, crashes, reviews, broken>>,
         \A b \in Batches : Reviewing(b)' => Reviewing(b),
         \A b \in Batches : Paid(b) <=> Paid(b)', TypeOK
  PROVE  AcceptedIsPaid'
<1>1. \A b \in Batches : One(Reviewing(b)') \in 0..One(Reviewing(b)) /\ One(Paid(b)') = One(Paid(b))
  BY DEF One
<1>2. \A b \in Batches : One(Reviewing(b)) \in 0..1 /\ One(Paid(b)) \in 0..1
  BY DEF One
<1>3. \A b \in Batches : \A r \in members[b] : accepted[r] \in Nat
  BY DEF TypeOK
<1>4. crashes \in Nat /\ reviews \in Nat /\ broken \in Nat
  BY DEF TypeOK
<1>5. \A b \in Batches : \A r \in members[b] :
          accepted[r] + One(Reviewing(b)') <= crashes + reviews + broken + One(Paid(b)')
  BY <1>1, <1>2, <1>3, <1>4 DEF AcceptedIsPaid
<1> QED
  BY <1>5 DEF AcceptedIsPaid, One

LEMMA AcceptedPoll ==
  ASSUME TypeOK, TodoIsCurrent, AcceptedIsPaid, NEW p, Processes = {p},
         NEW cmd \in Commands, Poll(p, cmd), cmd # "review"
  PROVE  AcceptedIsPaid'
<1>1. /\ UNCHANGED <<members, accepted, crashes, reviews, broken, status>>
      /\ proc'[p].cmd # "review" /\ proc'[p].left = {}
  BY AfterPoll DEF Poll, queue
<1>2. proc[p].left = {}
  BY DEF TodoIsCurrent, Poll
<1> QED
  BY <1>1, <1>2, SerialPaid, AcceptedFrame

(* A review puts one repetition of each batch on the account.               *)
LEMMA AcceptedProcess ==
  ASSUME TypeOK, TodoIsCurrent, AcceptedIsPaid, NEW p, Processes = {p},
         NEW cmd \in {"process", "review"}, Process(p, cmd)
  PROVE  AcceptedIsPaid'
<1>1. /\ UNCHANGED <<members, accepted, crashes, broken, status>>
      /\ proc'[p].cmd = cmd /\ proc'[p].left = {}
  BY AfterProcess DEF Process, queue, Commands
<1>2. proc[p].left = {}
  BY DEF TodoIsCurrent, Process
<1>3. \A b \in Batches : Paid(b) <=> Paid(b)'
  BY <1>1, <1>2, SerialPaid
<1>4. CASE cmd = "process"
  <2>1. reviews' = reviews
    BY <1>4 DEF Process
  <2>2. \A b \in Batches : ~Reviewing(b)'
    BY <1>1, <1>4, SerialPaid
  <2> QED
    BY <1>1, <1>3, <2>1, <2>2, AcceptedFrame
<1>5. CASE cmd = "review"
  <2>1. reviews' = reviews + 1
    BY <1>5 DEF Process
  <2>2. \A b \in Batches : One(Reviewing(b)) \in {0, 1} /\ One(Reviewing(b)') \in {0, 1}
                           /\ One(Paid(b)) \in {0, 1} /\ One(Paid(b)') = One(Paid(b))
    BY <1>3 DEF One
  <2>3. \A b \in Batches : \A r \in members[b] :
            /\ accepted[r] \in Nat
            /\ accepted[r] + One(Reviewing(b)) <= crashes + reviews + broken + One(Paid(b))
    BY DEF TypeOK, AcceptedIsPaid
  <2>4. crashes \in Nat /\ reviews \in Nat /\ broken \in Nat
    BY DEF TypeOK
  <2>5. \A b \in Batches : \A r \in members[b] :
            accepted[r] + One(Reviewing(b)') <= crashes + reviews' + broken + One(Paid(b)')
    BY <2>1, <2>2, <2>3, <2>4
  <2> QED
    BY <1>1, <2>5 DEF AcceptedIsPaid, One
<1> QED
  BY <1>4, <1>5

(* The reports of a new batch are new: nobody has received them.            *)
LEMMA AcceptedInsert ==
  ASSUME TypeOK, QueueInv, TodoIsCurrent, AcceptedIsPaid, NEW p, Processes = {p}, Insert(p)
  PROVE  AcceptedIsPaid'
<1>1. UNCHANGED <<accepted, crashes, reviews, broken>>
  BY DEF Insert
<1>2. /\ proc[p].todo = {} /\ proc[p].left = {} /\ proc'[p].todo = {} /\ proc'[p].left = {}
      /\ proc'[p].pc = "rebuild"
  BY AfterInsert DEF TodoIsCurrent
<1>3. \A b \in Batches : ~Reviewing(b)'
  BY <1>2, SerialPaid
<1>4. \A b \in Batches \ NewBatches(p) : Paid(b) <=> Paid(b)'
  BY <1>2, SerialPaid, NewBatchesAreFresh
<1>5. \A b \in NewBatches(p) : \A r \in members'[b] : r \in Reports /\ accepted[r] = 0
  <2> SUFFICES ASSUME NEW b \in NewBatches(p), NEW r \in members'[b]
               PROVE  r \in Reports /\ accepted[r] = 0
    OBVIOUS
  <2>1. r \in Reports /\ r \notin stored
    BY NewBatchesAreFresh, ProcIsTyped DEF OfDay, Inserted
  <2>2. \A c \in Batches : r \notin members[c]
    BY <2>1 DEF QueueInv, QueuedOnce
  <2> QED
    BY <2>1, <2>2 DEF AcceptedIsPaid
<1>6. crashes \in Nat /\ reviews \in Nat /\ broken \in Nat
  BY DEF TypeOK
<1>7. \A b \in Batches : /\ One(Reviewing(b)') = 0
                         /\ One(Paid(b)) \in {0, 1} /\ One(Paid(b)') \in {0, 1}
                         /\ One(Reviewing(b)) \in {0, 1}
  BY <1>3 DEF One
<1>8. \A b \in Batches \ NewBatches(p) : One(Paid(b)') = One(Paid(b))
  BY <1>4 DEF One
<1>9. \A b \in Batches : \A r \in members'[b] :
         accepted[r] + One(Reviewing(b)') <= crashes + reviews + broken + One(Paid(b)')
  <2> SUFFICES ASSUME NEW b \in Batches, NEW r \in members'[b]
               PROVE  accepted[r] + One(Reviewing(b)') <= crashes + reviews + broken + One(Paid(b)')
    OBVIOUS
  <2>1. CASE b \in NewBatches(p)
    BY <1>5, <1>6, <1>7, <2>1
  <2>2. CASE b \notin NewBatches(p)
    <3>1. r \in members[b]
      BY <2>2, NewBatchesAreFresh
    <3>2. accepted[r] \in Nat
      BY <3>1 DEF TypeOK
    <3>3. accepted[r] + One(Reviewing(b)) <= crashes + reviews + broken + One(Paid(b))
      BY <3>1 DEF AcceptedIsPaid
    <3> QED
      BY <1>6, <1>7, <1>8, <2>2, <3>2, <3>3
  <2> QED
    BY <2>1, <2>2
<1>10. \A r \in Reports : accepted[r] = 0 \/ \E b \in Batches : r \in members'[b]
  <2> SUFFICES ASSUME NEW r \in Reports, accepted[r] # 0
               PROVE  \E b \in Batches : r \in members'[b]
    OBVIOUS
  <2>1. PICK b \in Batches : r \in members[b]
    BY DEF AcceptedIsPaid
  <2>2. b \notin NewBatches(p)
    BY <2>1, NewBatchesAreFresh
  <2> QED
    BY <2>1, <2>2, NewBatchesAreFresh
<1> QED
  BY <1>1, <1>9, <1>10 DEF AcceptedIsPaid, One

(* A message pays for the reports of its batches: it was refused, or they   *)
(* will be marked, or the review under way was for them.                    *)
LEMMA AcceptedSend ==
  ASSUME TypeOK, QueueInv, TodoIsCurrent, AcceptedIsPaid,
         NEW p, Processes = {p}, Send(p)
  PROVE  AcceptedIsPaid'
<1>0. p \in Processes
  OBVIOUS
<1>1. UNCHANGED <<members, status, crashes, reviews>>
  BY DEF Send, queue
<1>2. PICK M \in Messages(p), outcome \in Outcomes, received \in BOOLEAN :
         /\ Fits(outcome, received)
         /\ accepted' = [r \in Reports |-> IF received /\ \E b \in M : r \in members[b]
                                           THEN Count(accepted[r]) ELSE accepted[r]]
         /\ broken' = IF Breaks(outcome, received) THEN broken + 1 ELSE broken
         /\ proc[p].pc = "send" /\ proc'[p].pc = "mark" /\ proc'[p].cmd = proc[p].cmd
         /\ M \subseteq proc[p].todo
         /\ proc'[p].todo = proc[p].todo \ M /\ proc'[p].left = M
         /\ proc'[p].outcome = outcome
  BY <1>0, AfterSend
<1>3. M \subseteq Batches /\ proc[p].left = {}
  BY <1>0, <1>2, ProcIsTyped DEF TodoIsCurrent
<1>4. \A b \in Batches : members[b] \subseteq Reports
  BY DEF TypeOK
<1>5. \A b \in M : ~Reviewing(b)' /\ (Paid(b)' <=> outcome # "failed") /\ (Paid(b) => Reviewing(b))
  <2> SUFFICES ASSUME NEW b \in M
               PROVE  ~Reviewing(b)' /\ (Paid(b)' <=> outcome # "failed") /\ (Paid(b) => Reviewing(b))
    OBVIOUS
  <2>1. b \in proc[p].todo
    BY <1>2
  <2>2. \/ status[b] \in {"pending", "failed"}
        \/ proc[p].cmd = "review" /\ status[b] = "ambiguous"
    BY <1>0, <1>2, <2>1 DEF TodoIsCurrent
  <2> QED
    BY <1>2, <1>3, <2>1, <2>2, SerialPaid
<1>6. \A b \in Batches \ M : (Reviewing(b)' <=> Reviewing(b)) /\ (Paid(b)' <=> Paid(b))
  BY <1>1, <1>2, <1>3, SerialPaid
<1>7. /\ crashes \in Nat /\ reviews \in Nat /\ broken \in Nat
      /\ broken' = broken + One(outcome = "failed" /\ received)
  BY <1>2 DEF TypeOK, Breaks, One
<1>8. \A b \in Batches : \A r \in members[b] :
         accepted'[r] + One(Reviewing(b)') <= crashes + reviews + broken' + One(Paid(b)')
  <2> SUFFICES ASSUME NEW b \in Batches, NEW r \in members[b]
               PROVE  accepted'[r] + One(Reviewing(b)') <= crashes + reviews + broken' + One(Paid(b)')
    OBVIOUS
  <2>1. r \in Reports /\ accepted[r] \in Nat
    BY <1>4 DEF TypeOK
  <2>2. accepted[r] + One(Reviewing(b)) <= crashes + reviews + broken + One(Paid(b))
    BY DEF AcceptedIsPaid
  <2>3. CASE b \notin M
    <3>1. \A c \in M : r \notin members[c]
      BY <1>3, <2>3 DEF QueueInv, QueuedOnce
    <3>2. accepted'[r] = accepted[r]
      BY <1>2, <2>1, <3>1
    <3>3. One(Reviewing(b)') = One(Reviewing(b)) /\ One(Paid(b)') = One(Paid(b))
      BY <1>6, <2>3 DEF One
    <3>4. One(Reviewing(b)) \in {0, 1} /\ One(Paid(b)) \in {0, 1}
      BY DEF One
    <3>5. broken' \in Nat /\ broken' >= broken
      BY <1>7 DEF One
    <3> QED
      BY <1>7, <2>1, <2>2, <3>2, <3>3, <3>4, <3>5
  <2>4. CASE b \in M /\ outcome = "failed"
    <3>1. \/ received /\ accepted'[r] = Count(accepted[r]) /\ broken' = broken + 1
          \/ ~received /\ accepted'[r] = accepted[r] /\ broken' = broken
      BY <1>2, <1>7, <2>1, <2>4 DEF One
    <3>2. accepted'[r] \in Nat /\ accepted'[r] <= accepted[r] + (broken' - broken)
      BY <1>7, <2>1, <3>1 DEF Count
    <3>3. One(Reviewing(b)') = 0 /\ One(Paid(b)') = 0
      BY <1>5, <2>4 DEF One
    <3>4. One(Paid(b)) = 0 \/ (One(Paid(b)) = 1 /\ One(Reviewing(b)) = 1)
      BY <1>5, <2>4 DEF One
    <3>5. One(Reviewing(b)) \in {0, 1}
      BY DEF One
    <3> QED
      BY <1>7, <2>1, <2>2, <3>2, <3>3, <3>4, <3>5
  <2>5. CASE b \in M /\ outcome # "failed"
    <3>1. accepted'[r] <= accepted[r] + 1 /\ accepted'[r] \in Nat
      BY <1>2, <2>1 DEF Count
    <3>2. One(Reviewing(b)') = 0 /\ One(Paid(b)') = 1
      BY <1>5, <2>5 DEF One
    <3>5. broken' = broken
      BY <1>7, <2>5 DEF One
    <3>3. One(Paid(b)) = 0 \/ (One(Paid(b)) = 1 /\ One(Reviewing(b)) = 1)
      BY <1>5, <2>5 DEF One
    <3>4. One(Reviewing(b)) \in {0, 1}
      BY DEF One
    <3> QED
      BY <1>7, <2>1, <2>2, <3>1, <3>2, <3>3, <3>4, <3>5
  <2> QED
    BY <2>3, <2>4, <2>5
<1>9. \A r \in Reports : accepted'[r] = 0 \/ \E b \in Batches : r \in members[b]
  BY <1>2, <1>3 DEF AcceptedIsPaid
<1> QED
  BY <1>1, <1>8, <1>9 DEF AcceptedIsPaid, One

LEMMA AcceptedMark ==
  ASSUME TypeOK, TodoIsCurrent, AcceptedIsPaid, NEW p, Processes = {p}, Mark(p)
  PROVE  AcceptedIsPaid'
<1>0. p \in Processes
  OBVIOUS
<1>1. UNCHANGED <<members, accepted, crashes, reviews, broken>>
  BY DEF Mark
<1>2. PICK M \in SUBSET proc[p].left :
         /\ status' = [c \in Batches |-> IF c \in M THEN proc[p].outcome ELSE status[c]]
         /\ proc[p].pc = "mark" /\ proc'[p].pc = "mark" /\ proc'[p].cmd = proc[p].cmd
         /\ proc'[p].todo = proc[p].todo /\ proc'[p].left = proc[p].left \ M
         /\ proc'[p].outcome = proc[p].outcome
  BY <1>0, AfterMark
<1>3. proc[p].outcome \in Outcomes
  BY <1>0, ProcIsTyped
<1>4. \A b \in Batches : Paid(b) <=> Paid(b)'
  BY <1>2, <1>3, SerialPaid DEF Outcomes
<1>5. \A b \in Batches : Reviewing(b)' <=> Reviewing(b)
  BY <1>2, SerialPaid
<1> QED
  BY <1>1, <1>4, <1>5, AcceptedFrame

(* A crash may lose the mark of what was sent; it pays for one repetition.  *)
LEMMA AcceptedCrash ==
  ASSUME TypeOK, AcceptedIsPaid, NEW p, Processes = {p}, Crash(p)
  PROVE  AcceptedIsPaid'
<1>1. UNCHANGED <<members, accepted, reviews, broken>> /\ crashes' = crashes + 1
  BY DEF Crash, queue
<1>2. \A b \in Batches : ~Reviewing(b)'
  BY AfterCrash, SerialPaid DEF Done
<1>3. \A b \in Batches : /\ One(Reviewing(b)') = 0 /\ One(Reviewing(b)) \in {0, 1}
                         /\ One(Paid(b)) \in {0, 1} /\ One(Paid(b)') \in {0, 1}
  BY <1>2 DEF One
<1>4. crashes \in Nat /\ reviews \in Nat /\ broken \in Nat
  BY DEF TypeOK
<1>5. \A b \in Batches : \A r \in members[b] :
         /\ accepted[r] \in Nat
         /\ accepted[r] + One(Reviewing(b)) <= crashes + reviews + broken + One(Paid(b))
  BY DEF TypeOK, AcceptedIsPaid
<1>6. \A b \in Batches : \A r \in members[b] :
         accepted[r] + One(Reviewing(b)') <= crashes' + reviews + broken + One(Paid(b)')
  BY <1>1, <1>3, <1>4, <1>5
<1> QED
  BY <1>1, <1>6 DEF AcceptedIsPaid, One

LEMMA AcceptedStep ==
  ASSUME TypeOK, QueueInv, TodoIsCurrent, AcceptedIsPaid,
         NEW p, Processes = {p}, [Next]_vars
  PROVE  AcceptedIsPaid'
<1>0. p \in Processes
  OBVIOUS
<1>1. CASE NewDay \/ UNCHANGED vars
  <2>1. UNCHANGED <<members, accepted, crashes, reviews, broken, status, proc>>
    BY <1>1 DEF NewDay, vars, queue
  <2> QED
    BY <2>1, SerialPaid, AcceptedFrame
<1>2. ASSUME NEW cmd \in {"slot", "between", "manual", "collect"}, Poll(p, cmd)
      PROVE  AcceptedIsPaid'
  BY <1>2, AcceptedPoll DEF Commands
<1>3. ASSUME NEW cmd \in {"process", "review"}, Process(p, cmd)
      PROVE  AcceptedIsPaid'
  BY <1>3, AcceptedProcess
<1>4. CASE Insert(p)
  BY <1>4, AcceptedInsert
<1>5. CASE Send(p)
  BY <1>5, AcceptedSend
<1>6. CASE Mark(p)
  BY <1>6, AcceptedMark
<1>7. CASE Crash(p)
  BY <1>7, AcceptedCrash
<1>8. CASE Rebuild(p) \/ Replace(p)
  <2>1. UNCHANGED <<members, accepted, crashes, reviews, broken, status>>
    BY <1>8 DEF Rebuild, Replace, queue
  <2>2. /\ proc'[p].cmd = proc[p].cmd /\ proc'[p].todo = proc[p].todo
        /\ proc'[p].left = proc[p].left /\ proc'[p].outcome = proc[p].outcome
        /\ proc'[p].pc # "list"
    BY <1>0, <1>8, AfterRebuild, AfterReplace
  <2> QED
    BY <2>1, <2>2, SerialPaid, AcceptedFrame
<1>9. CASE EndPoll(p) \/ List(p) \/ Continue(p)
  <2>1. UNCHANGED <<members, accepted, crashes, reviews, broken, status>>
    BY <1>9 DEF EndPoll, List, Continue, queue
  <2>2. proc[p].left = {} /\ proc'[p].left = {}
    BY <1>0, <1>9, AfterEndPoll, AfterList, AfterContinue DEF TodoIsCurrent, Done
  <2>3. \A b \in Batches : Reviewing(b)' => Reviewing(b)
    BY <1>0, <1>9, AfterEndPoll, AfterList, AfterContinue, SerialPaid DEF Done
  <2> QED
    BY <2>1, <2>2, <2>3, SerialPaid, AcceptedFrame
<1> QED
  BY <1>1, <1>2, <1>3, <1>4, <1>5, <1>6, <1>7, <1>8, <1>9, SerialCases DEF Next, Step

LEMMA SerialInit ==
  ASSUME Init
  PROVE  SerialInv
<1>1. \A p \in Processes : proc[p].pc = "done" /\ proc[p].todo = {} /\ proc[p].left = {}
  BY DEF Init, Done
<1>2. /\ stored = {} /\ crashes = 0 /\ \A b \in Batches : members[b] = {}
      /\ \A d \in 1..Days : summary[d] = {}
      /\ \A r \in Reports : accepted[r] = 0
  BY DEF Init
<1> QED
  BY <1>1, <1>2 DEF SerialInv, TodoIsCurrent, RowsAreCurrent, AcceptedIsPaid, SummaryIsCurrent, OfDay

(* One invocation at a time, no reply cut short: the batches it has listed  *)
(* are as they were, and acceptances are paid for.                          *)
THEOREM SerialCorrect ==
  ASSUME NEW p, Processes = {p}
  PROVE  Spec => [](TypeOK /\ QueueInv /\ SerialInv)
<1>1. Init => TypeOK /\ QueueInv /\ SerialInv
  BY TypeInit, QueueInit, SerialInit
<1>2. TypeOK /\ QueueInv /\ SerialInv /\ [Next]_vars => TypeOK' /\ QueueInv' /\ SerialInv'
  BY TypeStep, QueueStep, TodoStep, RowsStep, AcceptedStep, SummaryStep DEF SerialInv
<1> QED
  BY <1>1, <1>2, PTL DEF Spec

(* One invocation at a time: a stored report is received again only after a *)
(* crash between a send and its mark, a broken reply or a review.           *)
THEOREM DuplicateNeedsCrashAlways ==
  ASSUME NEW p, Processes = {p}
  PROVE  Spec => []DuplicateNeedsCrash
<1>1. TypeOK /\ SerialInv => DuplicateNeedsCrash
  <2> SUFFICES ASSUME TypeOK, SerialInv, NEW r \in Reports
               PROVE  accepted[r] <= 1 + crashes + reviews + broken
    BY DEF DuplicateNeedsCrash
  <2>1. accepted[r] \in Nat /\ crashes \in Nat /\ reviews \in Nat /\ broken \in Nat
    BY DEF TypeOK
  <2>2. CASE accepted[r] = 0
    BY <2>1, <2>2
  <2>3. CASE accepted[r] # 0
    <3>1. PICK b \in Batches : r \in members[b]
      BY <2>3 DEF SerialInv, AcceptedIsPaid
    <3>2. accepted[r] + One(Reviewing(b)) <= crashes + reviews + broken + One(Paid(b))
      BY <3>1 DEF SerialInv, AcceptedIsPaid
    <3>3. One(Reviewing(b)) \in {0, 1} /\ One(Paid(b)) \in {0, 1}
      BY DEF One
    <3> QED
      BY <2>1, <3>2, <3>3
  <2> QED
    BY <2>2, <2>3
<1> QED
  BY <1>1, SerialCorrect, PTL

(* One invocation at a time and no crash: outside a rebuild, the summary    *)
(* rows of every date count every stored report.                            *)
THEOREM SummaryIsCurrentAlways ==
  ASSUME NEW p, Processes = {p}
  PROVE  Spec => []SummaryIsCurrent
<1>1. TypeOK /\ SerialInv => SummaryIsCurrent
  BY DEF SerialInv
<1> QED
  BY <1>1, SerialCorrect, PTL

(* One invocation at a time: an ambiguous batch is sent by the reviewed     *)
(* command only.                                                            *)
THEOREM HeldUntilReviewAlways ==
  ASSUME NEW s, Processes = {s}
  PROVE  Spec => HeldUntilReview
<1> DEFINE Held == \A p \in Processes :
          (/\ proc[p].pc = "send" /\ proc'[p].pc = "mark"
           /\ \E b \in proc'[p].left : status[b] = "ambiguous")
          => proc[p].cmd = "review"
<1>1. TypeOK /\ SerialInv /\ [Next]_vars => Held
  <2> SUFFICES ASSUME TypeOK, SerialInv, [Next]_vars, proc[s].pc = "send", proc'[s].pc = "mark",
                      NEW b \in proc'[s].left, status[b] = "ambiguous"
               PROVE  proc[s].cmd = "review"
    OBVIOUS
  <2>0. s \in Processes
    OBVIOUS
  <2>1. Send(s)
    BY <2>0, SerialCases, AfterPoll, AfterProcess, AfterInsert, AfterRebuild, AfterReplace,
       AfterEndPoll, AfterList, AfterMark, AfterContinue, AfterCrash DEF NewDay, vars, Done
  <2>2. b \in proc[s].todo
    BY <2>0, <2>1, AfterSend
  <2> QED
    BY <2>0, <2>2 DEF SerialInv, TodoIsCurrent
<1>2. TypeOK /\ SerialInv /\ [Next]_vars => [Held]_vars
  BY <1>1
<1>3. Spec => [](TypeOK /\ QueueInv /\ SerialInv)
  BY SerialCorrect
<1> QED
  BY <1>2, <1>3, PTL DEF Spec, HeldUntilReview

(* -------------------------------------------------------------------------- *)
(* One invocation at a time, the alerts implement HeldDelivery.             *)
(* A report stands as its batch does, and that is one batch for good.       *)
LEMMA StandingQueued ==
  ASSUME QueueInv, NEW b \in Batches, NEW r \in members[b], r \in Reports
  PROVE  standing[r] = StandingOf(b)
<1>1. BatchOf(r) = b
  BY DEF BatchOf, QueueInv, QueuedOnce
<1> QED
  BY <1>1 DEF standing

LEMMA StandingQueuedNext ==
  ASSUME QueueInv', NEW b \in Batches, NEW r \in members'[b], r \in Reports
  PROVE  standing'[r] = StandingOf(b)'
<1>1. BatchOf(r)' = b
  BY DEF BatchOf, QueueInv, QueuedOnce
<1> QED
  BY <1>1 DEF standing

LEMMA StandingUnqueued ==
  ASSUME NEW r \in Reports
  PROVE  /\ (\A b \in Batches : r \notin members[b]) => standing[r] = "absent"
         /\ (\A b \in Batches : r \notin members'[b]) => standing'[r] = "absent"
  BY DEF standing

LEMMA LedgerShape ==
  /\ standing = [r \in Reports |-> standing[r]] /\ standing' = [r \in Reports |-> standing'[r]]
  /\ flying \subseteq Reports /\ flying' \subseteq Reports
  BY DEF standing, flying

(* For one invocation, what is in hand and what is in flight is its own.    *)
LEMMA SerialHand ==
  ASSUME NEW p, Processes = {p}
  PROVE  /\ \A b : InHand(b) <=> \/ b \in proc[p].left
                                 \/ /\ proc[p].cmd = "review"
                                    /\ proc[p].pc = "list" \/ b \in proc[p].todo
         /\ \A b : InHand(b)' <=> \/ b \in proc'[p].left
                                  \/ /\ proc'[p].cmd = "review"
                                     /\ proc'[p].pc = "list" \/ b \in proc'[p].todo
         /\ \A r \in Reports :
              /\ r \in flying <=> /\ proc[p].outcome # "failed"
                                  /\ \E b \in proc[p].left : r \in members[b]
              /\ r \in flying' <=> /\ proc'[p].outcome # "failed"
                                   /\ \E b \in proc'[p].left : r \in members'[b]
  BY DEF InHand, Reviewing, flying

(* Where no batch moves and nothing is in flight, nothing happens.          *)
LEMMA StandingFrame ==
  ASSUME QueueInv, QueueInv', UNCHANGED members, NEW r \in Reports
  PROVE  \/ standing[r] = "absent" /\ standing'[r] = "absent" /\ \A b \in Batches : r \notin members[b]
         \/ \E b \in Batches : /\ r \in members[b]
                               /\ standing[r] = StandingOf(b) /\ standing'[r] = StandingOf(b)'
<1>1. CASE \A b \in Batches : r \notin members[b]
  BY <1>1, StandingUnqueued
<1>2. ASSUME NEW b \in Batches, r \in members[b]
      PROVE  standing[r] = StandingOf(b) /\ standing'[r] = StandingOf(b)'
  BY <1>2, StandingQueued, StandingQueuedNext
<1> QED
  BY <1>1, <1>2

LEMMA LedgerStays ==
  ASSUME QueueInv, QueueInv', UNCHANGED <<members, accepted, crashes, reviews, broken>>,
         flying = {}, flying' = {},
         \A b \in Batches : StandingOf(b)' = StandingOf(b)
  PROVE  UNCHANGED <<standing, flying, accepted, excuses>>
<1>1. \A r \in Reports : standing'[r] = standing[r]
  BY StandingFrame
<1>2. standing' = standing
  BY <1>1, LedgerShape
<1> QED
  BY <1>2 DEF excuses

LEMMA LedgerGrounded ==
  ASSUME NEW p, Processes = {p}
  PROVE  /\ proc[p].left = {} => flying = {}
         /\ proc'[p].left = {} => flying' = {}
  BY LedgerShape, SerialHand

(* The steps around a delivery: a poll, a rebuild, a listing, the end.      *)
LEMMA LedgerQuiet ==
  ASSUME TypeOK, QueueInv, QueueInv', TodoIsCurrent, NEW p, Processes = {p},
         \/ \E cmd \in Commands : Poll(p, cmd)
         \/ Process(p, "process")
         \/ Rebuild(p) \/ Replace(p) \/ EndPoll(p) \/ List(p)
  PROVE  UNCHANGED <<standing, flying, accepted, excuses>>
<1>0. p \in Processes
  OBVIOUS
<1>1. UNCHANGED <<members, status, accepted, crashes, broken>>
  BY DEF Poll, Process, Rebuild, Replace, EndPoll, List, queue
<1>2. reviews' = reviews
  BY DEF Poll, Process, Rebuild, Replace, EndPoll, List, queue
<1>3. proc[p].left = {} /\ proc[p].todo = {}
  BY <1>0 DEF TodoIsCurrent, Poll, Process, Rebuild, Replace, EndPoll, Rebuilt, List
<1>4. proc'[p].left = {}
  BY <1>0, <1>3, AfterPoll, AfterProcess, AfterRebuild, AfterReplace, AfterEndPoll, AfterList
     DEF Done, Commands
<1>5. ASSUME NEW b \in Batches, status[b] = "ambiguous"
      PROVE  InHand(b)' <=> InHand(b)
  <2>1. CASE \E cmd \in Commands : Poll(p, cmd)
    <3>1. proc[p].pc = "done" /\ proc'[p].pc = "insert" /\ proc'[p].todo = {}
      BY <1>0, <2>1, AfterPoll DEF Poll
    <3> QED
      BY <1>3, <1>4, <3>1, SerialHand
  <2>2. CASE Process(p, "process")
    <3>1. proc[p].pc = "done" /\ proc'[p].cmd = "process"
      BY <1>0, <2>2, AfterProcess DEF Process, Commands
    <3> QED
      BY <1>3, <1>4, <3>1, SerialHand
  <2>3. CASE Rebuild(p) \/ Replace(p)
    <3>1. proc[p].pc # "list" /\ proc'[p].pc # "list" /\ proc'[p].todo = {}
      BY <1>0, <1>3, <2>3, AfterRebuild, AfterReplace
    <3> QED
      BY <1>3, <1>4, <3>1, SerialHand
  <2>4. CASE EndPoll(p)
    <3>1. proc[p].pc # "list" /\ proc'[p].cmd # "review"
      BY <1>0, <2>4, AfterEndPoll DEF Done
    <3> QED
      BY <1>3, <1>4, <3>1, SerialHand
  <2>5. CASE List(p)
    <3>1. proc[p].pc = "list"
      BY <2>5 DEF List
    <3>2. b \in Listed(p) <=> proc[p].cmd = "review"
      BY <1>5 DEF Listed
    <3>3. \/ Listed(p) = {} /\ proc'[p].cmd = "collect"
          \/ proc'[p].pc = "send" /\ proc'[p].cmd = proc[p].cmd /\ proc'[p].todo = Listed(p)
      BY <1>0, <2>5, AfterList DEF Done
    <3> QED
      BY <1>3, <1>4, <3>1, <3>2, <3>3, SerialHand
  <2> QED
    BY <2>1, <2>2, <2>3, <2>4, <2>5
<1>6. \A b \in Batches : StandingOf(b)' = StandingOf(b)
  BY <1>1, <1>5 DEF StandingOf
<1> QED
  BY <1>1, <1>2, <1>3, <1>4, <1>6, LedgerGrounded, LedgerStays

(* A review takes up every report that is held.                             *)
LEMMA LedgerReview ==
  ASSUME TypeOK, QueueInv, QueueInv', TodoIsCurrent, NEW p, Processes = {p}, Process(p, "review")
  PROVE  Ledger!Next
<1>0. p \in Processes
  OBVIOUS
<1>1. UNCHANGED <<members, status, accepted, crashes, broken>> /\ reviews' = reviews + 1
      /\ proc[p].pc = "done"
  BY DEF Process, queue
<1>2. proc[p].left = {} /\ proc[p].todo = {}
  BY <1>0, <1>1 DEF TodoIsCurrent
<1>3. proc'[p].left = {} /\ proc'[p].pc = "list" /\ proc'[p].cmd = "review"
  BY <1>0, AfterProcess DEF Commands
<1>4. flying = {} /\ flying' = {}
  BY <1>2, <1>3, LedgerGrounded
<1>5. \A b \in Batches : StandingOf(b)' = IF StandingOf(b) = "held" THEN "open" ELSE StandingOf(b)
  BY <1>1, <1>2, <1>3, SerialHand DEF StandingOf
<1> DEFINE M == {r \in Reports : standing[r] = "held"}
<1>6. \A r \in Reports : standing'[r] = IF r \in M THEN "open" ELSE standing[r]
  BY <1>1, <1>5, StandingFrame
<1>7. standing' = [r \in Reports |-> IF r \in M THEN "open" ELSE standing[r]]
  BY <1>6, LedgerShape DEF standing
<1>8. excuses' = excuses + 1
  BY <1>1 DEF excuses, TypeOK
<1>9. Ledger!Reopen(M)
  BY <1>1, <1>4, <1>7, <1>8 DEF Ledger!Reopen
<1>10. M \in SUBSET Reports
  OBVIOUS
<1> QED
  BY <1>9, <1>10 DEF Ledger!Next

(* The reports of the new batches come.                                     *)
LEMMA LedgerInsert ==
  ASSUME TypeOK, QueueInv, QueueInv', TodoIsCurrent, NEW p, Processes = {p}, Insert(p)
  PROVE  Ledger!Plan
<1>0. p \in Processes
  OBVIOUS
<1>1. UNCHANGED <<accepted, crashes, reviews, broken>> /\ proc[p].pc = "insert"
  BY DEF Insert
<1>2. proc[p].left = {} /\ proc[p].todo = {} /\ proc'[p].left = {} /\ proc'[p].todo = {}
      /\ proc'[p].pc = "rebuild"
  BY <1>0, <1>1, AfterInsert DEF TodoIsCurrent
<1>3. flying = {} /\ flying' = {}
  BY <1>2, LedgerGrounded
<1>4. \A b \in Batches \ NewBatches(p) :
         members'[b] = members[b] /\ StandingOf(b)' = StandingOf(b)
  BY <1>0, <1>1, <1>2, NewBatchesAreFresh, SerialHand DEF StandingOf
<1>5. \A b \in NewBatches(p) : b \in Batches /\ members[b] = {} /\ StandingOf(b)' = "open"
  BY <1>0, NewBatchesAreFresh DEF StandingOf
<1>6. ASSUME NEW r \in Reports, standing'[r] # standing[r]
      PROVE  standing[r] = "absent" /\ standing'[r] = "open"
  <2>1. CASE \E b \in Batches : r \in members[b]
    <3>1. PICK b \in Batches : r \in members[b]
      BY <2>1
    <3>2. b \notin NewBatches(p)
      BY <1>5, <3>1
    <3>3. r \in members'[b] /\ StandingOf(b)' = StandingOf(b)
      BY <1>4, <3>1, <3>2
    <3> QED
      BY <1>6, <3>1, <3>3, StandingQueued, StandingQueuedNext
  <2>2. CASE \A b \in Batches : r \notin members[b]
    <3>1. standing[r] = "absent"
      BY <2>2, StandingUnqueued
    <3>2. PICK b \in Batches : r \in members'[b]
      BY <1>6, <3>1, StandingUnqueued
    <3>3. b \in NewBatches(p)
      BY <1>4, <2>2, <3>2
    <3> QED
      BY <1>5, <3>1, <3>2, <3>3, StandingQueuedNext
  <2> QED
    BY <2>1, <2>2
<1>7. standing' \in [Reports -> Ledger!Standings]
  BY DEF standing, StandingOf, Ledger!Standings
<1> QED
  BY <1>1, <1>3, <1>6, <1>7 DEF Ledger!Plan, excuses

(* A message goes out, for all the reports of its batches.                  *)
LEMMA LedgerSend ==
  ASSUME TypeOK, QueueInv, QueueInv', TodoIsCurrent, AcceptedIsPaid,
         NEW p, Processes = {p}, Send(p)
  PROVE  Ledger!Next \/ UNCHANGED <<standing, flying, accepted, excuses>>
<1>0. p \in Processes
  OBVIOUS
<1>1. UNCHANGED <<members, status, crashes, reviews>>
  BY DEF Send, queue
<1>2. PICK M \in Messages(p), outcome \in Outcomes, received \in BOOLEAN :
         /\ Fits(outcome, received)
         /\ accepted' = [r \in Reports |-> IF received /\ \E b \in M : r \in members[b]
                                           THEN Count(accepted[r]) ELSE accepted[r]]
         /\ broken' = IF Breaks(outcome, received) THEN broken + 1 ELSE broken
         /\ proc[p].pc = "send" /\ proc'[p].pc = "mark" /\ proc'[p].cmd = proc[p].cmd
         /\ M \subseteq proc[p].todo
         /\ proc'[p].todo = proc[p].todo \ M /\ proc'[p].left = M
         /\ proc'[p].outcome = outcome
  BY <1>0, AfterSend
<1>3. M \subseteq Batches /\ proc[p].left = {}
  BY <1>0, <1>2, ProcIsTyped DEF TodoIsCurrent
<1>4. flying = {}
  BY <1>3, LedgerGrounded
<1>5. \A b \in M : /\ status[b] \in {"pending", "failed", "ambiguous"}
                   /\ status[b] = "ambiguous" => proc[p].cmd = "review"
  BY <1>0, <1>2 DEF TodoIsCurrent
<1>6. \A b \in Batches : status[b] = "ambiguous" => (InHand(b)' <=> InHand(b))
  BY <1>2, <1>3, <1>5, SerialHand
<1>7. \A b \in Batches : StandingOf(b)' = StandingOf(b)
  BY <1>1, <1>6 DEF StandingOf
<1>8. \A b \in M : StandingOf(b) = "open"
  BY <1>2, <1>5, SerialHand DEF StandingOf
<1>9. \A r \in Reports : standing'[r] = standing[r]
  BY <1>1, <1>7, StandingFrame
<1>10. standing' = standing
  BY <1>9, LedgerShape
<1> DEFINE F == {r \in Reports : \E b \in M : r \in members[b]}
<1>11. \A r \in F : standing[r] = "open"
  BY <1>3, <1>8, StandingQueued
<1>12. CASE outcome = "failed"
  <2>1. flying' = {}
    BY <1>2, <1>12, LedgerShape, SerialHand
  <2>2. CASE ~received
    <3>1. accepted' = accepted
      BY <1>2, <2>2 DEF TypeOK
    <3>2. excuses' = excuses
      BY <1>1, <1>2, <2>2 DEF excuses, Breaks
    <3> QED
      BY <1>4, <1>10, <2>1, <3>1, <3>2
  <2>3. CASE received
    <3>1. excuses' = excuses + 1
      BY <1>1, <1>2, <1>12, <2>3 DEF excuses, Breaks, TypeOK
    <3>2. \A r \in F : accepted[r] < MaxAccepted
      <4> SUFFICES ASSUME NEW r \in F PROVE accepted[r] < MaxAccepted
        OBVIOUS
      <4>1. PICK b \in M : r \in members[b]
        OBVIOUS
      <4>2. b \in Batches /\ (Paid(b) => Reviewing(b))
        BY <1>2, <1>3, <1>5, <4>1, SerialPaid
      <4>3. accepted[r] + One(Reviewing(b)) <= crashes + reviews + broken + One(Paid(b))
        BY <4>1, <4>2 DEF AcceptedIsPaid
      <4>4. One(Paid(b)) <= One(Reviewing(b)) /\ One(Paid(b)) \in Nat /\ One(Reviewing(b)) \in Nat
        BY <4>2 DEF One
      <4>5. /\ accepted[r] \in Nat /\ crashes \in Nat /\ broken \in Nat /\ reviews \in 0..MaxReviews
            /\ crashes + broken <= MaxLosses
        BY DEF TypeOK
      <4> QED
        BY <4>3, <4>4, <4>5, IntradayAssumption DEF MaxAccepted
    <3>3. \A r \in Reports : accepted'[r] = accepted[r] + (IF r \in F THEN 1 ELSE 0)
      BY <1>2, <2>3, <3>2 DEF Count, TypeOK
    <3>4. accepted' = [r \in Reports |-> accepted'[r]]
      BY <1>2
    <3>5. accepted' = [r \in Reports |-> accepted[r] + (IF r \in F THEN 1 ELSE 0)]
      <4> HIDE DEF F
      <4> QED
        BY <3>3, <3>4
    <3>6. Ledger!Misread(F)
      <4> HIDE DEF F
      <4> QED
        BY <1>4, <1>10, <1>11, <2>1, <3>1, <3>5 DEF Ledger!Misread
    <3>7. F \in SUBSET Reports
      OBVIOUS
    <3> QED
      BY <3>6, <3>7 DEF Ledger!Next
  <2> QED
    BY <2>2, <2>3
<1>13. CASE outcome # "failed"
  <2> DEFINE A == {r \in F : received /\ accepted[r] < MaxAccepted}
  <2>1. flying' = F
    <3>1. \A r \in Reports : r \in flying' <=> r \in F
      BY <1>1, <1>2, <1>13, SerialHand
    <3> QED
      BY <3>1, LedgerShape
  <2>2. excuses' = excuses
    BY <1>1, <1>2, <1>13 DEF excuses, Breaks
  <2>3. \A r \in Reports : accepted'[r] = accepted[r] + (IF r \in A THEN 1 ELSE 0)
    BY <1>2 DEF Count, TypeOK
  <2>4. accepted' = [r \in Reports |-> accepted'[r]]
    BY <1>2
  <2>5. accepted' = [r \in Reports |-> accepted[r] + (IF r \in A THEN 1 ELSE 0)]
    <3> HIDE DEF A
    <3> QED
      BY <2>3, <2>4
  <2>6. A \in SUBSET F /\ F \in SUBSET Reports
    OBVIOUS
  <2>7. Ledger!Deliver(F)
    <3> HIDE DEF A, F
    <3> QED
      BY <1>4, <1>10, <1>11, <2>1, <2>2, <2>5, <2>6 DEF Ledger!Deliver
  <2> QED
    BY <2>6, <2>7 DEF Ledger!Next
<1> QED
  BY <1>12, <1>13

(* The outcome of a message is recorded, for some batches or all of them.   *)
LEMMA LedgerMark ==
  ASSUME TypeOK, QueueInv, QueueInv', TodoIsCurrent, NEW p, Processes = {p}, Mark(p)
  PROVE  Ledger!Next \/ UNCHANGED <<standing, flying, accepted, excuses>>
<1>0. p \in Processes
  OBVIOUS
<1>1. UNCHANGED <<members, accepted, crashes, reviews, broken>>
  BY DEF Mark
<1>2. PICK M \in SUBSET proc[p].left :
         /\ status' = [c \in Batches |-> IF c \in M THEN proc[p].outcome ELSE status[c]]
         /\ proc[p].pc = "mark" /\ proc'[p].pc = "mark" /\ proc'[p].cmd = proc[p].cmd
         /\ proc'[p].todo = proc[p].todo /\ proc'[p].left = proc[p].left \ M
         /\ proc'[p].outcome = proc[p].outcome
  BY <1>0, AfterMark
<1>3. proc[p].outcome \in Outcomes /\ M \subseteq Batches
  BY <1>0, ProcIsTyped
<1>4. \A b \in M : /\ b \in proc[p].left /\ b \notin proc[p].todo
                   /\ status[b] \in {"pending", "failed", "ambiguous"}
  BY <1>0, <1>2 DEF TodoIsCurrent
<1>5. \A b \in Batches \ M : StandingOf(b)' = StandingOf(b)
  BY <1>2, SerialHand DEF StandingOf
<1>6. \A b \in M : StandingOf(b) = "open" /\ ~InHand(b)' /\ status'[b] = proc[p].outcome
  BY <1>2, <1>3, <1>4, SerialHand DEF StandingOf
<1>7. excuses' = excuses
  BY <1>1 DEF excuses
<1>8. CASE proc[p].outcome = "failed"
  <2>1. \A b \in Batches : StandingOf(b)' = StandingOf(b)
    BY <1>5, <1>6, <1>8 DEF StandingOf
  <2>2. flying = {} /\ flying' = {}
    BY <1>2, <1>8, LedgerShape, SerialHand
  <2> QED
    BY <1>1, <2>1, <2>2, LedgerStays
<1>9. CASE proc[p].outcome # "failed"
  <2> DEFINE F == {r \in Reports : \E b \in M : r \in members[b]}
             verdict == IF proc[p].outcome = "sent" THEN "sent" ELSE "held"
  <2>1. \A r \in Reports : \A b, c \in Batches : r \in members[b] /\ r \in members[c] => b = c
    BY DEF QueueInv, QueuedOnce
  <2>2. proc[p].left \subseteq Batches
    BY <1>0, ProcIsTyped
  <2>3. \A r \in Reports : /\ r \in F => r \in flying
                           /\ r \in flying' <=> r \in flying /\ r \notin F
    BY <1>1, <1>2, <1>9, <2>1, <2>2, SerialHand
  <2>4. F \subseteq flying /\ flying' = flying \ F
    BY <2>3, LedgerShape
  <2>5. \A b \in M : StandingOf(b)' = verdict
    BY <1>3, <1>6, <1>9 DEF StandingOf, Outcomes
  <2>6. \A r \in Reports : standing'[r] = IF r \in F THEN verdict ELSE standing[r]
    <3> SUFFICES ASSUME NEW r \in Reports
                 PROVE  standing'[r] = IF r \in F THEN verdict ELSE standing[r]
      OBVIOUS
    <3>1. CASE \A b \in Batches : r \notin members[b]
      BY <1>1, <1>3, <3>1, StandingFrame
    <3>2. CASE \E b \in Batches : r \in members[b]
      <4>1. PICK b \in Batches : r \in members[b]
        BY <3>2
      <4>2. standing[r] = StandingOf(b) /\ standing'[r] = StandingOf(b)'
        BY <1>1, <4>1, StandingQueued, StandingQueuedNext
      <4>3. r \in F <=> b \in M
        BY <1>3, <2>1, <4>1
      <4> HIDE DEF verdict, F
      <4> QED
        BY <1>5, <2>5, <4>2, <4>3
    <3> QED
      BY <3>1, <3>2
  <2>7. standing' = [r \in Reports |-> IF r \in F THEN verdict ELSE standing[r]]
    <3> HIDE DEF verdict, F
    <3> QED
      BY <2>6, LedgerShape DEF standing
  <2>8. verdict = "sent" => \A r \in F : accepted[r] > 0
    BY <1>0, <1>2 DEF QueueInv, MessagesWereReceived
  <2>9. Ledger!Settle(F, verdict)
    <3> HIDE DEF verdict, F
    <3> QED
      BY <1>1, <1>7, <2>4, <2>7, <2>8 DEF Ledger!Settle
  <2>10. F \in SUBSET Reports /\ verdict \in {"sent", "held"}
    OBVIOUS
  <2> QED
    BY <2>9, <2>10 DEF Ledger!Next
<1> QED
  BY <1>8, <1>9

(* An invocation gives up its batches: a review holds back what it had      *)
(* still to send.                                                           *)
LEMMA LedgerLetGo ==
  ASSUME QueueInv, QueueInv', UNCHANGED <<members, status, accepted>>,
         \A b \in Batches : InHand(b)' => InHand(b)
  PROVE  \E M \in SUBSET Reports :
           /\ Ledger!HoldBack(M)
           /\ \A r \in M : \E b \in Batches : r \in members[b] /\ InHand(b) /\ ~InHand(b)'
<1> DEFINE M == {r \in Reports : standing'[r] # standing[r]}
<1>1. \A b \in Batches : StandingOf(b)' # StandingOf(b) =>
         StandingOf(b) = "open" /\ StandingOf(b)' = "held" /\ InHand(b) /\ ~InHand(b)'
  BY DEF StandingOf
<1>2. \A r \in M : /\ standing[r] = "open" /\ standing'[r] = "held"
                   /\ \E b \in Batches : r \in members[b] /\ InHand(b) /\ ~InHand(b)'
  BY <1>1, StandingFrame
<1>3. \A r \in Reports : standing'[r] = IF r \in M THEN "held" ELSE standing[r]
  BY <1>2
<1>4. standing' = [r \in Reports |-> IF r \in M THEN "held" ELSE standing[r]]
  BY <1>3, LedgerShape DEF standing
<1>5. Ledger!HoldBack(M)
  BY <1>2, <1>4 DEF Ledger!HoldBack
<1> QED
  BY <1>2, <1>5

LEMMA LedgerContinue ==
  ASSUME TypeOK, QueueInv, QueueInv', TodoIsCurrent, NEW p, Processes = {p}, Continue(p)
  PROVE  Ledger!Next
<1>0. p \in Processes
  OBVIOUS
<1>1. UNCHANGED <<members, status, accepted, crashes, reviews, broken>>
  BY DEF Continue, queue
<1>2. /\ proc[p].left = {} /\ proc'[p].left = {}
      /\ \/ proc'[p] = Done
         \/ proc'[p].pc = "send" /\ proc'[p].cmd = proc[p].cmd /\ proc'[p].todo = proc[p].todo
  BY <1>0, AfterContinue DEF Done
<1>3. flying = {} /\ flying' = {}
  BY <1>2, LedgerGrounded
<1>4. \A b \in Batches : InHand(b)' => InHand(b)
  BY <1>2, SerialHand DEF Done
<1>5. PICK M \in SUBSET Reports : Ledger!HoldBack(M)
  BY <1>1, <1>4, LedgerLetGo
<1>6. Ledger!Withdraw(M)
  BY <1>1, <1>3, <1>5 DEF Ledger!Withdraw, excuses
<1> QED
  BY <1>6 DEF Ledger!Next

LEMMA LedgerCrash ==
  ASSUME TypeOK, QueueInv, QueueInv', NEW p, Processes = {p}, Crash(p)
  PROVE  Ledger!Next
<1>1. UNCHANGED <<members, status, accepted, reviews, broken>> /\ crashes' = crashes + 1
  BY DEF Crash, queue
<1>2. proc'[p] = Done
  BY AfterCrash
<1>3. flying' = {}
  BY <1>2, LedgerGrounded DEF Done
<1>4. \A b \in Batches : ~InHand(b)'
  BY <1>2, SerialHand DEF Done
<1>5. PICK M \in SUBSET Reports : Ledger!HoldBack(M)
  BY <1>1, <1>4, LedgerLetGo
<1>6. excuses' = excuses + 1
  BY <1>1 DEF excuses, TypeOK
<1>7. Ledger!Lose(M)
  BY <1>1, <1>3, <1>5, <1>6 DEF Ledger!Lose
<1> QED
  BY <1>7 DEF Ledger!Next

LEMMA LedgerStep ==
  ASSUME TypeOK, QueueInv, QueueInv', TodoIsCurrent, AcceptedIsPaid,
         NEW p, Processes = {p}, [Next]_vars
  PROVE  Ledger!Next \/ UNCHANGED <<standing, flying, accepted, excuses>>
<1>1. CASE NewDay \/ UNCHANGED vars
  <2>1. UNCHANGED <<members, status, proc, accepted, crashes, reviews, broken>>
    BY <1>1 DEF NewDay, vars, queue
  <2> QED
    BY <2>1 DEF standing, StandingOf, BatchOf, InHand, Reviewing, flying, excuses
<1>2. ASSUME NEW cmd \in {"slot", "between", "manual", "collect"}, Poll(p, cmd)
      PROVE  UNCHANGED <<standing, flying, accepted, excuses>>
  BY <1>2, LedgerQuiet DEF Commands
<1>3. Insert(p) => Ledger!Next
  BY LedgerInsert DEF Ledger!Next
<1>4. CASE Step(p)
  BY <1>3, <1>4, LedgerQuiet, LedgerSend, LedgerMark, LedgerContinue DEF Step
<1>5. ASSUME NEW cmd \in {"process", "review"}, Process(p, cmd)
      PROVE  Ledger!Next \/ UNCHANGED <<standing, flying, accepted, excuses>>
  BY <1>5, LedgerQuiet, LedgerReview
<1> QED
  BY <1>1, <1>2, <1>4, <1>5, LedgerCrash DEF Next

(* One invocation at a time: polls, slots, recoveries, reviews, crashes and *)
(* broken replies are HeldDelivery for the reports, with a crash, a review  *)
(* or a broken reply for each repetition.                                   *)
THEOREM IntradayImplementsHeldDelivery ==
  ASSUME NEW p, Processes = {p}
  PROVE  Spec => ImplementsHeldDelivery
<1>1. Init => Ledger!Init
  <2> SUFFICES ASSUME Init PROVE Ledger!Init
    OBVIOUS
  <2>1. /\ proc[p].left = {} /\ \A b \in Batches : members[b] = {}
        /\ accepted = [r \in Reports |-> 0] /\ crashes = 0 /\ reviews = 0 /\ broken = 0
    BY DEF Init, Done
  <2>2. standing = [r \in Reports |-> "absent"]
    BY <2>1 DEF standing
  <2> QED
    BY <2>1, <2>2, LedgerGrounded DEF Ledger!Init, excuses
<1>2. TypeOK /\ QueueInv /\ SerialInv /\ QueueInv' /\ [Next]_vars => [Ledger!Next]_Ledger!vars
  BY LedgerStep DEF SerialInv, Ledger!vars
<1>3. Spec => [](TypeOK /\ QueueInv /\ SerialInv)
  BY SerialCorrect
<1> QED
  BY <1>1, <1>2, <1>3, PTL DEF Spec, Ledger!Spec, ImplementsHeldDelivery
==============================================================================
