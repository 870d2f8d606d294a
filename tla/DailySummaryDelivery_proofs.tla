--------------------- MODULE DailySummaryDelivery_proofs ---------------------
(* What holds of DailySummaryDelivery for any number of processes, fragments,*)
(* signatures, invocations and crashes.                                      *)
EXTENDS DailySummaryDelivery, TLAPS

-----------------------------------------------------------------------------
(* Updating one entry of a table of tables keeps its type. *)
LEMMA NestedUpdate ==
  ASSUME NEW A, NEW B, NEW S, NEW f \in [A -> [B -> S]], NEW a, NEW b, NEW v \in S
  PROVE  [f EXCEPT ![a][b] = v] \in [A -> [B -> S]]
<1>1. CASE a \in A
  <2>1. [f[a] EXCEPT ![b] = v] \in [B -> S]
    BY <1>1
  <2> QED
    BY <1>1, <2>1
<1>2. CASE a \notin A
  BY <1>2
<1> QED
  BY <1>1, <1>2

(* Every variable keeps its type, whatever overlaps. *)
LEMMA TypeInit == Init => TypeOK
<1> SUFFICES ASSUME Init PROVE TypeOK
  OBVIOUS
<1> USE BoundsAssumption DEF BoundsAssumption, Init, RunStates, FragmentStates, PCs, Engaged
<1>1. /\ runStatus \in [Runs -> RunStates]
      /\ runSig \in [Runs -> Signatures \union {NoSignature}]
      /\ fragment \in [Runs -> [Index -> FragmentStates]]
      /\ accepted \in [Runs -> [Index -> Nat]]
  OBVIOUS
<1>2. /\ pc \in [Procs -> PCs]
      /\ run \in [Procs -> Runs \union {0}]
      /\ todo \in [Procs -> SUBSET Index]
  OBVIOUS
<1>3. /\ repeat \in [Procs -> BOOLEAN]
      /\ already \in [Procs -> BOOLEAN]
      /\ review \in [Procs -> BOOLEAN]
      /\ paging \in BOOLEAN
      /\ overlapped \in BOOLEAN
  OBVIOUS
<1>4. /\ log \subseteq {"sent", "sent_repeat", "failed", "ambiguous"}
      /\ invocations \in 0..MaxInvocations
      /\ crashes \in 0..MaxCrashes
      /\ broken \in Nat
  OBVIOUS
<1> QED
  BY <1>1, <1>2, <1>3, <1>4 DEF TypeOK

LEMMA TypeStep == TypeOK /\ [Next]_vars => TypeOK'
<1> SUFFICES ASSUME TypeOK, [Next]_vars PROVE TypeOK'
  OBVIOUS
<1> USE BoundsAssumption, MessagesAssumption
        DEF BoundsAssumption, MessagesAssumption, TypeOK, RunStates, FragmentStates,
            PCs, Engaged, Goto, tables, locals, history
<1>1. ASSUME NEW p \in Procs, NEW rep \in BOOLEAN, Invoke(p, rep) PROVE TypeOK'
  BY <1>1 DEF Invoke
<1>2. ASSUME NEW p \in Procs, SkipSent(p) \/ CheckReview(p) \/ Refuse(p) PROVE TypeOK'
  <2>1. CASE SkipSent(p)
    BY <2>1 DEF SkipSent, Exit
  <2>2. CASE CheckReview(p)
    <3>1. AmbiguousHeld \in BOOLEAN
      BY DEF AmbiguousHeld
    <3> QED
      BY <2>2, <3>1 DEF CheckReview
  <2>3. CASE Refuse(p)
    BY <2>3 DEF Refuse, Exit
  <2> QED
    BY <1>2, <2>1, <2>2, <2>3
<1>3. ASSUME NEW p \in Procs, NEW s \in Signatures, Resume(p, s) PROVE TypeOK'
  BY <1>3 DEF Resume, Superseded
<1>4. ASSUME NEW p \in Procs, NEW s \in Signatures, Start(p, s) PROVE TypeOK'
  BY <1>4 DEF Start, Superseded
<1>5. ASSUME NEW p \in Procs, ListPending(p) PROVE TypeOK'
  BY <1>5 DEF ListPending, Unsent
<1>6. ASSUME NEW p \in Procs, Send(p) PROVE TypeOK'
  <2>1. run[p] \in Runs
    BY <1>6 DEF Send, SendAccepted, SendRejected, SendUnknown
  <2>2. PICK i \in Index, n \in {0, 1} :
          accepted' = [accepted EXCEPT ![run[p]][i] = accepted[run[p]][i] + n]
    BY <1>6 DEF Send, SendAccepted, SendRejected, SendUnknown
  <2>3. accepted' \in [Runs -> [Index -> Nat]]
    BY <2>1, <2>2, NestedUpdate
  <2>4. PICK l \in {"acknowledged", "rejected", "unknown"} : pc' = [pc EXCEPT ![p] = l]
    BY <1>6 DEF Send, SendAccepted, SendRejected, SendUnknown
  <2>5. UNCHANGED <<tables, locals, invocations, crashes, overlapped>> /\ broken' \in Nat
    BY <1>6 DEF Send, SendAccepted, SendRejected, SendUnknown
  <2> QED
    BY <2>1, <2>3, <2>4, <2>5
<1>7. ASSUME NEW p \in Procs, Record(p) PROVE TypeOK'
  <2>1. PICK i \in Index, c \in FragmentStates :
          fragment' = [fragment EXCEPT ![run[p]][i] = c]
    BY <1>7 DEF Record, MarkSent, MarkFailed, MarkAmbiguous
  <2>2. fragment' \in [Runs -> [Index -> FragmentStates]]
    BY <2>1, NestedUpdate
  <2>3. CASE MarkSent(p)
    BY <2>2, <2>3 DEF MarkSent
  <2>4. CASE MarkFailed(p)
    BY <2>2, <2>4 DEF MarkFailed
  <2>5. CASE MarkAmbiguous(p)
    BY <2>2, <2>5 DEF MarkAmbiguous
  <2> QED
    BY <1>7, <2>3, <2>4, <2>5 DEF Record
<1>8. ASSUME NEW p \in Procs, LogFailure(p) PROVE TypeOK'
  BY <1>8 DEF LogFailure, Exit
<1>9. ASSUME NEW p \in Procs, Complete(p) \/ LogSent(p) \/ LogRefused(p) \/ SavePaging(p)
      PROVE  TypeOK'
  <2>1. CASE Complete(p)
    BY <2>1 DEF Complete
  <2>2. CASE LogSent(p)
    BY <2>2 DEF LogSent, LogRow
  <2>3. CASE LogRefused(p)
    BY <2>3 DEF LogRefused, Exit
  <2>4. CASE SavePaging(p)
    BY <2>4 DEF SavePaging, Exit
  <2> QED
    BY <1>9, <2>1, <2>2, <2>3, <2>4
<1>10. ASSUME NEW p \in Procs, Crash(p) PROVE TypeOK'
  BY <1>10 DEF Crash, Exit
<1>11. CASE Rest \/ UNCHANGED vars
  BY <1>11 DEF Rest, vars
<1> QED
  BY <1>1, <1>2, <1>3, <1>4, <1>5, <1>6, <1>7, <1>8, <1>9, <1>10, <1>11
  DEF Next, Step, Begin

THEOREM TypeCorrect == Spec => []TypeOK
BY TypeInit, TypeStep, PTL DEF Spec

-----------------------------------------------------------------------------
(* Until invocations overlap.                                                *)

LEMMA SerialInit == Init => SerialInv
<1> SUFFICES ASSUME Init PROVE SerialInv
  OBVIOUS
<1>1. Alone /\ MemoryIsCurrent /\ OneUnfinishedRun /\ Held
  BY DEF Init, Alone, MemoryIsCurrent, Busy, OneUnfinishedRun, Unfinished,
         Held, AmbiguousHeld
<1>2. TablesAgree /\ InOrder /\ SentWasAccepted
  BY DEF Init, TablesAgree, Resumable, InOrder, SentWasAccepted
<1>3. AcceptedIsCounted
  BY DEF Init, AcceptedIsCounted, InFlight
<1>4. RecordsAreBacked
  BY DEF Init, RecordsAreBacked
<1> QED
  BY <1>1, <1>2, <1>3, <1>4 DEF SerialInv

(* Only the process that takes a step is running, before and after it. *)
LEMMA OthersIdle ==
  ASSUME TypeOK, Alone, NEW p \in Procs, pc[p] # "idle", NEW l, pc' = [pc EXCEPT ![p] = l]
  PROVE  /\ \A q \in Procs : q # p => pc[q] = "idle" /\ pc'[q] = "idle"
         /\ pc'[p] = l
         /\ Alone'
BY DEF TypeOK, Alone

(* An invocation that begins remembers the log as it is. *)
LEMMA SerialInvoke ==
  ASSUME ~overlapped', TypeOK, SerialInv, NEW p \in Procs, NEW rep \in BOOLEAN, Invoke(p, rep)
  PROVE  SerialInv'
<1> USE DEF Invoke, Goto, tables
<1>1. /\ \A q \in Procs : pc[q] = "idle"
      /\ pc'[p] = "compose"
      /\ \A q \in Procs : q # p => pc'[q] = "idle"
  BY DEF TypeOK
<1>2. \A r \in Runs, i \in Index : ~InFlight(r, i) /\ ~InFlight(r, i)'
  BY <1>1 DEF InFlight
<1>3. Alone'
  BY <1>1 DEF Alone
<1>4. MemoryIsCurrent'
  BY <1>1 DEF SerialInv, MemoryIsCurrent, Busy, TypeOK
<1>5. TablesAgree' /\ OneUnfinishedRun' /\ InOrder' /\ SentWasAccepted' /\ RecordsAreBacked'
  BY DEF SerialInv, TablesAgree, OneUnfinishedRun, InOrder, SentWasAccepted, RecordsAreBacked
<1>6. AcceptedIsCounted'
  BY <1>2 DEF SerialInv, AcceptedIsCounted
<1>7. Held'
  BY <1>1 DEF Held
<1> QED
  BY <1>3, <1>4, <1>5, <1>6, <1>7 DEF SerialInv

(* An invocation that leaves without touching the tables. *)
LEMMA SerialLeave ==
  ASSUME TypeOK, SerialInv, NEW p \in Procs, pc[p] # "idle", Exit(p),
         UNCHANGED <<tables, accepted, broken>>, crashes' \in Nat,
         crashes' = crashes \/ crashes' = crashes + 1,
         pc[p] \in {"acknowledged", "unknown"} => crashes' = crashes + 1
  PROVE  SerialInv'
<1> USE DEF tables
<1>1. /\ \A q \in Procs : pc'[q] = "idle"
      /\ Alone'
  BY OthersIdle DEF SerialInv, Exit, Goto, TypeOK
<1>2. \A r \in Runs, i \in Index : ~InFlight(r, i)'
  BY <1>1 DEF InFlight
<1>3. MemoryIsCurrent'
  <2>1. \A q \in Procs : already'[q] => already[q]
    BY DEF Exit, TypeOK
  <2> QED
    BY <1>1, <2>1 DEF SerialInv, MemoryIsCurrent, Busy
<1>4. TablesAgree' /\ OneUnfinishedRun' /\ InOrder' /\ SentWasAccepted' /\ RecordsAreBacked'
  BY DEF SerialInv, TablesAgree, OneUnfinishedRun, InOrder, SentWasAccepted, RecordsAreBacked
<1>5. AcceptedIsCounted'
  <2> SUFFICES ASSUME NEW r \in Runs, NEW i \in Index
               PROVE  accepted[r][i] <= crashes' + broken
                        + (IF fragment[r][i] \in {"sent", "ambiguous"} THEN 1 ELSE 0)
    BY <1>2 DEF AcceptedIsCounted
  <2>1. accepted[r][i] \in Nat /\ crashes \in Nat /\ broken \in Nat
    BY BoundsAssumption DEF BoundsAssumption, TypeOK
  <2>2. accepted[r][i] <= crashes + broken
          + (IF fragment[r][i] \in {"sent", "ambiguous"} \/ InFlight(r, i) THEN 1 ELSE 0)
    BY DEF SerialInv, AcceptedIsCounted
  <2>3. CASE crashes' = crashes
    <3>1. ~InFlight(r, i)
      BY <2>1, <2>3 DEF InFlight, SerialInv, Alone
    <3> QED
      BY <2>1, <2>2, <2>3, <3>1
  <2>4. CASE crashes' = crashes + 1
    BY <2>1, <2>2, <2>4
  <2> QED
    BY <2>3, <2>4
<1>6. Held'
  BY <1>1 DEF Held
<1> QED
  BY <1>1, <1>3, <1>4, <1>5, <1>6 DEF SerialInv

(* The SELECT before the transaction: nothing moves until it begins. *)
LEMMA SerialCheckReview ==
  ASSUME TypeOK, SerialInv, NEW p \in Procs, CheckReview(p)
  PROVE  SerialInv'
<1> USE DEF CheckReview, tables, history
<1>1. /\ \A q \in Procs : q # p => pc[q] = "idle" /\ pc'[q] = "idle"
      /\ pc'[p] = "begin"
      /\ Alone'
  BY OthersIdle DEF SerialInv, Goto
<1>2. \A r \in Runs, i \in Index : ~InFlight(r, i) /\ ~InFlight(r, i)'
  BY <1>1 DEF InFlight
<1>3. AmbiguousHeld' = AmbiguousHeld
  BY DEF AmbiguousHeld
<1>4. MemoryIsCurrent'
  BY <1>1, <1>3 DEF SerialInv, MemoryIsCurrent, Busy, TypeOK
<1>5. TablesAgree' /\ OneUnfinishedRun' /\ InOrder' /\ SentWasAccepted' /\ RecordsAreBacked'
  BY DEF SerialInv, TablesAgree, OneUnfinishedRun, InOrder, SentWasAccepted, RecordsAreBacked
<1>6. AcceptedIsCounted'
  BY <1>2 DEF SerialInv, AcceptedIsCounted
<1>7. Held'
  BY <1>1 DEF Held
<1> QED
  BY <1>1, <1>4, <1>5, <1>6, <1>7 DEF SerialInv

(* The superseding UPDATEs close every unfinished run but one of this      *)
(* signature.                                                              *)
LEMMA SupersededCloses ==
  ASSUME TypeOK, SerialInv, NEW p \in Procs, NEW s \in Signatures, MayBegin(p)
  PROVE  \A r \in Runs :
           /\ Superseded(p, s)[r] \in Unfinished =>
                runStatus[r] \in Resumable /\ runSig[r] = s
           /\ Superseded(p, s)[r] # "superseded" => Superseded(p, s)[r] = runStatus[r]
           /\ runStatus[r] \in {"none", "sent"} => Superseded(p, s)[r] = runStatus[r]
           /\ Superseded(p, s)[r] = "superseded" => runStatus[r] \in Unfinished \union {"superseded"}
<1>1. review[p] = AmbiguousHeld
  BY DEF SerialInv, MemoryIsCurrent, MayBegin
<1> QED
  BY <1>1 DEF Superseded, AmbiguousHeld, Unfinished, Resumable, TypeOK, RunStates

LEMMA SerialResume ==
  ASSUME TypeOK, SerialInv, NEW p \in Procs, NEW s \in Signatures, Resume(p, s)
  PROVE  SerialInv'
<1> PICK r \in Runs : /\ IsResumed(r, s)
                      /\ runStatus' = [Superseded(p, s) EXCEPT ![r] = "pending"]
                      /\ run' = [run EXCEPT ![p] = r]
  BY DEF Resume
<1>0. MayBegin(p) /\ pc[p] = "begin" /\ pc' = [pc EXCEPT ![p] = "list"]
      /\ UNCHANGED <<runSig, fragment, log, paging, repeat, already, review, todo, history>>
  BY DEF Resume, MayBegin, Goto
<1>1. /\ \A q \in Procs : q # p => pc[q] = "idle" /\ pc'[q] = "idle"
      /\ pc'[p] = "list"
      /\ Alone'
  BY <1>0, OthersIdle DEF SerialInv
<1>2. \A x \in Runs, i \in Index : ~InFlight(x, i) /\ ~InFlight(x, i)'
  BY <1>0, <1>1 DEF InFlight
<1>3. /\ runStatus[r] \in Resumable /\ runSig[r] = s
      /\ runStatus'[r] = "pending"
      /\ \A q \in Runs : q # r => /\ runStatus'[q] = Superseded(p, s)[q]
                                  /\ runStatus'[q] \notin Unfinished
  <2>1. \A q \in Runs : q # r => Superseded(p, s)[q] \notin Unfinished
    BY <1>0, SupersededCloses DEF IsResumed, SerialInv, OneUnfinishedRun, Unfinished, Resumable
  <2> QED
    BY <2>1 DEF IsResumed, Superseded
<1>4. ~AmbiguousHeld' /\ OneUnfinishedRun'
  BY <1>3 DEF AmbiguousHeld, OneUnfinishedRun, Unfinished
<1>5. MemoryIsCurrent'
  BY <1>0, <1>1, <1>3 DEF SerialInv, MemoryIsCurrent, Busy, TypeOK
<1>6. TablesAgree'
  BY <1>0, <1>3, SupersededCloses DEF SerialInv, TablesAgree, Resumable, Unfinished
<1>7. InOrder' /\ SentWasAccepted'
  BY <1>0 DEF SerialInv, InOrder, SentWasAccepted, history
<1>8. RecordsAreBacked'
  BY <1>0, <1>3, SupersededCloses DEF SerialInv, RecordsAreBacked, Resumable
<1>9. AcceptedIsCounted'
  BY <1>0, <1>2 DEF SerialInv, AcceptedIsCounted, history
<1> QED
  BY <1>1, <1>4, <1>5, <1>6, <1>7, <1>8, <1>9 DEF SerialInv, Held

LEMMA SerialStart ==
  ASSUME TypeOK, SerialInv, NEW p \in Procs, NEW s \in Signatures, Start(p, s)
  PROVE  SerialInv'
<1> PICK r \in Runs : /\ IsFresh(r)
                      /\ runStatus' = [Superseded(p, s) EXCEPT ![r] = "pending"]
                      /\ runSig' = [runSig EXCEPT ![r] = s]
                      /\ fragment' = [fragment EXCEPT ![r] =
                           [i \in Index |-> IF i <= Size[s] THEN "pending" ELSE "none"]]
                      /\ run' = [run EXCEPT ![p] = r]
  BY DEF Start
<1>0. MayBegin(p) /\ pc[p] = "begin" /\ pc' = [pc EXCEPT ![p] = "list"]
      /\ UNCHANGED <<log, paging, repeat, already, review, todo, history>>
  BY DEF Start, MayBegin, Goto
<1>1. /\ \A q \in Procs : q # p => pc[q] = "idle" /\ pc'[q] = "idle"
      /\ pc'[p] = "list"
      /\ Alone'
  BY <1>0, OthersIdle DEF SerialInv
<1>2. \A x \in Runs, i \in Index : ~InFlight(x, i) /\ ~InFlight(x, i)'
  BY <1>0, <1>1 DEF InFlight
<1>3. /\ runStatus[r] = "none" /\ runStatus'[r] = "pending" /\ runSig'[r] = s
      /\ \A q \in Runs : q # r => /\ runStatus'[q] = Superseded(p, s)[q]
                                  /\ runStatus'[q] \notin Unfinished
                                  /\ runSig'[q] = runSig[q]
                                  /\ fragment'[q] = fragment[q]
  <2>1. \A q \in Runs : Superseded(p, s)[q] \notin Unfinished
    <3> SUFFICES ASSUME NEW q \in Runs, Superseded(p, s)[q] \in Unfinished PROVE FALSE
      OBVIOUS
    <3>1. runStatus[q] \in Resumable /\ runSig[q] = s
      BY <1>0, SupersededCloses
    <3>2. IsResumed(q, s)
      BY <3>1 DEF IsResumed, SerialInv, OneUnfinishedRun, Unfinished, Resumable, Runs
    <3> QED
      BY <3>2 DEF Start
  <2> QED
    BY <2>1 DEF IsFresh, Superseded, TypeOK
<1>4. /\ \A i \in Index : fragment[r][i] = "none"
      /\ \A i \in Index : fragment'[r][i] = IF i <= Size[s] THEN "pending" ELSE "none"
  BY <1>3 DEF SerialInv, TablesAgree, TypeOK
<1>5. ~AmbiguousHeld' /\ OneUnfinishedRun'
  BY <1>3 DEF AmbiguousHeld, OneUnfinishedRun, Unfinished
<1>6. MemoryIsCurrent'
  BY <1>0, <1>1, <1>3 DEF SerialInv, MemoryIsCurrent, Busy, TypeOK
<1>7. TablesAgree'
  <2> SUFFICES ASSUME NEW q \in Runs PROVE TablesAgree!(q)'
    BY DEF TablesAgree
  <2>1. CASE q = r
    BY <1>3, <1>4, <2>1 DEF Resumable
  <2>2. CASE q # r
    BY <1>0, <1>3, <2>2, SupersededCloses DEF SerialInv, TablesAgree, Resumable, Unfinished
  <2> QED
    BY <2>1, <2>2
<1>8. InOrder'
  BY <1>0, <1>3, <1>4 DEF SerialInv, InOrder, history
<1>9. SentWasAccepted' /\ RecordsAreBacked'
  BY <1>0, <1>3, <1>4, SupersededCloses DEF SerialInv, SentWasAccepted, RecordsAreBacked, history
<1>10. AcceptedIsCounted'
  <2> SUFFICES ASSUME NEW q \in Runs, NEW i \in Index
               PROVE  AcceptedIsCounted!(q, i)'
    BY DEF AcceptedIsCounted
  <2>1. AcceptedIsCounted!(q, i)
    BY DEF SerialInv, AcceptedIsCounted
  <2>2. fragment'[q][i] = fragment[q][i] \/ q = r
    BY <1>3
  <2> QED
    BY <1>0, <1>2, <1>4, <2>1, <2>2 DEF history
<1> QED
  BY <1>1, <1>5, <1>6, <1>7, <1>8, <1>9, <1>10 DEF SerialInv, Held

LEMMA SerialListPending ==
  ASSUME TypeOK, SerialInv, NEW p \in Procs, ListPending(p)
  PROVE  SerialInv'
<1> USE DEF ListPending, tables, history
<1>1. /\ \A q \in Procs : q # p => pc[q] = "idle" /\ pc'[q] = "idle"
      /\ pc'[p] = "sending"
      /\ Alone'
  BY OthersIdle DEF SerialInv, Goto
<1>2. \A r \in Runs, i \in Index : ~InFlight(r, i) /\ ~InFlight(r, i)'
  BY <1>1 DEF InFlight
<1>3. MemoryIsCurrent'
  <2>1. todo'[p] = Unsent(run[p])'
    BY DEF Unsent, TypeOK
  <2> QED
    BY <1>1, <2>1 DEF SerialInv, MemoryIsCurrent, Busy
<1>4. TablesAgree' /\ OneUnfinishedRun' /\ InOrder' /\ SentWasAccepted' /\ RecordsAreBacked'
  BY DEF SerialInv, TablesAgree, OneUnfinishedRun, InOrder, SentWasAccepted, RecordsAreBacked
<1>5. AcceptedIsCounted'
  BY <1>2 DEF SerialInv, AcceptedIsCounted
<1>6. Held'
  BY <1>1 DEF SerialInv, Held, AmbiguousHeld, TypeOK
<1> QED
  BY <1>1, <1>3, <1>4, <1>5, <1>6 DEF SerialInv

(* A call to Telegram for the next fragment i: the tables stay, at most    *)
(* accepted[run[p]][i] grows by one, and only if the outcome is then       *)
(* accounted for.                                                          *)
LEMMA SerialSend ==
  ASSUME TypeOK, TypeOK', SerialInv, NEW p \in Procs, Send(p)
  PROVE  SerialInv'
<1> USE DEF tables, locals
<1>1. /\ pc[p] = "sending" /\ run[p] \in Runs
      /\ UNCHANGED <<tables, locals, invocations, crashes>>
  BY DEF Send, SendAccepted, SendRejected, SendUnknown, TypeOK, Engaged, PCs
<1>2. PICK i \in Index, n \in {0, 1}, l \in {"acknowledged", "rejected", "unknown"} :
        /\ IsNext(p, i)
        /\ accepted' = [accepted EXCEPT ![run[p]][i] = accepted[run[p]][i] + n]
        /\ pc' = [pc EXCEPT ![p] = l]
        /\ l = "acknowledged" => n = 1
        /\ broken' = IF l = "rejected" THEN broken + n ELSE broken
  BY DEF Send, SendAccepted, SendRejected, SendUnknown, Goto
<1>3. /\ \A q \in Procs : q # p => pc[q] = "idle" /\ pc'[q] = "idle"
      /\ pc'[p] = l
      /\ Alone'
  BY <1>1, <1>2, OthersIdle DEF SerialInv
<1>4. /\ \A r \in Runs, j \in Index : ~InFlight(r, j)
      /\ l # "rejected" => InFlight(run[p], i)'
  BY <1>1, <1>2, <1>3 DEF InFlight, IsNext
<1>5. /\ accepted'[run[p]][i] = accepted[run[p]][i] + n
      /\ accepted[run[p]][i] \in Nat
      /\ \A r \in Runs, j \in Index :
           r # run[p] \/ j # i => accepted'[r][j] = accepted[r][j]
  BY <1>1, <1>2 DEF TypeOK
<1>6. /\ runStatus[run[p]] = "pending"
      /\ todo[p] = Unsent(run[p])
      /\ fragment[run[p]][i] \in Resumable
  BY <1>1, <1>2 DEF SerialInv, MemoryIsCurrent, Busy, IsNext, Unsent
<1>7. MemoryIsCurrent'
  <2>1. \A j \in Index : IsNext(p, j)' => j = i
    BY <1>1, <1>2 DEF IsNext, Index
  <2>2. pc'[p] = "acknowledged" => accepted'[run[p]][i] > 0
    BY <1>2, <1>3, <1>5
  <2>3. Unsent(run[p])' = Unsent(run[p])
    BY <1>1 DEF Unsent
  <2> QED
    BY <1>1, <1>3, <1>6, <2>1, <2>2, <2>3 DEF SerialInv, MemoryIsCurrent, Busy
<1>8. TablesAgree' /\ OneUnfinishedRun' /\ RecordsAreBacked'
  BY <1>1 DEF SerialInv, TablesAgree, OneUnfinishedRun, RecordsAreBacked
<1>9. SentWasAccepted'
  <2> SUFFICES ASSUME NEW r \in Runs, NEW j \in Index, fragment[r][j] = "sent"
               PROVE  accepted'[r][j] > 0
    BY <1>1 DEF SentWasAccepted
  <2>1. accepted[r][j] > 0
    BY DEF SerialInv, SentWasAccepted
  <2> QED
    BY <1>5, <2>1
<1>10. InOrder'
  <2> SUFFICES ASSUME NEW r \in Runs, NEW k \in Index, NEW j \in Index, k < j,
                      \/ fragment[r][j] \in {"failed", "ambiguous", "sent"}
                      \/ accepted'[r][j] > 0
               PROVE  fragment[r][k] = "sent"
    BY <1>1 DEF InOrder
  <2>1. CASE r = run[p] /\ j = i
    <3>1. fragment[r][k] \notin Resumable
      BY <1>2, <1>6, <2>1 DEF IsNext, Unsent, Index
    <3>2. fragment[r][k] # "none" /\ fragment[r][k] # "ambiguous"
      BY <1>6, <2>1, MessagesAssumption
      DEF SerialInv, TablesAgree, Resumable, Index, MessagesAssumption
    <3> QED
      BY <3>1, <3>2 DEF TypeOK, FragmentStates, Resumable
  <2>2. CASE r # run[p] \/ j # i
    BY <1>5, <2>2 DEF SerialInv, InOrder
  <2> QED
    BY <2>1, <2>2
<1>11. AcceptedIsCounted'
  <2> SUFFICES ASSUME NEW r \in Runs, NEW j \in Index
               PROVE  AcceptedIsCounted!(r, j)'
    BY DEF AcceptedIsCounted
  <2>1. AcceptedIsCounted!(r, j) /\ accepted[r][j] \in Nat /\ crashes \in Nat /\ broken \in Nat
    BY BoundsAssumption DEF BoundsAssumption, SerialInv, AcceptedIsCounted, TypeOK
  <2>2. CASE r = run[p] /\ j = i
    BY <1>1, <1>2, <1>4, <1>5, <1>6, <2>1, <2>2 DEF Resumable
  <2>3. CASE r # run[p] \/ j # i
    <3>1. /\ accepted'[r][j] = accepted[r][j]
          /\ UNCHANGED <<fragment, crashes>>
          /\ broken' \in Nat /\ broken' >= broken
      BY <1>1, <1>2, <1>5, <2>1, <2>3
    <3>2. accepted[r][j] <= crashes + broken
            + (IF fragment[r][j] \in {"sent", "ambiguous"} THEN 1 ELSE 0)
      BY <1>4, <2>1
    <3> QED
      BY <2>1, <3>1, <3>2
  <2> QED
    BY <2>2, <2>3
<1>12. Held'
  BY <1>1, <1>3 DEF SerialInv, Held, AmbiguousHeld
<1> QED
  BY <1>3, <1>7, <1>8, <1>9, <1>10, <1>11, <1>12 DEF SerialInv

(* Recording the outcome of fragment i of run r.                           *)
LEMMA SerialMarkSent ==
  ASSUME TypeOK, TypeOK', SerialInv, NEW p \in Procs, MarkSent(p)
  PROVE  SerialInv'
<1> DEFINE r == run[p]
<1>1. /\ pc[p] = "acknowledged" /\ r \in Runs
      /\ pc' = [pc EXCEPT ![p] = "sending"]
      /\ UNCHANGED <<runStatus, runSig, log, paging, repeat, already, review, run, history>>
  BY DEF MarkSent, TypeOK, Engaged, PCs, Goto
<1>2. PICK i \in Index : /\ IsNext(p, i)
                         /\ fragment' = [fragment EXCEPT ![r][i] = "sent"]
                         /\ todo' = [todo EXCEPT ![p] = @ \ {i}]
  BY DEF MarkSent
<1>3. /\ \A q \in Procs : q # p => pc[q] = "idle" /\ pc'[q] = "idle"
      /\ pc'[p] = "sending"
      /\ Alone'
  BY <1>1, OthersIdle DEF SerialInv
<1>4. /\ \A x \in Runs, j \in Index : ~InFlight(x, j)'
      /\ \A x \in Runs, j \in Index : x # r \/ j # i => ~InFlight(x, j)
  BY <1>1, <1>2, <1>3 DEF InFlight, IsNext, Index
<1>5. /\ fragment'[r][i] = "sent"
      /\ \A x \in Runs, j \in Index : x # r \/ j # i => fragment'[x][j] = fragment[x][j]
  BY <1>1, <1>2 DEF TypeOK
<1>6. /\ runStatus[r] = "pending"
      /\ todo[p] = Unsent(r) /\ fragment[r][i] \in Resumable
      /\ accepted[r][i] > 0
  BY <1>1, <1>2 DEF SerialInv, MemoryIsCurrent, Busy, IsNext, Unsent
<1>7. MemoryIsCurrent'
  <2>1. todo'[p] = Unsent(r)'
    BY <1>1, <1>2, <1>5, <1>6 DEF Unsent, Resumable, TypeOK
  <2> QED
    BY <1>1, <1>3, <1>6, <2>1 DEF SerialInv, MemoryIsCurrent, Busy
<1>8. TablesAgree'
  BY <1>1, <1>5, <1>6 DEF SerialInv, TablesAgree, Resumable
<1>9. OneUnfinishedRun' /\ RecordsAreBacked'
  BY <1>1 DEF SerialInv, OneUnfinishedRun, RecordsAreBacked
<1>10. SentWasAccepted'
  BY <1>1, <1>5, <1>6 DEF SerialInv, SentWasAccepted, history
<1>11. InOrder'
  <2> SUFFICES ASSUME NEW x \in Runs, NEW k \in Index, NEW j \in Index, k < j,
                      \/ fragment'[x][j] \in {"failed", "ambiguous", "sent"}
                      \/ accepted[x][j] > 0
               PROVE  fragment'[x][k] = "sent"
    BY <1>1 DEF InOrder, history
  <2>1. CASE x = r /\ j = i
    BY <1>5, <1>6, <2>1 DEF SerialInv, InOrder
  <2>2. CASE x # r \/ j # i
    BY <1>5, <2>2 DEF SerialInv, InOrder
  <2> QED
    BY <2>1, <2>2
<1>12. AcceptedIsCounted'
  <2> SUFFICES ASSUME NEW x \in Runs, NEW j \in Index
               PROVE  AcceptedIsCounted!(x, j)'
    BY DEF AcceptedIsCounted
  <2>1. AcceptedIsCounted!(x, j) /\ accepted[x][j] \in Nat /\ crashes \in Nat /\ broken \in Nat
    BY BoundsAssumption DEF BoundsAssumption, SerialInv, AcceptedIsCounted, TypeOK
  <2> QED
    BY <1>1, <1>4, <1>5, <2>1 DEF history
<1>13. Held'
  BY <1>1, <1>6 DEF SerialInv, OneUnfinishedRun, Unfinished, Held, AmbiguousHeld
<1> QED
  BY <1>3, <1>7, <1>8, <1>9, <1>10, <1>11, <1>12, <1>13 DEF SerialInv

LEMMA SerialMarkError ==
  ASSUME TypeOK, TypeOK', SerialInv, NEW p \in Procs, MarkFailed(p) \/ MarkAmbiguous(p)
  PROVE  SerialInv'
<1> DEFINE r == run[p]
<1>1. /\ pc[p] \in {"rejected", "unknown"} /\ r \in Runs
      /\ UNCHANGED <<runSig, log, paging, locals, history>>
  BY DEF MarkFailed, MarkAmbiguous, TypeOK, Engaged, PCs, Goto
<1>2. PICK i \in Index, st \in {"failed", "ambiguous"}, l \in {"log-failed", "log-ambiguous"} :
         /\ IsNext(p, i)
         /\ fragment' = [fragment EXCEPT ![r][i] = st]
         /\ runStatus' = [runStatus EXCEPT ![r] = st]
         /\ pc' = [pc EXCEPT ![p] = l]
         /\ st = "failed" => pc[p] = "rejected"
  BY DEF MarkFailed, MarkAmbiguous, Goto
<1>3. /\ \A q \in Procs : q # p => pc[q] = "idle" /\ pc'[q] = "idle"
      /\ pc'[p] = l
      /\ Alone'
  BY <1>1, <1>2, OthersIdle DEF SerialInv
<1>4. \A x \in Runs, j \in Index :
        /\ ~InFlight(x, j)'
        /\ x # r \/ j # i => ~InFlight(x, j)
        /\ st = "failed" => ~InFlight(x, j)
  BY <1>1, <1>2, <1>3 DEF InFlight, IsNext, Index
<1>5. /\ fragment'[r][i] = st /\ runStatus'[r] = st
      /\ \A x \in Runs, j \in Index : x # r \/ j # i => fragment'[x][j] = fragment[x][j]
      /\ \A x \in Runs : x # r => runStatus'[x] = runStatus[x]
  BY <1>1, <1>2 DEF TypeOK
<1>6. /\ runStatus[r] = "pending"
      /\ todo[p] = Unsent(r) /\ fragment[r][i] \in Resumable
  BY <1>1, <1>2 DEF SerialInv, MemoryIsCurrent, Busy, IsNext, Unsent
<1>7. MemoryIsCurrent'
  BY <1>1, <1>3 DEF SerialInv, MemoryIsCurrent, Busy, locals
<1>8. TablesAgree'
  <2> SUFFICES ASSUME NEW x \in Runs PROVE TablesAgree!(x)'
    BY DEF TablesAgree
  <2>1. TablesAgree!(x)
    BY DEF SerialInv, TablesAgree
  <2>2. CASE x = r
    BY <1>1, <1>5, <1>6, <2>1, <2>2 DEF Resumable
  <2>3. CASE x # r
    BY <1>1, <1>5, <2>1, <2>3
  <2> QED
    BY <2>2, <2>3
<1>9. OneUnfinishedRun'
  BY <1>5, <1>6 DEF SerialInv, OneUnfinishedRun, Unfinished
<1>10. RecordsAreBacked'
  BY <1>1, <1>5, <1>6 DEF SerialInv, RecordsAreBacked
<1>11. SentWasAccepted'
  BY <1>1, <1>5 DEF SerialInv, SentWasAccepted, history
<1>12. InOrder'
  <2> SUFFICES ASSUME NEW x \in Runs, NEW k \in Index, NEW j \in Index, k < j,
                      \/ fragment'[x][j] \in {"failed", "ambiguous", "sent"}
                      \/ accepted[x][j] > 0
               PROVE  fragment'[x][k] = "sent"
    BY <1>1 DEF InOrder, history
  <2>1. fragment[x][k] = "sent"
    <3>1. CASE x = r /\ j = i
      <4>1. fragment[r][k] \notin Resumable
        BY <1>2, <1>6, <3>1 DEF IsNext, Unsent, Index
      <4>2. fragment[r][k] # "none" /\ fragment[r][k] # "ambiguous"
        BY <1>6, <3>1, MessagesAssumption
        DEF SerialInv, TablesAgree, Resumable, Index, MessagesAssumption
      <4> QED
        BY <3>1, <4>1, <4>2 DEF TypeOK, FragmentStates, Resumable
    <3>2. CASE x # r \/ j # i
      BY <1>5, <3>2 DEF SerialInv, InOrder
    <3> QED
      BY <3>1, <3>2
  <2>2. x # r \/ k # i
    BY <1>6, <2>1 DEF Resumable
  <2> QED
    BY <1>5, <2>1, <2>2
<1>13. AcceptedIsCounted'
  <2> SUFFICES ASSUME NEW x \in Runs, NEW j \in Index
               PROVE  AcceptedIsCounted!(x, j)'
    BY DEF AcceptedIsCounted
  <2>1. AcceptedIsCounted!(x, j) /\ accepted[x][j] \in Nat /\ crashes \in Nat /\ broken \in Nat
    BY BoundsAssumption DEF BoundsAssumption, SerialInv, AcceptedIsCounted, TypeOK
  <2> QED
    BY <1>1, <1>4, <1>5, <1>6, <2>1 DEF history, Resumable
<1>14. Held'
  BY <1>3 DEF Held
<1> QED
  BY <1>3, <1>7, <1>8, <1>9, <1>10, <1>11, <1>12, <1>13, <1>14 DEF SerialInv

(* Closing the run: every fragment that is not sent would still be listed. *)
LEMMA SerialComplete ==
  ASSUME TypeOK, TypeOK', SerialInv, NEW p \in Procs, Complete(p)
  PROVE  SerialInv'
<1> DEFINE r == run[p]
<1>1. /\ pc[p] = "sending" /\ todo[p] = {} /\ r \in Runs
      /\ runStatus' = [runStatus EXCEPT ![r] = "sent"]
      /\ pc' = [pc EXCEPT ![p] = "completed"]
      /\ UNCHANGED <<runSig, fragment, log, paging, locals, history>>
  BY DEF Complete, TypeOK, Engaged, PCs, Goto
<1>2. /\ \A q \in Procs : q # p => pc[q] = "idle" /\ pc'[q] = "idle"
      /\ pc'[p] = "completed"
      /\ Alone'
  BY <1>1, OthersIdle DEF SerialInv
<1>3. \A x \in Runs, j \in Index : ~InFlight(x, j) /\ ~InFlight(x, j)'
  BY <1>1, <1>2 DEF InFlight
<1>4. /\ runStatus[r] = "pending" /\ runStatus'[r] = "sent"
      /\ \A x \in Runs : x # r => runStatus'[x] = runStatus[x]
  BY <1>1 DEF SerialInv, MemoryIsCurrent, Busy, TypeOK
<1>5. \A i \in Index : fragment[r][i] \in {"sent", "none"}
  <2>1. \A i \in Index : fragment[r][i] \notin Resumable
    BY <1>1 DEF SerialInv, MemoryIsCurrent, Busy, Unsent
  <2>2. \A i \in Index : fragment[r][i] # "ambiguous"
    BY <1>1, <1>4 DEF SerialInv, TablesAgree, Resumable
  <2> QED
    BY <1>1, <2>1, <2>2 DEF TypeOK, FragmentStates, Resumable
<1>6. MemoryIsCurrent'
  BY <1>1, <1>2, <1>4 DEF SerialInv, MemoryIsCurrent, Busy, locals
<1>7. TablesAgree'
  BY <1>1, <1>4, <1>5 DEF SerialInv, TablesAgree, Resumable
<1>8. OneUnfinishedRun' /\ RecordsAreBacked'
  BY <1>1, <1>4 DEF SerialInv, OneUnfinishedRun, Unfinished, RecordsAreBacked
<1>9. InOrder' /\ SentWasAccepted'
  BY <1>1 DEF SerialInv, InOrder, SentWasAccepted, history
<1>10. AcceptedIsCounted'
  BY <1>1, <1>3 DEF SerialInv, AcceptedIsCounted, history
<1>11. Held'
  BY <1>2 DEF Held
<1> QED
  BY <1>2, <1>6, <1>7, <1>8, <1>9, <1>10, <1>11 DEF SerialInv

LEMMA SerialLogSent ==
  ASSUME TypeOK, TypeOK', SerialInv, NEW p \in Procs, LogSent(p)
  PROVE  SerialInv'
<1>1. /\ pc[p] = "completed" /\ run[p] \in Runs
      /\ pc' = [pc EXCEPT ![p] = "paging"]
      /\ log \subseteq log'
      /\ UNCHANGED <<runStatus, runSig, fragment, paging, locals, history>>
  BY DEF LogSent, LogRow, Goto, TypeOK, Engaged, PCs
<1>2. /\ \A q \in Procs : q # p => pc[q] = "idle" /\ pc'[q] = "idle"
      /\ pc'[p] = "paging"
      /\ Alone'
  BY <1>1, OthersIdle DEF SerialInv
<1>3. \A x \in Runs, j \in Index : ~InFlight(x, j) /\ ~InFlight(x, j)'
  BY <1>1, <1>2 DEF InFlight
<1>4. "sent" \in log' /\ runStatus[run[p]] = "sent"
  <2>1. already[p] => "sent" \in log
    BY DEF SerialInv, MemoryIsCurrent
  <2> QED
    BY <1>1, <2>1 DEF LogSent, LogRow, SerialInv, MemoryIsCurrent
<1>5. MemoryIsCurrent'
  BY <1>1, <1>2, <1>4 DEF SerialInv, MemoryIsCurrent, Busy, locals
<1>6. TablesAgree' /\ OneUnfinishedRun' /\ InOrder' /\ SentWasAccepted'
  BY <1>1 DEF SerialInv, TablesAgree, OneUnfinishedRun, InOrder, SentWasAccepted, history
<1>7. RecordsAreBacked'
  BY <1>1, <1>4 DEF RecordsAreBacked
<1>8. AcceptedIsCounted'
  BY <1>1, <1>3 DEF SerialInv, AcceptedIsCounted, history
<1>9. Held'
  BY <1>2 DEF Held
<1> QED
  BY <1>2, <1>5, <1>6, <1>7, <1>8, <1>9 DEF SerialInv

(* The two exits that write: the failure row and the control state. *)
LEMMA SerialExitWriting ==
  ASSUME TypeOK, TypeOK', SerialInv, NEW p \in Procs, LogFailure(p) \/ SavePaging(p)
  PROVE  SerialInv'
<1>1. /\ pc[p] \in {"log-failed", "log-ambiguous", "paging"}
      /\ log \subseteq log'
      /\ "sent" \in log' => "sent" \in log
      /\ paging' = paging \/ "sent" \in log
      /\ Exit(p)
      /\ UNCHANGED <<runStatus, runSig, fragment, history>>
  BY DEF LogFailure, SavePaging, SerialInv, MemoryIsCurrent
<1>2. /\ \A q \in Procs : pc'[q] = "idle"
      /\ Alone'
  BY <1>1, OthersIdle DEF SerialInv, Exit, Goto, TypeOK
<1>3. \A x \in Runs, j \in Index : ~InFlight(x, j) /\ ~InFlight(x, j)'
  BY <1>1, <1>2 DEF InFlight, SerialInv, Alone
<1>4. MemoryIsCurrent'
  <2>1. \A q \in Procs : already'[q] => already[q]
    BY <1>1 DEF Exit, TypeOK
  <2> QED
    BY <1>1, <1>2, <2>1 DEF SerialInv, MemoryIsCurrent, Busy
<1>5. TablesAgree' /\ OneUnfinishedRun' /\ InOrder' /\ SentWasAccepted'
  BY <1>1 DEF SerialInv, TablesAgree, OneUnfinishedRun, InOrder, SentWasAccepted, history
<1>6. RecordsAreBacked'
  BY <1>1 DEF SerialInv, RecordsAreBacked
<1>7. AcceptedIsCounted'
  BY <1>1, <1>3 DEF SerialInv, AcceptedIsCounted, history
<1>8. Held'
  BY <1>2 DEF Held
<1> QED
  BY <1>2, <1>4, <1>5, <1>6, <1>7, <1>8 DEF SerialInv

LEMMA SerialStutter ==
  ASSUME SerialInv, UNCHANGED vars PROVE SerialInv'
<1> USE DEF vars, SerialInv
<1>1. Alone' /\ OneUnfinishedRun' /\ InOrder' /\ RecordsAreBacked' /\ SentWasAccepted'
  BY DEF Alone, OneUnfinishedRun, InOrder, RecordsAreBacked, SentWasAccepted
<1>2. Held' /\ TablesAgree'
  BY DEF Held, AmbiguousHeld, TablesAgree
<1>3. MemoryIsCurrent'
  BY DEF MemoryIsCurrent, AmbiguousHeld, IsNext, Unsent
<1>4. AcceptedIsCounted'
  BY DEF AcceptedIsCounted, InFlight, IsNext
<1> QED
  BY <1>1, <1>2, <1>3, <1>4

LEMMA SerialStep ==
  ASSUME ~overlapped', TypeOK, TypeOK', SerialInv, [Next]_vars
  PROVE  SerialInv'
<1>1. ASSUME NEW p \in Procs, NEW rep \in BOOLEAN, Invoke(p, rep) PROVE SerialInv'
  BY <1>1, SerialInvoke
<1>2. ASSUME NEW p \in Procs, SkipSent(p) \/ Refuse(p) \/ LogRefused(p) \/ Crash(p)
      PROVE  SerialInv'
  <2>1. crashes' \in Nat
    BY BoundsAssumption DEF BoundsAssumption, TypeOK
  <2> QED
    BY <1>2, <2>1, SerialLeave DEF SkipSent, Refuse, LogRefused, Crash, history, tables
<1>3. ASSUME NEW p \in Procs, Step(p) PROVE SerialInv'
  <2>1. ASSUME NEW s \in Signatures, Resume(p, s) \/ Start(p, s) PROVE SerialInv'
    BY <2>1, SerialResume, SerialStart
  <2>2. Record(p) => SerialInv'
    BY SerialMarkSent, SerialMarkError DEF Record
  <2>3. Send(p) => SerialInv'
    BY SerialSend
  <2> QED
    BY <1>2, <1>3, <2>1, <2>2, <2>3, SerialCheckReview, SerialListPending, SerialExitWriting,
       SerialComplete, SerialLogSent DEF Step, Begin
<1>4. CASE UNCHANGED vars
  BY <1>4, SerialStutter
<1> QED
  BY <1>1, <1>2, <1>3, <1>4 DEF Next, Rest

(* Invocations that have overlapped stay so. *)
LEMMA OverlappedStays == TypeOK /\ overlapped /\ [Next]_vars => overlapped'
<1> SUFFICES ASSUME overlapped, [Next]_vars PROVE overlapped'
  OBVIOUS
<1> USE DEF history
<1>1. ASSUME NEW p \in Procs, NEW rep \in BOOLEAN, Invoke(p, rep) PROVE overlapped'
  BY <1>1 DEF Invoke
<1>2. ASSUME NEW p \in Procs, Send(p) \/ Crash(p) PROVE overlapped'
  BY <1>2 DEF Send, SendAccepted, SendRejected, SendUnknown, Crash
<1>3. ASSUME NEW p \in Procs, Begin(p) \/ ListPending(p) \/ Record(p) PROVE overlapped'
  BY <1>3 DEF Begin, Resume, Start, ListPending, Record, MarkSent, MarkFailed, MarkAmbiguous
<1>4. ASSUME NEW p \in Procs,
             SkipSent(p) \/ CheckReview(p) \/ Refuse(p) \/ LogFailure(p) \/ Complete(p)
             \/ LogSent(p) \/ LogRefused(p) \/ SavePaging(p)
      PROVE  overlapped'
  BY <1>4 DEF SkipSent, CheckReview, Refuse, LogFailure, Complete, LogSent, LogRefused,
              SavePaging
<1>5. CASE Rest \/ UNCHANGED vars
  BY <1>5 DEF Rest, vars
<1> QED
  BY <1>1, <1>2, <1>3, <1>4, <1>5 DEF Next, Step

(* Until invocations overlap, the tables, the log and what Telegram        *)
(* accepted stay in step, however often invocations are killed and replies *)
(* break off.                                                              *)
THEOREM SerialCorrect == Spec => [](TypeOK /\ (overlapped \/ SerialInv))
<1>1. Init => TypeOK /\ (overlapped \/ SerialInv)
  BY TypeInit, SerialInit
<1>2. TypeOK /\ (overlapped \/ SerialInv) /\ [Next]_vars => (TypeOK /\ (overlapped \/ SerialInv))'
  <2> SUFFICES ASSUME TypeOK, overlapped \/ SerialInv, [Next]_vars, ~overlapped'
               PROVE  TypeOK' /\ SerialInv'
    BY TypeStep
  <2>1. ~overlapped
    BY OverlappedStays
  <2> QED
    BY <2>1, TypeStep, SerialStep
<1> QED
  BY <1>1, <1>2, PTL DEF Spec

(* Telegram accepts a fragment of a run twice only across a crash between  *)
(* sendMessage and the transaction that records its outcome.               *)
THEOREM DuplicateNeedsCrashAlways == Spec => []DuplicateNeedsCrash
<1>1. TypeOK /\ (overlapped \/ SerialInv) => DuplicateNeedsCrash
  BY BoundsAssumption
  DEF BoundsAssumption, SerialInv, AcceptedIsCounted, DuplicateNeedsCrash, TypeOK
<1> QED
  BY <1>1, SerialCorrect, PTL

(* A fragment recorded as failed, which will be sent again, was not        *)
(* accepted in an invocation that lived to record it.                      *)
THEOREM FailedWasNotAcceptedAlways == Spec => []FailedWasNotAccepted
<1>1. TypeOK /\ (overlapped \/ SerialInv) => FailedWasNotAccepted
  <2> SUFFICES ASSUME TypeOK, SerialInv, NEW r \in Runs, NEW i \in Index,
                      fragment[r][i] = "failed", ~InFlight(r, i)
               PROVE  accepted[r][i] <= crashes + broken
    BY DEF FailedWasNotAccepted
  <2>1. accepted[r][i] <= crashes + broken + 0
    BY DEF SerialInv, AcceptedIsCounted
  <2>2. crashes \in Nat /\ broken \in Nat
    BY BoundsAssumption DEF BoundsAssumption, TypeOK
  <2> QED
    BY <2>1, <2>2
<1> QED
  BY <1>1, SerialCorrect, PTL

(* A run recorded as sent is complete: all fragments sent and accepted. *)
THEOREM SentRunIsCompleteAlways == Spec => []SentRunIsComplete
<1>1. TypeOK /\ (overlapped \/ SerialInv) => SentRunIsComplete
  <2> SUFFICES ASSUME TypeOK, SerialInv, NEW r \in Runs, runStatus[r] = "sent",
                      NEW i \in 1..Size[runSig[r]]
               PROVE  fragment[r][i] = "sent" /\ accepted[r][i] > 0
    BY DEF SentRunIsComplete
  <2>1. runSig[r] \in Signatures
    BY DEF SerialInv, TablesAgree
  <2>2. i \in Index /\ i <= Size[runSig[r]]
    BY <2>1, MessagesAssumption, BoundsAssumption DEF MessagesAssumption, BoundsAssumption, Index
  <2>3. fragment[r][i] = "sent"
    BY <2>2 DEF SerialInv, TablesAgree
  <2> QED
    BY <2>2, <2>3 DEF SerialInv, SentWasAccepted
<1> QED
  BY <1>1, SerialCorrect, PTL

(* A completed delivery always finds room for its row in delivery_log.     *)
THEOREM DeliveryCanBeLoggedAlways == Spec => []DeliveryCanBeLogged
<1>1. TypeOK /\ (overlapped \/ SerialInv) => DeliveryCanBeLogged
  BY DEF TypeOK, SerialInv, MemoryIsCurrent, DeliveryCanBeLogged, IsLogged, LogRow
<1> QED
  BY <1>1, SerialCorrect, PTL

LEMMA AmbiguityStep ==
  ASSUME TypeOK, SerialInv, Next
  PROVE  \A r \in Runs : runStatus[r] = "ambiguous" =>
           runStatus'[r] = "ambiguous" \/ ClosedByOperator(r)
<1>1. ASSUME NEW p \in Procs, NEW s \in Signatures, Resume(p, s) \/ Start(p, s),
             NEW r \in Runs, runStatus[r] = "ambiguous"
      PROVE  runStatus'[r] = "ambiguous" \/ ClosedByOperator(r)
  <2>1. /\ pc[p] = "begin" /\ pc'[p] = "list"
        /\ repeat[p] \/ ~review[p]
    BY <1>1 DEF Resume, Start, MayBegin, Goto, TypeOK
  <2>2. review[p] = AmbiguousHeld
    BY <2>1 DEF SerialInv, MemoryIsCurrent
  <2>3. repeat[p] /\ review[p]
    BY <1>1, <2>1, <2>2 DEF AmbiguousHeld, TypeOK
  <2>4. runStatus'[r] = "superseded"
    BY <1>1, <2>3 DEF Resume, Start, Superseded, IsResumed, IsFresh, Resumable, TypeOK
  <2> QED
    BY <2>1, <2>3, <2>4 DEF ClosedByOperator
<1>2. ASSUME NEW p \in Procs, MarkFailed(p) \/ MarkAmbiguous(p) \/ Complete(p),
             NEW r \in Runs, runStatus[r] = "ambiguous"
      PROVE  runStatus'[r] = "ambiguous"
  <2>1. runStatus[run[p]] = "pending"
    BY <1>2 DEF MarkFailed, MarkAmbiguous, Complete, SerialInv, MemoryIsCurrent, Busy
  <2> QED
    BY <1>2, <2>1 DEF MarkFailed, MarkAmbiguous, Complete, TypeOK
<1>3. ASSUME NEW p \in Procs, ListPending(p) \/ MarkSent(p) \/ LogFailure(p) \/ LogSent(p)
      PROVE  UNCHANGED runStatus
  BY <1>3 DEF ListPending, MarkSent, LogFailure, LogSent, tables
<1>4. ASSUME NEW p \in Procs, SavePaging(p) \/ Send(p)
      PROVE  UNCHANGED runStatus
  BY <1>4 DEF SavePaging, Send, SendAccepted, SendRejected, SendUnknown, tables
<1>5. ASSUME NEW p \in Procs, NEW rep \in BOOLEAN,
             Invoke(p, rep) \/ SkipSent(p) \/ CheckReview(p) \/ Refuse(p) \/ LogRefused(p)
             \/ Crash(p)
      PROVE  UNCHANGED runStatus
  BY <1>5 DEF Invoke, SkipSent, CheckReview, Refuse, LogRefused, Crash, tables
<1>6. Rest => UNCHANGED runStatus
  BY DEF Rest, vars
<1> QED
  BY <1>1, <1>2, <1>3, <1>4, <1>5, <1>6 DEF Next, Step, Begin, Record

(* Until invocations overlap, only --allow-repeat ends the hold of an       *)
(* ambiguous run, and as long as it lasts nothing is sent.                  *)
THEOREM AmbiguityIsHeldAlways == Spec => AmbiguityIsHeld
<1>1. TypeOK /\ (overlapped \/ SerialInv) /\ [Next]_vars =>
        [~overlapped' =>
           /\ \A r \in Runs : runStatus[r] = "ambiguous" =>
                runStatus'[r] = "ambiguous" \/ ClosedByOperator(r)
           /\ AmbiguousHeld => ~\E p \in Procs, i \in Index : Attempt(p, i)]_vars
  <2>1. SerialInv => (AmbiguousHeld => ~\E p \in Procs, i \in Index : Attempt(p, i))
    BY DEF SerialInv, Held, Attempt
  <2> QED
    BY <2>1, OverlappedStays, AmbiguityStep
<1> QED
  BY <1>1, SerialCorrect, PTL DEF Spec, AmbiguityIsHeld

(* Until invocations overlap, at most one run is unfinished. *)
THEOREM OneUnfinishedRunAlways == Spec => [](overlapped \/ OneUnfinishedRun)
<1>1. overlapped \/ SerialInv => overlapped \/ OneUnfinishedRun
  BY DEF SerialInv
<1> QED
  BY <1>1, SerialCorrect, PTL

LEMMA FinishedRunsStayStep ==
  ASSUME TypeOK, SerialInv, Next
  PROVE  \A r \in Runs : runStatus[r] \in {"sent", "superseded"} => runStatus'[r] = runStatus[r]
<1>1. ASSUME NEW p \in Procs, NEW s \in Signatures, Resume(p, s) \/ Start(p, s)
      PROVE  \A r \in Runs : runStatus[r] \in {"sent", "superseded"} => runStatus'[r] = runStatus[r]
  BY <1>1 DEF Resume, Start, Superseded, IsResumed, IsFresh, Resumable, TypeOK
<1>2. ASSUME NEW p \in Procs, MarkFailed(p) \/ MarkAmbiguous(p) \/ Complete(p)
      PROVE  \A r \in Runs : runStatus[r] \in {"sent", "superseded"} => runStatus'[r] = runStatus[r]
  <2>1. runStatus[run[p]] = "pending"
    BY <1>2 DEF MarkFailed, MarkAmbiguous, Complete, SerialInv, MemoryIsCurrent, Busy
  <2> QED
    BY <1>2, <2>1 DEF MarkFailed, MarkAmbiguous, Complete, TypeOK
<1>3. ASSUME NEW p \in Procs, ListPending(p) \/ MarkSent(p) \/ LogFailure(p) \/ LogSent(p)
      PROVE  UNCHANGED runStatus
  BY <1>3 DEF ListPending, MarkSent, LogFailure, LogSent, tables
<1>4. ASSUME NEW p \in Procs, SavePaging(p) \/ Send(p)
      PROVE  UNCHANGED runStatus
  BY <1>4 DEF SavePaging, Send, SendAccepted, SendRejected, SendUnknown, tables
<1>5. ASSUME NEW p \in Procs, NEW rep \in BOOLEAN,
             Invoke(p, rep) \/ SkipSent(p) \/ CheckReview(p) \/ Refuse(p) \/ LogRefused(p)
             \/ Crash(p)
      PROVE  UNCHANGED runStatus
  BY <1>5 DEF Invoke, SkipSent, CheckReview, Refuse, LogRefused, Crash, tables
<1>6. Rest => UNCHANGED runStatus
  BY DEF Rest, vars
<1> QED
  BY <1>1, <1>2, <1>3, <1>4, <1>5, <1>6 DEF Next, Step, Begin, Record

(* A run that was sent or superseded is never opened again. *)
THEOREM FinishedRunsStayAlways == Spec => FinishedRunsStay
<1>1. TypeOK /\ (overlapped \/ SerialInv) /\ [Next]_vars =>
        [~overlapped' => \A r \in Runs : runStatus[r] \in {"sent", "superseded"}
           => runStatus'[r] = runStatus[r]]_vars
  BY OverlappedStays, FinishedRunsStayStep
<1> QED
  BY <1>1, SerialCorrect, PTL DEF Spec, FinishedRunsStay

(* The tables are written in order and ahead of the log: no fragment is     *)
(* attempted before those in front of it are recorded as sent, and neither  *)
(* the log nor the control file says more than the runs.                    *)
THEOREM DeliveredInOrderAlways ==
  Spec => [](DeliveredInOrder /\ (overlapped \/ RecordsAreBacked))
<1>1. overlapped \/ SerialInv => DeliveredInOrder /\ (overlapped \/ RecordsAreBacked)
  BY DEF SerialInv, DeliveredInOrder
<1> QED
  BY <1>1, SerialCorrect, PTL

-----------------------------------------------------------------------------
(* Whatever overlaps: a process that was answered knows of an acceptance.    *)

AnswerIsAcceptance ==
  \A p \in Procs, i \in Index :
    pc[p] = "acknowledged" /\ IsNext(p, i) => accepted[run[p]][i] > 0

LEMMA AcceptedStays ==
  ASSUME TypeOK, AnswerIsAcceptance, SentWasAccepted, UNCHANGED <<fragment, accepted>>,
         NEW p \in Procs,
         pc'[p] # "acknowledged",
         \A q \in Procs : q # p => /\ pc'[q] = pc[q] /\ run'[q] = run[q]
                                   /\ todo'[q] = todo[q]
  PROVE  AnswerIsAcceptance' /\ SentWasAccepted'
BY DEF AnswerIsAcceptance, SentWasAccepted, IsNext

LEMMA AcceptedSend ==
  ASSUME TypeOK, AnswerIsAcceptance, SentWasAccepted, NEW p \in Procs, Send(p)
  PROVE  AnswerIsAcceptance' /\ SentWasAccepted'
<1>1. /\ pc[p] = "sending" /\ run[p] \in Runs
      /\ UNCHANGED <<tables, locals, invocations, crashes>>
  BY DEF Send, SendAccepted, SendRejected, SendUnknown, TypeOK, Engaged, PCs
<1>2. PICK i \in Index, n \in {0, 1}, l \in {"acknowledged", "rejected", "unknown"} :
        /\ IsNext(p, i)
        /\ accepted' = [accepted EXCEPT ![run[p]][i] = accepted[run[p]][i] + n]
        /\ pc' = [pc EXCEPT ![p] = l]
        /\ l = "acknowledged" => n = 1
  BY DEF Send, SendAccepted, SendRejected, SendUnknown, Goto
<1>3. /\ accepted'[run[p]][i] = accepted[run[p]][i] + n
      /\ \A r \in Runs, j \in Index :
           /\ accepted[r][j] \in Nat
           /\ r # run[p] \/ j # i => accepted'[r][j] = accepted[r][j]
  BY <1>1, <1>2 DEF TypeOK
<1>4. \A r \in Runs, j \in Index : accepted[r][j] > 0 => accepted'[r][j] > 0
  BY <1>3
<1>5. SentWasAccepted'
  BY <1>1, <1>4 DEF SentWasAccepted, tables
<1>6. ASSUME NEW q \in Procs, NEW j \in Index, pc'[q] = "acknowledged", IsNext(q, j)'
      PROVE  accepted'[run'[q]][j] > 0
  <2>1. run'[q] = run[q] /\ IsNext(q, j)
    BY <1>1, <1>6 DEF IsNext, locals
  <2>2. CASE q = p
    <3>1. j = i
      BY <1>2, <2>1, <2>2 DEF IsNext, Index
    <3>2. n = 1
      BY <1>2, <1>6, <2>2 DEF TypeOK
    <3> QED
      BY <1>1, <1>3, <2>1, <2>2, <3>1, <3>2
  <2>3. CASE q # p
    <3>1. pc[q] = "acknowledged"
      BY <1>2, <1>6, <2>3 DEF TypeOK
    <3>2. run[q] \in Runs
      BY <3>1 DEF TypeOK, Engaged, PCs
    <3> QED
      BY <1>4, <2>1, <3>1, <3>2 DEF AnswerIsAcceptance
  <2> QED
    BY <2>2, <2>3
<1>7. AnswerIsAcceptance'
  BY <1>6 DEF AnswerIsAcceptance
<1> QED
  BY <1>5, <1>7

LEMMA AcceptedRecord ==
  ASSUME TypeOK, AnswerIsAcceptance, SentWasAccepted, NEW p \in Procs, Record(p)
  PROVE  AnswerIsAcceptance' /\ SentWasAccepted'
<1>1. /\ pc[p] \in {"acknowledged", "rejected", "unknown"} /\ run[p] \in Runs
      /\ UNCHANGED <<run, accepted>>
      /\ \A q \in Procs : q # p => todo'[q] = todo[q]
  BY DEF Record, MarkSent, MarkFailed, MarkAmbiguous, TypeOK, Engaged, PCs, locals, history
<1>2. PICK i \in Index, st \in {"sent", "failed", "ambiguous"},
           l \in {"sending", "log-failed", "log-ambiguous"} :
        /\ IsNext(p, i)
        /\ fragment' = [fragment EXCEPT ![run[p]][i] = st]
        /\ pc' = [pc EXCEPT ![p] = l]
        /\ st = "sent" => pc[p] = "acknowledged"
  BY DEF Record, MarkSent, MarkFailed, MarkAmbiguous, Goto
<1>3. \A r \in Runs, j \in Index :
        \/ fragment'[r][j] = fragment[r][j]
        \/ r = run[p] /\ j = i /\ fragment'[r][j] = st
  BY <1>1, <1>2 DEF TypeOK
<1>4. SentWasAccepted'
  <2> SUFFICES ASSUME NEW r \in Runs, NEW j \in Index, fragment'[r][j] = "sent"
               PROVE  accepted[r][j] > 0
    BY <1>1 DEF SentWasAccepted
  <2>1. CASE fragment'[r][j] = fragment[r][j]
    BY <2>1 DEF SentWasAccepted
  <2>2. CASE r = run[p] /\ j = i /\ st = "sent"
    BY <1>2, <2>2 DEF AnswerIsAcceptance
  <2> QED
    BY <1>3, <2>1, <2>2
<1>5. AnswerIsAcceptance'
  BY <1>1, <1>2 DEF AnswerIsAcceptance, IsNext, TypeOK
<1> QED
  BY <1>4, <1>5

LEMMA AcceptedStep ==
  ASSUME TypeOK, AnswerIsAcceptance, SentWasAccepted, [Next]_vars
  PROVE  AnswerIsAcceptance' /\ SentWasAccepted'
<1>1. ASSUME NEW p \in Procs, NEW rep \in BOOLEAN, Invoke(p, rep)
      PROVE  AnswerIsAcceptance' /\ SentWasAccepted'
  <2>1. /\ pc'[p] = "compose"
        /\ \A q \in Procs : q # p => pc'[q] = pc[q]
        /\ UNCHANGED <<run, todo, fragment, accepted>>
    BY <1>1 DEF Invoke, Goto, tables, TypeOK
  <2> QED
    BY <2>1, AcceptedStays
<1>2. ASSUME NEW p \in Procs,
             SkipSent(p) \/ Refuse(p) \/ LogRefused(p) \/ Crash(p) \/ LogFailure(p)
             \/ SavePaging(p)
      PROVE  AnswerIsAcceptance' /\ SentWasAccepted'
  <2>1. Exit(p) /\ UNCHANGED <<fragment, accepted>>
    BY <1>2 DEF SkipSent, Refuse, LogRefused, Crash, LogFailure, SavePaging, tables, history
  <2>2. /\ pc'[p] = "idle"
        /\ \A q \in Procs : q # p => /\ pc'[q] = pc[q] /\ run'[q] = run[q]
                                      /\ todo'[q] = todo[q]
    BY <2>1 DEF Exit, Goto, TypeOK
  <2> QED
    BY <2>1, <2>2, AcceptedStays
<1>3. ASSUME NEW p \in Procs, CheckReview(p) \/ ListPending(p) \/ Complete(p) \/ LogSent(p)
      PROVE  AnswerIsAcceptance' /\ SentWasAccepted'
  <2>1. UNCHANGED <<fragment, accepted>>
    BY <1>3 DEF CheckReview, ListPending, Complete, LogSent, tables, history
  <2>2. /\ pc'[p] # "acknowledged"
        /\ \A q \in Procs : q # p => /\ pc'[q] = pc[q] /\ run'[q] = run[q]
                                      /\ todo'[q] = todo[q]
    BY <1>3 DEF CheckReview, ListPending, Complete, LogSent, Goto, locals, TypeOK
  <2> QED
    BY <2>1, <2>2, AcceptedStays
<1>4. ASSUME NEW p \in Procs, NEW s \in Signatures, Resume(p, s)
      PROVE  AnswerIsAcceptance' /\ SentWasAccepted'
  <2>1. /\ pc'[p] = "list"
        /\ \A q \in Procs : q # p => pc'[q] = pc[q] /\ run'[q] = run[q]
        /\ UNCHANGED <<todo, fragment, accepted>>
    BY <1>4 DEF Resume, Goto, history, TypeOK
  <2> QED
    BY <2>1, AcceptedStays
<1>5. ASSUME NEW p \in Procs, NEW s \in Signatures, Start(p, s)
      PROVE  AnswerIsAcceptance' /\ SentWasAccepted'
  <2>1. PICK r \in Runs :
          /\ fragment' = [fragment EXCEPT ![r] =
               [i \in Index |-> IF i <= Size[s] THEN "pending" ELSE "none"]]
          /\ run' = [run EXCEPT ![p] = r]
    BY <1>5 DEF Start
  <2>2. /\ pc'[p] = "list"
        /\ \A q \in Procs : q # p => pc'[q] = pc[q] /\ run'[q] = run[q]
        /\ UNCHANGED <<todo, accepted>>
    BY <1>5, <2>1 DEF Start, Goto, history, TypeOK
  <2>3. \A x \in Runs, i \in Index : fragment'[x][i] = "sent" => fragment[x][i] = "sent"
    BY <2>1 DEF TypeOK
  <2>4. SentWasAccepted'
    BY <2>2, <2>3 DEF SentWasAccepted
  <2>5. AnswerIsAcceptance'
    BY <2>2 DEF AnswerIsAcceptance, IsNext
  <2> QED
    BY <2>4, <2>5
<1>6. CASE Rest \/ UNCHANGED vars
  BY <1>6 DEF Rest, vars, AnswerIsAcceptance, SentWasAccepted, IsNext
<1> QED
  BY <1>1, <1>2, <1>3, <1>4, <1>5, <1>6, AcceptedSend, AcceptedRecord DEF Next, Step, Begin

(* A fragment recorded as sent was accepted by Telegram, for any number of   *)
(* overlapping invocations, crashes and replies that break off.              *)
THEOREM SentWasAcceptedAlways == Spec => []SentWasAccepted
<1>1. Init => AnswerIsAcceptance /\ SentWasAccepted
  BY DEF Init, AnswerIsAcceptance, SentWasAccepted
<1>2. TypeOK /\ AnswerIsAcceptance /\ SentWasAccepted /\ [Next]_vars
        => AnswerIsAcceptance' /\ SentWasAccepted'
  BY AcceptedStep
<1> QED
  BY <1>1, <1>2, TypeCorrect, PTL DEF Spec

-----------------------------------------------------------------------------
(* Until invocations overlap, the delivery implements HeldDelivery.          *)

LEMMA LedgerFact ==
  ASSUME NEW m \in Fragments
  PROVE  /\ m[1] \in Runs /\ m[2] \in Index /\ m = <<m[1], m[2]>>
         /\ standing[m] = StandingOf(m[1], m[2])
         /\ standing'[m] = StandingOf(m[1], m[2])'
         /\ m \in flying <=> InFlight(m[1], m[2])
         /\ m \in flying' <=> InFlight(m[1], m[2])'
         /\ received[m] = accepted[m[1]][m[2]]
         /\ received'[m] = accepted'[m[1]][m[2]]
BY DEF Fragments, standing, flying, received

LEMMA LedgerShape ==
  /\ standing = [m \in Fragments |-> standing[m]] /\ standing' = [m \in Fragments |-> standing'[m]]
  /\ received = [m \in Fragments |-> received[m]] /\ received' = [m \in Fragments |-> received'[m]]
  /\ flying \subseteq Fragments /\ flying' \subseteq Fragments
BY DEF standing, received, flying

(* A process with no outcome in hand, alone, has nothing in flight. *)
LEMMA NothingFlies ==
  ASSUME \A q \in Procs : pc[q] \notin {"acknowledged", "unknown"}
  PROVE  flying = {} /\ \A r \in Runs, i \in Index : ~InFlight(r, i)
BY DEF flying, InFlight

LEMMA NothingWillFly ==
  ASSUME \A q \in Procs : pc'[q] \notin {"acknowledged", "unknown"}
  PROVE  flying' = {} /\ \A r \in Runs, i \in Index : ~InFlight(r, i)'
BY DEF flying, InFlight

(* What keeps standings, and begins and ends with nothing in flight.       *)
LEMMA LedgerStays ==
  ASSUME flying = {}, flying' = {},
         \A r \in Runs, i \in Index : StandingOf(r, i)' = StandingOf(r, i),
         UNCHANGED <<accepted, crashes, broken>>
  PROVE  UNCHANGED <<standing, flying, received, excuses>>
<1>1. \A m \in Fragments : standing'[m] = standing[m]
  BY LedgerFact
<1>2. standing' = standing
  BY <1>1, LedgerShape
<1> QED
  BY <1>2 DEF received, excuses

LEMMA LedgerInvoke ==
  ASSUME ~overlapped', TypeOK, NEW p \in Procs, NEW rep \in BOOLEAN, Invoke(p, rep)
  PROVE  UNCHANGED <<standing, flying, received, excuses>>
<1>1. /\ \A q \in Procs : pc[q] = "idle" /\ pc'[q] \in {"idle", "compose"}
      /\ UNCHANGED <<runStatus, fragment, accepted, crashes, broken>>
  BY DEF Invoke, Goto, tables, TypeOK
<1> QED
  BY <1>1, NothingFlies, NothingWillFly, LedgerStays DEF StandingOf

(* The steps that neither send nor record what was sent. *)
LEMMA LedgerQuiet ==
  ASSUME TypeOK, SerialInv, NEW p \in Procs,
         \/ SkipSent(p) \/ CheckReview(p) \/ Refuse(p) \/ ListPending(p) \/ LogFailure(p)
         \/ Complete(p) \/ LogSent(p) \/ LogRefused(p) \/ SavePaging(p) \/ MarkFailed(p)
  PROVE  UNCHANGED <<standing, flying, received, excuses>>
<1>1. PICK l \in PCs \ {"acknowledged", "unknown"} : pc' = [pc EXCEPT ![p] = l]
  BY DEF SkipSent, CheckReview, Refuse, ListPending, LogFailure, Complete, LogSent, LogRefused,
         SavePaging, MarkFailed, Exit, Goto, PCs
<1>2. pc[p] \notin {"idle", "acknowledged", "unknown"}
  BY DEF SkipSent, CheckReview, Refuse, ListPending, LogFailure, Complete, LogSent, LogRefused,
         SavePaging, MarkFailed
<1>3. flying = {} /\ flying' = {}
  BY <1>1, <1>2, OthersIdle, NothingFlies, NothingWillFly DEF SerialInv
<1>4. UNCHANGED <<accepted, crashes, broken>>
  BY DEF SkipSent, CheckReview, Refuse, ListPending, LogFailure, Complete, LogSent, LogRefused,
         SavePaging, MarkFailed, history
<1>5. \A r \in Runs, i \in Index : StandingOf(r, i)' = StandingOf(r, i)
  <2>1. CASE UNCHANGED <<runStatus, fragment>>
    BY <2>1 DEF StandingOf
  <2>2. CASE Complete(p)
    <3>1. runStatus[run[p]] = "pending"
      BY <2>2 DEF Complete, SerialInv, MemoryIsCurrent, Busy
    <3> QED
      BY <2>2, <3>1 DEF Complete, StandingOf, TypeOK
  <2>3. CASE MarkFailed(p)
    <3>1. /\ runStatus[run[p]] = "pending" /\ todo[p] = Unsent(run[p])
          /\ run[p] \in Runs
      BY <2>3 DEF MarkFailed, SerialInv, MemoryIsCurrent, Busy, TypeOK, Engaged, PCs
    <3>2. PICK i \in Index : /\ IsNext(p, i)
                             /\ fragment' = [fragment EXCEPT ![run[p]][i] = "failed"]
      BY <2>3 DEF MarkFailed
    <3>3. fragment[run[p]][i] \in Resumable /\ fragment'[run[p]][i] = "failed"
      BY <3>1, <3>2 DEF IsNext, Unsent, TypeOK
    <3>4. \A r \in Runs, j \in Index :
            r # run[p] \/ j # i => fragment'[r][j] = fragment[r][j]
      BY <3>1, <3>2 DEF TypeOK
    <3>5. \A r \in Runs : runStatus'[r] = "superseded" <=> runStatus[r] = "superseded"
      BY <2>3, <3>1 DEF MarkFailed, TypeOK
    <3> QED
      BY <3>3, <3>4, <3>5 DEF StandingOf, Resumable
  <2> QED
    BY <2>1, <2>2, <2>3 DEF SkipSent, CheckReview, Refuse, ListPending, LogFailure, LogSent,
       LogRefused, SavePaging, tables
<1> QED
  BY <1>3, <1>4, <1>5, LedgerStays

(* A run begins: its fragments come, superseded ones are closed. *)
LEMMA LedgerBegin ==
  ASSUME TypeOK, SerialInv, NEW p \in Procs, NEW s \in Signatures, Resume(p, s) \/ Start(p, s)
  PROVE  Ledger!Plan
<1>1. /\ MayBegin(p) /\ pc[p] = "begin" /\ pc' = [pc EXCEPT ![p] = "list"]
      /\ UNCHANGED <<accepted, crashes, broken>>
  BY DEF Resume, Start, MayBegin, Goto, history
<1>2. flying = {} /\ flying' = {}
  BY <1>1, OthersIdle, NothingFlies, NothingWillFly DEF SerialInv
<1>3. ASSUME NEW r \in Runs, NEW i \in Index, StandingOf(r, i)' # StandingOf(r, i)
      PROVE  \/ StandingOf(r, i) = "absent" /\ StandingOf(r, i)' = "open"
             \/ StandingOf(r, i) \in {"open", "held"} /\ StandingOf(r, i)' = "closed"
  <2>1. PICK q \in Runs : /\ runStatus' = [Superseded(p, s) EXCEPT ![q] = "pending"]
                          /\ \/ IsResumed(q, s) /\ UNCHANGED fragment
                             \/ /\ IsFresh(q)
                                /\ fragment' = [fragment EXCEPT ![q] =
                                     [j \in Index |-> IF j <= Size[s] THEN "pending" ELSE "none"]]
    BY DEF Resume, Start
  <2>2. /\ r # q => runStatus'[r] = Superseded(p, s)[r] /\ fragment'[r][i] = fragment[r][i]
        /\ runStatus'[q] = "pending"
    BY <2>1 DEF Superseded, TypeOK
  <2>3. CASE r # q
    <3>1. /\ runStatus[r] = "superseded" => runStatus'[r] = "superseded"
      BY <1>1, <2>2, <2>3, SupersededCloses DEF Unfinished
    <3> QED
      BY <1>3, <2>2, <2>3, <3>1 DEF StandingOf
  <2>4. CASE r = q /\ IsResumed(q, s) /\ UNCHANGED fragment
    BY <1>3, <2>2, <2>4 DEF StandingOf, IsResumed, Resumable
  <2>5. CASE r = q /\ IsFresh(q)
    <3>1. fragment[r][i] = "none"
      BY <2>5 DEF IsFresh, SerialInv, TablesAgree
    <3>2. fragment'[r][i] \in {"pending", "none"}
      BY <2>1, <2>5, <3>1 DEF TypeOK
    <3> QED
      BY <1>3, <2>2, <2>5, <3>1, <3>2 DEF StandingOf
  <2> QED
    BY <2>1, <2>3, <2>4, <2>5
<1>4. standing' \in [Fragments -> Ledger!Standings]
  BY DEF standing, StandingOf, Ledger!Standings
<1>5. \A m \in Fragments : standing'[m] # standing[m] =>
        \/ standing[m] = "absent" /\ standing'[m] = "open"
        \/ standing[m] \in {"open", "held"} /\ standing'[m] = "closed"
  BY <1>3, LedgerFact
<1> QED
  BY <1>1, <1>2, <1>4, <1>5 DEF Ledger!Plan, received, excuses

(* A fragment is sent. *)
LEMMA LedgerSend ==
  ASSUME TypeOK, SerialInv, NEW p \in Procs, Send(p)
  PROVE  Ledger!Next \/ UNCHANGED <<standing, flying, received, excuses>>
<1>1. /\ pc[p] = "sending" /\ run[p] \in Runs
      /\ UNCHANGED <<runStatus, fragment, run, todo, crashes>>
  BY DEF Send, SendAccepted, SendRejected, SendUnknown, TypeOK, Engaged, PCs, tables, locals
<1>2. PICK i \in Index, n \in {0, 1}, l \in {"acknowledged", "rejected", "unknown"} :
        /\ IsNext(p, i)
        /\ accepted' = [accepted EXCEPT ![run[p]][i] = accepted[run[p]][i] + n]
        /\ pc' = [pc EXCEPT ![p] = l]
        /\ broken' = IF l = "rejected" THEN broken + n ELSE broken
  BY DEF Send, SendAccepted, SendRejected, SendUnknown, Goto
<1>3. /\ \A q \in Procs : q # p => pc[q] = "idle" /\ pc'[q] = "idle"
      /\ pc'[p] = l
  BY <1>1, <1>2, OthersIdle DEF SerialInv
<1>4. flying = {}
  BY <1>1, <1>3, NothingFlies
<1> DEFINE m == <<run[p], i>>
<1>5. m \in Fragments /\ m[1] = run[p] /\ m[2] = i
  BY <1>1 DEF Fragments
<1>6. standing[m] = "open"
  <2>1. runStatus[run[p]] = "pending" /\ todo[p] = Unsent(run[p])
    BY <1>1 DEF SerialInv, MemoryIsCurrent, Busy
  <2>2. fragment[run[p]][i] \in Resumable
    BY <1>2, <2>1 DEF IsNext, Unsent
  <2> QED
    BY <1>5, <2>1, <2>2, LedgerFact DEF StandingOf, Resumable
<1>7. standing' = standing
  BY <1>1 DEF standing, StandingOf
<1>8. \A k \in Fragments : /\ received[k] \in Nat
                           /\ received'[k] = received[k] + (IF k = m THEN n ELSE 0)
  <2> SUFFICES ASSUME NEW k \in Fragments
               PROVE  /\ received[k] \in Nat
                      /\ received'[k] = received[k] + (IF k = m THEN n ELSE 0)
    OBVIOUS
  <2>1. k[1] \in Runs /\ k[2] \in Index /\ accepted[k[1]][k[2]] \in Nat
        /\ (k = m <=> k[1] = run[p] /\ k[2] = i)
    BY <1>5, LedgerFact DEF TypeOK
  <2>2. accepted'[k[1]][k[2]] = accepted[k[1]][k[2]] + (IF k[1] = run[p] /\ k[2] = i THEN n ELSE 0)
    BY <1>1, <1>2, <2>1 DEF TypeOK
  <2> QED
    BY <2>1, <2>2, LedgerFact
<1>9. CASE l = "rejected"
  <2>1. flying' = {}
    BY <1>3, <1>9, NothingWillFly
  <2>2. CASE n = 0
    <3>1. \A k \in Fragments : received'[k] = received[k]
      BY <1>8, <2>2
    <3>2. received' = received
      BY <3>1, LedgerShape
    <3>3. broken' = broken
      BY <1>2, <1>9, <2>2 DEF TypeOK
    <3> QED
      BY <1>1, <1>4, <1>7, <2>1, <3>2, <3>3 DEF excuses
  <2>3. CASE n = 1
    <3>1. \A k \in Fragments : received'[k] = received[k] + (IF k \in {m} THEN 1 ELSE 0)
      BY <1>8, <2>3
    <3>2. received' = [k \in Fragments |-> received[k] + (IF k \in {m} THEN 1 ELSE 0)]
      BY <3>1 DEF received
    <3>3. excuses' = excuses + 1
      BY <1>1, <1>2, <1>9, <2>3, BoundsAssumption DEF excuses, TypeOK, BoundsAssumption
    <3>4. Ledger!Misread({m})
      <4> HIDE DEF m
      <4> QED
        BY <1>4, <1>6, <1>7, <2>1, <3>2, <3>3 DEF Ledger!Misread
    <3> QED
      BY <1>5, <3>4 DEF Ledger!Next
  <2> QED
    BY <2>2, <2>3
<1>10. CASE l # "rejected"
  <2>1. \A k \in Fragments : k \in flying' <=> k = m
    <3>1. \A k \in Fragments : InFlight(k[1], k[2])' <=> k[1] = run[p] /\ IsNext(p, k[2])
      BY <1>1, <1>3, <1>10 DEF InFlight, IsNext
    <3>2. \A j \in Index : IsNext(p, j) => j = i
      BY <1>2 DEF IsNext, Index
    <3> QED
      BY <1>2, <1>5, <3>1, <3>2, LedgerFact
  <2>2. flying' = {m}
    BY <1>5, <2>1, LedgerShape
  <2> DEFINE arrived == IF n = 1 THEN {m} ELSE {}
  <2>3. \A k \in Fragments : received'[k] = received[k] + (IF k \in arrived THEN 1 ELSE 0)
    BY <1>8
  <2>4. received' = [k \in Fragments |-> received[k] + (IF k \in arrived THEN 1 ELSE 0)]
    BY <2>3 DEF received
  <2>5. excuses' = excuses
    BY <1>1, <1>2, <1>10 DEF excuses
  <2>6. arrived \in SUBSET {m}
    OBVIOUS
  <2>7. Ledger!Deliver({m})
    <3> HIDE DEF arrived, m
    <3> QED
      BY <1>4, <1>6, <1>7, <2>2, <2>4, <2>5, <2>6 DEF Ledger!Deliver
  <2> QED
    BY <1>5, <2>7 DEF Ledger!Next
<1> QED
  BY <1>9, <1>10

(* The outcome of what was sent is recorded. *)
LEMMA LedgerMark ==
  ASSUME TypeOK, SerialInv, NEW p \in Procs, MarkSent(p) \/ MarkAmbiguous(p)
  PROVE  Ledger!Next
<1>1. /\ pc[p] \in {"acknowledged", "unknown"} /\ run[p] \in Runs
      /\ UNCHANGED <<run, accepted, crashes, broken>>
  BY DEF MarkSent, MarkAmbiguous, TypeOK, Engaged, PCs, locals, history
<1>2. PICK i \in Index, st \in {"sent", "ambiguous"}, l \in {"sending", "log-ambiguous"} :
        /\ IsNext(p, i)
        /\ fragment' = [fragment EXCEPT ![run[p]][i] = st]
        /\ pc' = [pc EXCEPT ![p] = l]
        /\ st = "sent" => pc[p] = "acknowledged"
  BY DEF MarkSent, MarkAmbiguous, Goto
<1>3. /\ \A q \in Procs : q # p => pc[q] = "idle" /\ pc'[q] = "idle"
      /\ pc'[p] = l
  BY <1>1, <1>2, OthersIdle DEF SerialInv
<1>4. flying' = {}
  BY <1>3, NothingWillFly
<1>5. \A r \in Runs, j \in Index : InFlight(r, j) <=> r = run[p] /\ j = i
  <2>1. \A j \in Index : IsNext(p, j) => j = i
    BY <1>2 DEF IsNext, Index
  <2> QED
    BY <1>1, <1>2, <1>3, <2>1 DEF InFlight
<1>6. runStatus[run[p]] = "pending"
  BY <1>1 DEF SerialInv, MemoryIsCurrent, Busy
<1>7. \A r \in Runs : runStatus'[r] = "superseded" <=> runStatus[r] = "superseded"
  BY <1>1, <1>6 DEF MarkSent, MarkAmbiguous, TypeOK
<1>8. /\ fragment'[run[p]][i] = st
      /\ \A r \in Runs, j \in Index : r # run[p] \/ j # i => fragment'[r][j] = fragment[r][j]
  BY <1>1, <1>2 DEF TypeOK
<1> DEFINE verdict == IF st = "sent" THEN "sent" ELSE "held"
<1>9. \A r \in Runs, j \in Index :
        StandingOf(r, j)' = IF InFlight(r, j) THEN verdict ELSE StandingOf(r, j)
  BY <1>5, <1>6, <1>7, <1>8 DEF StandingOf
<1>10. \A m \in Fragments : standing'[m] = IF m \in flying THEN verdict ELSE standing[m]
  <2> HIDE DEF verdict
  <2> QED
    BY <1>9, LedgerFact
<1>11. standing' = [m \in Fragments |-> IF m \in flying THEN verdict ELSE standing[m]]
  <2> HIDE DEF verdict
  <2> QED
    BY <1>10 DEF standing
<1>12. verdict = "sent" => \A m \in flying : received[m] > 0
  <2>1. st = "sent" => accepted[run[p]][i] > 0
    BY <1>2 DEF SerialInv, MemoryIsCurrent
  <2> QED
    BY <1>5, <2>1, LedgerFact, LedgerShape
<1>13. Ledger!Settle(flying, verdict)
  <2> HIDE DEF verdict
  <2> QED
    BY <1>1, <1>4, <1>11, <1>12 DEF Ledger!Settle, received, excuses
<1>14. flying \in SUBSET Fragments /\ verdict \in {"sent", "held"}
  BY LedgerShape
<1> QED
  BY <1>13, <1>14 DEF Ledger!Next

(* The process dies. *)
LEMMA LedgerCrash ==
  ASSUME TypeOK, SerialInv, NEW p \in Procs, Crash(p)
  PROVE  Ledger!Lose({})
<1>1. /\ pc[p] # "idle" /\ pc' = [pc EXCEPT ![p] = "idle"]
      /\ UNCHANGED <<runStatus, fragment, accepted, broken>> /\ crashes' = crashes + 1
  BY DEF Crash, Exit, Goto, tables
<1>2. flying' = {}
  BY <1>1, OthersIdle, NothingWillFly DEF SerialInv
<1>3. standing' = standing
  BY <1>1 DEF standing, StandingOf
<1>4. excuses' = excuses + 1
  BY <1>1, BoundsAssumption DEF excuses, TypeOK, BoundsAssumption
<1>5. received' = received
  BY <1>1 DEF received
<1>6. standing' = [m \in Fragments |-> IF m \in {} THEN "held" ELSE standing[m]]
  BY <1>3, LedgerShape
<1> QED
  BY <1>2, <1>4, <1>5, <1>6 DEF Ledger!Lose, Ledger!HoldBack

LEMMA LedgerStep ==
  ASSUME ~overlapped', TypeOK, SerialInv, [Next]_vars
  PROVE  Ledger!Next \/ UNCHANGED <<standing, flying, received, excuses>>
<1>1. ASSUME NEW p \in Procs, Step(p)
      PROVE  Ledger!Next \/ UNCHANGED <<standing, flying, received, excuses>>
  <2>1. Begin(p) => Ledger!Next
    BY LedgerBegin DEF Begin, Ledger!Next
  <2>2. Record(p) => Ledger!Next \/ UNCHANGED <<standing, flying, received, excuses>>
    BY LedgerMark, LedgerQuiet DEF Record
  <2> QED
    BY <1>1, <2>1, <2>2, LedgerQuiet, LedgerSend DEF Step
<1>2. ASSUME NEW p \in Procs, Crash(p) PROVE Ledger!Next
  <2>1. {} \in SUBSET Fragments
    OBVIOUS
  <2> QED
    BY <1>2, <2>1, LedgerCrash DEF Ledger!Next
<1>3. CASE UNCHANGED vars
  BY <1>3 DEF vars, standing, StandingOf, flying, InFlight, IsNext, received, excuses
<1> QED
  BY <1>1, <1>2, <1>3, LedgerInvoke DEF Next, Rest

(* Until invocations overlap, resume, hold, retry and supersession are     *)
(* HeldDelivery for the fragments, with a crash or a broken reply for each *)
(* repetition.                                                             *)
THEOREM DailyImplementsHeldDelivery == Spec => ImplementsHeldDelivery
<1>1. Init => Ledger!Init
  <2> SUFFICES ASSUME Init PROVE Ledger!Init
    OBVIOUS
  <2>1. flying = {}
    BY NothingFlies DEF Init
  <2>2. standing = [m \in Fragments |-> "absent"] /\ received = [m \in Fragments |-> 0]
    BY DEF Init, standing, StandingOf, received, Fragments
  <2> QED
    BY <2>1, <2>2 DEF Init, Ledger!Init, excuses
<1>2. TypeOK /\ (overlapped \/ SerialInv) /\ [Next]_vars =>
        [~overlapped' => Ledger!Next]_<<standing, flying, received, excuses>>
  BY OverlappedStays, LedgerStep
<1> QED
  BY <1>1, <1>2, SerialCorrect, PTL DEF Spec, ImplementsHeldDelivery

LedgerInv == Ledger!TypeOK /\ Ledger!RepeatNeedsExcuse /\ Ledger!SentWasReceived /\ Ledger!Counted

LEMMA LedgerInvStep ==
  ASSUME LedgerInv, Ledger!Next
  PROVE  LedgerInv'
<1> USE DEF LedgerInv, Ledger!TypeOK, Ledger!RepeatNeedsExcuse, Ledger!SentWasReceived,
            Ledger!Counted, Ledger!Standings
<1>1. CASE Ledger!Plan
  BY <1>1 DEF Ledger!Plan
<1>2. ASSUME NEW M \in SUBSET Fragments, Ledger!Misread(M) PROVE LedgerInv'
  BY <1>2 DEF Ledger!Misread
<1>3. ASSUME NEW M \in SUBSET Fragments, Ledger!Deliver(M) PROVE LedgerInv'
  <2>1. PICK arrived \in SUBSET M :
          received' = [m \in Fragments |-> received[m] + (IF m \in arrived THEN 1 ELSE 0)]
    BY <1>3 DEF Ledger!Deliver
  <2>2. \A m \in Fragments : /\ received'[m] \in Nat
                             /\ received'[m] >= received[m] /\ received'[m] <= received[m] + 1
                             /\ m \notin M => received'[m] = received[m]
    BY <2>1
  <2>3. received' \in [Fragments -> Nat]
    BY <2>1
  <2> HIDE <2>1
  <2>4. /\ standing' = standing /\ excuses' = excuses /\ flying' = flying \union M
        /\ \A m \in M : standing[m] = "open" /\ m \notin flying
    BY <1>3 DEF Ledger!Deliver
  <2> QED
    BY <2>2, <2>3, <2>4
<1>4. ASSUME NEW M \in SUBSET Fragments, NEW v \in {"sent", "held"}, Ledger!Settle(M, v)
      PROVE  LedgerInv'
  BY <1>4 DEF Ledger!Settle
<1>5. ASSUME NEW M \in SUBSET Fragments, Ledger!Withdraw(M) PROVE LedgerInv'
  BY <1>5 DEF Ledger!Withdraw, Ledger!HoldBack
<1>6. ASSUME NEW M \in SUBSET Fragments, Ledger!Lose(M) PROVE LedgerInv'
  BY <1>6 DEF Ledger!Lose, Ledger!HoldBack
<1>7. ASSUME NEW M \in SUBSET Fragments, Ledger!Reopen(M) PROVE LedgerInv'
  BY <1>7 DEF Ledger!Reopen
<1> QED
  BY <1>1, <1>2, <1>3, <1>4, <1>5, <1>6, <1>7 DEF Ledger!Next

(* What HeldDelivery promises: nothing reaches the chat twice without an   *)
(* excuse, and what is called sent was received.                           *)
THEOREM HeldDeliveryExcuses ==
  Ledger!Spec => [](Ledger!RepeatNeedsExcuse /\ Ledger!SentWasReceived)
<1>1. Ledger!Init => LedgerInv
  BY DEF Ledger!Init, LedgerInv, Ledger!TypeOK, Ledger!RepeatNeedsExcuse,
         Ledger!SentWasReceived, Ledger!Counted, Ledger!Standings
<1>2. LedgerInv /\ [Ledger!Next]_Ledger!vars => LedgerInv'
  <2>1. LedgerInv /\ UNCHANGED Ledger!vars => LedgerInv'
    BY DEF LedgerInv, Ledger!vars, Ledger!TypeOK, Ledger!RepeatNeedsExcuse,
           Ledger!SentWasReceived, Ledger!Counted
  <2> QED
    BY <2>1, LedgerInvStep
<1>3. LedgerInv => Ledger!RepeatNeedsExcuse /\ Ledger!SentWasReceived
  BY DEF LedgerInv
<1> QED
  BY <1>1, <1>2, <1>3, PTL DEF Ledger!Spec
==============================================================================
