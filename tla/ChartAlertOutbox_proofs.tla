------------------------ MODULE ChartAlertOutbox_proofs ------------------------
(***************************************************************************)
(* Theorems of ChartAlertOutbox, for any set of events, any number of      *)
(* dispatchers that overlap in any way, any number of crashes.             *)
(***************************************************************************)
EXTENDS ChartAlertOutbox, FiniteSetTheorems, TLAPS

Claiming == {"send", "accepted", "error"}

(* A dispatcher that leaves, by its end or by a crash, forgets what it knew. *)
LEMMA TypeLeave ==
  ASSUME TypeOK, NEW d \in Dispatchers, Leave(d), crashes' \in 0..MaxCrashes,
         UNCHANGED <<files, reported, outbox, attempts, received>>
  PROVE  TypeOK'
BY DEF Leave, Goto, files, TypeOK, PCs

LEMMA TypeStep ==
  ASSUME TypeOK, [Next]_vars
  PROVE  TypeOK'
<1> USE BoundsAssumption DEF BoundsAssumption, TypeOK, PCs, Statuses, files, Goto
<1>1. ASSUME NEW w \in Writers, Write(w) PROVE TypeOK'
  BY <1>1 DEF Write, CheckRoom, Spool
<1>2. ASSUME NEW e \in Events, Report(e) PROVE TypeOK'
  BY <1>2 DEF Report
<1>3. ASSUME NEW d \in Dispatchers, Scan(d) PROVE TypeOK'
  BY <1>3 DEF Scan
<1>4. ASSUME NEW d \in Dispatchers, Import(d) PROVE TypeOK'
  BY <1>4 DEF Import, Imported, Swept
<1>5. ASSUME NEW d \in Dispatchers, Unlink(d) \/ Unlinked(d) PROVE TypeOK'
  BY <1>5 DEF Unlink, Unlinked
<1>6. ASSUME NEW d \in Dispatchers, List(d) \/ Skip(d) PROVE TypeOK'
  BY <1>6 DEF List, Skip
<1>7. ASSUME NEW d \in Dispatchers, Claim(d) PROVE TypeOK'
  BY <1>7 DEF Claim
<1>8. ASSUME NEW d \in Dispatchers, Send(d) PROVE TypeOK'
  BY <1>8 DEF Send, SendAccepted, SendError
<1>9. ASSUME NEW d \in Dispatchers, Mark(d) PROVE TypeOK'
  BY <1>9 DEF Mark, Outcome
<1>10. ASSUME NEW d \in Dispatchers, Finish(d) \/ Crash(d) PROVE TypeOK'
  BY <1>10, TypeLeave DEF Finish, Crash
<1>11. CASE UNCHANGED vars
  BY <1>11 DEF vars
<1> QED
  BY <1>1, <1>2, <1>3, <1>4, <1>5, <1>6, <1>7, <1>8, <1>9, <1>10, <1>11 DEF Next, Pass

(* Every reachable state is well typed. *)
THEOREM TypeCorrect == Spec => []TypeOK
<1>1. Init => TypeOK
  BY BoundsAssumption DEF BoundsAssumption, Init, TypeOK, PCs, Statuses
<1> QED
  BY <1>1, TypeStep, PTL DEF Spec

-------------------------------------------------------------------------------
(* One attempt.  OutboxInv holds in every state: a row is claimed by one     *)
(* dispatcher at most, and only before it was ever attempted.                *)

LEMMA OutboxInit == Init => OutboxInv
BY DEF Init, OutboxInv, AttemptedOnce, StatusIsTrue, ClaimIsExclusive, UnclaimedIsFresh, UnlinkIsSafe

(* Steps that touch neither the table nor a claim. *)
LEMMA OutboxBystander ==
  ASSUME TypeOK, OutboxInv, NEW d \in Dispatchers, NEW l \in PCs \ Claiming,
         pc[d] \notin Claiming, pc' = [pc EXCEPT ![d] = l],
         UNCHANGED <<outbox, attempts, cur, received>>,
         \A c \in Dispatchers : c # d => valid'[c] = valid[c],
         l = "unlink" => pc[d] = "unlink" /\ valid'[d] \subseteq valid[d]
  PROVE  OutboxInv'
<1>1. AttemptedOnce' /\ StatusIsTrue' /\ UnclaimedIsFresh'
  BY DEF OutboxInv, AttemptedOnce, StatusIsTrue, UnclaimedIsFresh
<1>2. \A c \in Dispatchers : pc'[c] \in Claiming => pc[c] \in Claiming /\ pc'[c] = pc[c] /\ c # d
  BY DEF TypeOK
<1>3. ClaimIsExclusive'
  BY <1>2 DEF OutboxInv, ClaimIsExclusive, Claiming
<1>4. UnlinkIsSafe'
  BY DEF OutboxInv, UnlinkIsSafe, TypeOK
<1> QED
  BY <1>1, <1>3, <1>4 DEF OutboxInv

LEMMA OutboxImport ==
  ASSUME TypeOK, OutboxInv, NEW d \in Dispatchers, Import(d)
  PROVE  OutboxInv'
<1>1. /\ pc[d] = "import"
      /\ pc' = [pc EXCEPT ![d] = "unlink"]
      /\ UNCHANGED <<attempts, valid, cur, received>>
      /\ \A e \in Events :
           outbox'[e] = IF e \in valid[d] /\ outbox[e] = "none" THEN "pending" ELSE Swept(e)
  BY DEF Import, Imported, Goto
<1>2. AttemptedOnce' /\ StatusIsTrue' /\ UnclaimedIsFresh'
  BY <1>1 DEF OutboxInv, AttemptedOnce, StatusIsTrue, UnclaimedIsFresh, Swept
<1>3. \A c \in Dispatchers : pc'[c] \in Claiming => pc[c] \in Claiming /\ pc'[c] = pc[c]
  BY <1>1 DEF TypeOK, Claiming
<1>4. \A c \in Dispatchers : pc[c] \in Claiming =>
        cur[c] \in Events /\ outbox'[cur[c]] \in {"sending", "ambiguous"}
  BY <1>1 DEF OutboxInv, ClaimIsExclusive, Claiming, Swept, TypeOK
<1>5. ClaimIsExclusive'
  BY <1>1, <1>3, <1>4 DEF OutboxInv, ClaimIsExclusive, Claiming
<1>6. \A e \in Events : outbox[e] # "none" => outbox'[e] # "none"
  BY <1>1 DEF Swept
<1>7. \A e \in valid[d] : outbox'[e] # "none"
  BY <1>1 DEF Swept, TypeOK
<1>8. UnlinkIsSafe'
  BY <1>1, <1>6, <1>7 DEF OutboxInv, UnlinkIsSafe, TypeOK
<1> QED
  BY <1>2, <1>5, <1>8 DEF OutboxInv

LEMMA OutboxClaim ==
  ASSUME TypeOK, OutboxInv, NEW d \in Dispatchers, Claim(d)
  PROVE  OutboxInv'
<1>1. PICK e \in rows[d] :
        /\ outbox[e] = "pending"
        /\ outbox' = [outbox EXCEPT ![e] = "sending"]
        /\ attempts' = [attempts EXCEPT ![e] = @ + 1]
        /\ cur' = [cur EXCEPT ![d] = e]
  BY DEF Claim, Claimable
<1>2. /\ pc[d] = "loop" /\ pc' = [pc EXCEPT ![d] = "send"]
      /\ UNCHANGED <<valid, received>>
      /\ e \in Events
  BY <1>1 DEF Claim, Goto, TypeOK
<1>3. attempts[e] = 0 /\ received[e] = 0
  BY <1>1, <1>2 DEF OutboxInv, UnclaimedIsFresh, StatusIsTrue
<1>4. AttemptedOnce' /\ StatusIsTrue' /\ UnclaimedIsFresh'
  BY <1>1, <1>2, <1>3 DEF TypeOK, OutboxInv, AttemptedOnce, StatusIsTrue, UnclaimedIsFresh
<1>5. \A c \in Dispatchers : c # d /\ pc'[c] \in Claiming =>
        pc'[c] = pc[c] /\ cur'[c] = cur[c] /\ cur[c] # e
  BY <1>1, <1>2 DEF TypeOK, OutboxInv, ClaimIsExclusive, Claiming
<1>6. pc'[d] = "send" /\ cur'[d] = e
  BY <1>1, <1>2 DEF TypeOK
<1>7. ClaimIsExclusive'
  <2>1. \A c, b \in Dispatchers :
          pc'[c] \in Claiming /\ pc'[b] \in Claiming /\ cur'[c] = cur'[b] => c = b
    BY <1>5, <1>6 DEF OutboxInv, ClaimIsExclusive, Claiming
  <2>2. \A c \in Dispatchers : pc'[c] \in Claiming => outbox'[cur'[c]] \in {"sending", "ambiguous"}
    BY <1>1, <1>2, <1>5, <1>6 DEF TypeOK, OutboxInv, ClaimIsExclusive, Claiming
  <2>3. \A c \in Dispatchers :
          /\ pc'[c] = "send" => received'[cur'[c]] = 0
          /\ pc'[c] = "accepted" => received'[cur'[c]] = 1
    BY <1>2, <1>3, <1>5, <1>6 DEF OutboxInv, ClaimIsExclusive, Claiming
  <2> QED
    BY <2>1, <2>2, <2>3 DEF ClaimIsExclusive, Claiming
<1>8. UnlinkIsSafe'
  BY <1>1, <1>2 DEF TypeOK, OutboxInv, UnlinkIsSafe
<1> QED
  BY <1>4, <1>7, <1>8 DEF OutboxInv

LEMMA OutboxSend ==
  ASSUME TypeOK, OutboxInv, NEW d \in Dispatchers, Send(d)
  PROVE  OutboxInv'
<1> DEFINE e == cur[d]
<1>1. PICK arrived \in {0, 1}, l \in {"accepted", "error"} :
        /\ received' = [received EXCEPT ![e] = @ + arrived]
        /\ pc' = [pc EXCEPT ![d] = l]
        /\ l = "accepted" => arrived = 1
  BY DEF Send, SendAccepted, SendError, Goto
<1>2. /\ pc[d] = "send" /\ e \in Events
      /\ UNCHANGED <<outbox, attempts, valid, cur>>
  BY DEF Send, SendAccepted, SendError, TypeOK
<1>3. received[e] = 0 /\ outbox[e] \in {"sending", "ambiguous"}
  BY <1>2 DEF OutboxInv, ClaimIsExclusive
<1>4. received'[e] = arrived /\ \A x \in Events : x # e => received'[x] = received[x]
  BY <1>1, <1>2, <1>3 DEF TypeOK
<1>5. attempts[e] = 1
  BY <1>2, <1>3 DEF TypeOK, OutboxInv, UnclaimedIsFresh, AttemptedOnce
<1>6. AttemptedOnce' /\ StatusIsTrue' /\ UnclaimedIsFresh'
  BY <1>2, <1>3, <1>4, <1>5 DEF OutboxInv, AttemptedOnce, StatusIsTrue, UnclaimedIsFresh
<1>7. \A c \in Dispatchers : c # d /\ pc'[c] \in Claiming => pc'[c] = pc[c] /\ cur[c] # e
  BY <1>1, <1>2 DEF TypeOK, OutboxInv, ClaimIsExclusive, Claiming
<1>8. ClaimIsExclusive'
  BY <1>1, <1>2, <1>3, <1>4, <1>7 DEF TypeOK, OutboxInv, ClaimIsExclusive, Claiming
<1>9. UnlinkIsSafe'
  BY <1>1, <1>2 DEF TypeOK, OutboxInv, UnlinkIsSafe
<1> QED
  BY <1>6, <1>8, <1>9 DEF OutboxInv

LEMMA OutboxMark ==
  ASSUME TypeOK, OutboxInv, NEW d \in Dispatchers, Mark(d)
  PROVE  OutboxInv'
<1> DEFINE e == cur[d]
<1>1. /\ pc[d] \in {"accepted", "error"} /\ e \in Events
      /\ outbox' = [outbox EXCEPT ![e] = IF outbox[e] = "sending" THEN Outcome(d) ELSE outbox[e]]
      /\ pc' = [pc EXCEPT ![d] = "loop"]
      /\ cur' = [cur EXCEPT ![d] = NoEvent]
      /\ UNCHANGED <<attempts, valid, received>>
  BY DEF Mark, Goto, TypeOK
<1>2. /\ outbox[e] \in {"sending", "ambiguous"}
      /\ outbox'[e] \in {"sent", "ambiguous"}
      /\ outbox'[e] = "sent" => received[e] = 1
      /\ \A x \in Events : x # e => outbox'[x] = outbox[x]
  BY <1>1 DEF TypeOK, OutboxInv, ClaimIsExclusive, Outcome
<1>3. AttemptedOnce' /\ StatusIsTrue' /\ UnclaimedIsFresh'
  BY <1>1, <1>2 DEF OutboxInv, AttemptedOnce, StatusIsTrue, UnclaimedIsFresh
<1>4. \A c \in Dispatchers : pc'[c] \in Claiming =>
        c # d /\ pc'[c] = pc[c] /\ cur'[c] = cur[c] /\ cur[c] \in Events /\ cur[c] # e
  BY <1>1 DEF TypeOK, OutboxInv, ClaimIsExclusive, Claiming
<1>5. ClaimIsExclusive'
  BY <1>1, <1>2, <1>4 DEF OutboxInv, ClaimIsExclusive, Claiming
<1>6. UnlinkIsSafe'
  BY <1>1, <1>2 DEF TypeOK, OutboxInv, UnlinkIsSafe
<1> QED
  BY <1>3, <1>5, <1>6 DEF OutboxInv

LEMMA OutboxLeave ==
  ASSUME TypeOK, OutboxInv, NEW d \in Dispatchers, Leave(d),
         UNCHANGED <<outbox, attempts, received>>
  PROVE  OutboxInv'
<1>1. AttemptedOnce' /\ StatusIsTrue' /\ UnclaimedIsFresh'
  BY DEF OutboxInv, AttemptedOnce, StatusIsTrue, UnclaimedIsFresh
<1>2. \A c \in Dispatchers : pc'[c] \in Claiming \union {"unlink"} =>
        c # d /\ pc'[c] = pc[c] /\ cur'[c] = cur[c] /\ valid'[c] = valid[c]
  BY DEF Leave, Goto, TypeOK, Claiming
<1>3. ClaimIsExclusive'
  BY <1>2 DEF OutboxInv, ClaimIsExclusive, Claiming
<1>4. UnlinkIsSafe'
  BY <1>2 DEF OutboxInv, UnlinkIsSafe
<1> QED
  BY <1>1, <1>3, <1>4 DEF OutboxInv

LEMMA OutboxStutter ==
  ASSUME OutboxInv, UNCHANGED <<outbox, attempts, pc, valid, cur, received>>
  PROVE  OutboxInv'
BY DEF OutboxInv, AttemptedOnce, StatusIsTrue, ClaimIsExclusive, UnclaimedIsFresh, UnlinkIsSafe

LEMMA OutboxStep ==
  ASSUME TypeOK, OutboxInv, [Next]_vars
  PROVE  OutboxInv'
<1>1. ASSUME NEW w \in Writers, Write(w) PROVE OutboxInv'
  BY <1>1, OutboxStutter DEF Write, CheckRoom, Spool
<1>2. ASSUME NEW e \in Events, Report(e) PROVE OutboxInv'
  BY <1>2, OutboxStutter DEF Report
<1>3. ASSUME NEW d \in Dispatchers, Scan(d) PROVE OutboxInv'
  BY <1>3, OutboxBystander DEF Scan, Goto, Claiming, PCs, TypeOK
<1>4. ASSUME NEW d \in Dispatchers, Unlink(d) PROVE OutboxInv'
  <2>1. pc' = [pc EXCEPT ![d] = "unlink"] /\ valid'[d] \subseteq valid[d]
    BY <1>4 DEF Unlink, TypeOK
  <2> QED
    BY <1>4, <2>1, OutboxBystander DEF Unlink, Claiming, PCs, TypeOK
<1>5. ASSUME NEW d \in Dispatchers, Unlinked(d) \/ List(d) PROVE OutboxInv'
  BY <1>5, OutboxBystander DEF Unlinked, List, Goto, Claiming, PCs
<1>6. ASSUME NEW d \in Dispatchers, Skip(d) PROVE OutboxInv'
  BY <1>6, OutboxStutter DEF Skip
<1>7. ASSUME NEW d \in Dispatchers, Import(d) \/ Claim(d) \/ Send(d) \/ Mark(d) PROVE OutboxInv'
  BY <1>7, OutboxImport, OutboxClaim, OutboxSend, OutboxMark
<1>8. ASSUME NEW d \in Dispatchers, Finish(d) \/ Crash(d) PROVE OutboxInv'
  BY <1>8, OutboxLeave DEF Finish, Crash
<1>9. CASE UNCHANGED vars
  BY <1>9, OutboxStutter DEF vars
<1> QED
  BY <1>1, <1>2, <1>3, <1>4, <1>5, <1>6, <1>7, <1>8, <1>9 DEF Next, Pass

(* The inductive invariant holds in every reachable state. *)
THEOREM OutboxCorrect == Spec => [](TypeOK /\ OutboxInv)
<1>1. TypeOK /\ OutboxInv /\ [Next]_vars => OutboxInv'
  BY OutboxStep
<1> QED
  BY <1>1, OutboxInit, TypeCorrect, PTL DEF Spec

(* Each event gets one transport attempt, and the chat receives it at most *)
(* once: without any assumption on the lock, on crashes or on what the     *)
(* monitor presents again.                                                 *)
THEOREM AttemptedOnceAlways == Spec => []AttemptedOnce
<1>1. OutboxInv => AttemptedOnce
  BY DEF OutboxInv
<1> QED
  BY <1>1, OutboxCorrect, PTL

(* 'sent' means received, 'pending' means not received. *)
THEOREM StatusIsTrueAlways == Spec => []StatusIsTrue
<1>1. OutboxInv => StatusIsTrue
  BY DEF OutboxInv
<1> QED
  BY <1>1, OutboxCorrect, PTL
-------------------------------------------------------------------------------
(* The implementation of OneShotDelivery.                                    *)

Tried == {e \in Events : outbox[e] \notin {"none", "pending"}}
Flying == {e \in Events : \E d \in Dispatchers : pc[d] = "send" /\ cur[d] = e}
Confirmed == {e \in Events : outbox[e] = "sent"}

LEMMA SameFlying ==
  ASSUME TypeOK, NEW d \in Dispatchers, NEW l \in PCs \ {"send"}, pc[d] # "send",
         pc' = [pc EXCEPT ![d] = l],
         \A c \in Dispatchers : c # d => cur'[c] = cur[c]
  PROVE  Flying' = Flying
BY DEF Flying, TypeOK

LEMMA RefineClaim ==
  ASSUME TypeOK, OutboxInv, NEW d \in Dispatchers, Claim(d)
  PROVE  OneShot!Next
<1>1. PICK e \in rows[d] :
        /\ outbox[e] = "pending"
        /\ outbox' = [outbox EXCEPT ![e] = "sending"]
        /\ cur' = [cur EXCEPT ![d] = e]
  BY DEF Claim, Claimable
<1>2. /\ pc[d] = "loop" /\ pc' = [pc EXCEPT ![d] = "send"]
      /\ received' = received /\ e \in Events
  BY <1>1 DEF Claim, Goto, TypeOK
<1>3. e \notin Tried /\ Tried' = Tried \union {e} /\ Confirmed' = Confirmed
  BY <1>1, <1>2 DEF Tried, Confirmed, TypeOK
<1>4. Flying' = Flying \union {e}
  <2>1. pc'[d] = "send" /\ cur'[d] = e
    BY <1>1, <1>2 DEF TypeOK
  <2>2. \A c \in Dispatchers : c # d => pc'[c] = pc[c] /\ cur'[c] = cur[c]
    BY <1>1, <1>2 DEF TypeOK
  <2> QED
    BY <1>2, <2>1, <2>2 DEF Flying
<1>5. OneShot!Try(e)
  BY <1>2, <1>3, <1>4 DEF OneShot!Try, Tried, Flying, Confirmed
<1> QED
  BY <1>2, <1>5 DEF OneShot!Next

LEMMA RefineSend ==
  ASSUME TypeOK, OutboxInv, NEW d \in Dispatchers, Send(d)
  PROVE  OneShot!Next
<1>0. PICK e \in Events : e = cur[d]
  BY DEF Send, SendAccepted, SendError, TypeOK
<1>1. PICK arrived \in {0, 1}, l \in {"accepted", "error"} :
        /\ received' = [received EXCEPT ![e] = @ + arrived]
        /\ pc' = [pc EXCEPT ![d] = l]
  BY <1>0 DEF Send, SendAccepted, SendError, Goto
<1>2. pc[d] = "send" /\ cur[d] = e /\ UNCHANGED <<outbox, cur>>
  BY <1>0 DEF Send, SendAccepted, SendError, TypeOK
<1>3. Tried' = Tried /\ Confirmed' = Confirmed
  BY <1>2 DEF Tried, Confirmed
<1>4. e \in Flying /\ Flying' = Flying \ {e}
  <2>1. \A c \in Dispatchers : c # d => pc'[c] = pc[c] /\ cur'[c] = cur[c]
    BY <1>1, <1>2 DEF TypeOK
  <2>2. \A c \in Dispatchers : c # d /\ pc[c] = "send" => cur[c] # e
    BY <1>2 DEF OutboxInv, ClaimIsExclusive
  <2>3. pc'[d] # "send"
    BY <1>1 DEF TypeOK
  <2> QED
    BY <1>2, <2>1, <2>2, <2>3 DEF Flying
<1>5. CASE arrived = 1
  <2>1. OneShot!Receive(e)
    BY <1>1, <1>3, <1>4, <1>5 DEF OneShot!Receive, Tried, Flying, Confirmed
  <2> QED
    BY <1>2, <2>1 DEF OneShot!Next
<1>6. CASE arrived = 0
  <2>1. received' = received
    BY <1>1, <1>2, <1>6 DEF TypeOK
  <2>2. OneShot!Lose(e)
    BY <1>3, <1>4, <2>1 DEF OneShot!Lose, Tried, Flying, Confirmed
  <2> QED
    BY <1>2, <2>2 DEF OneShot!Next
<1> QED
  BY <1>5, <1>6

LEMMA RefineMark ==
  ASSUME TypeOK, OutboxInv, NEW d \in Dispatchers, Mark(d)
  PROVE  [OneShot!Next]_OneShot!vars
<1>0. PICK e \in Events : e = cur[d]
  BY DEF Mark, TypeOK
<1>1. /\ pc[d] \in {"accepted", "error"} /\ cur[d] = e
      /\ outbox' = [outbox EXCEPT ![e] = IF outbox[e] = "sending" THEN Outcome(d) ELSE outbox[e]]
      /\ pc' = [pc EXCEPT ![d] = "loop"]
      /\ cur' = [cur EXCEPT ![d] = NoEvent]
      /\ received' = received
  BY <1>0 DEF Mark, Goto, TypeOK
<1>2. Flying' = Flying
  BY <1>1, SameFlying DEF TypeOK, PCs
<1>3. Tried' = Tried
  BY <1>1 DEF Tried, TypeOK, OutboxInv, ClaimIsExclusive, Outcome
<1>4. CASE pc[d] = "accepted" /\ outbox[e] = "sending"
  <2>1. received[e] > 0
    BY <1>1, <1>4 DEF OutboxInv, ClaimIsExclusive
  <2>2. Confirmed' = Confirmed \union {e}
    BY <1>1, <1>4 DEF Confirmed, TypeOK, Outcome
  <2>3. OneShot!Confirm(e)
    BY <1>1, <1>2, <1>3, <2>1, <2>2 DEF OneShot!Confirm, Tried, Flying, Confirmed
  <2> QED
    BY <1>1, <2>3 DEF OneShot!Next
<1>5. CASE ~(pc[d] = "accepted" /\ outbox[e] = "sending")
  <2>1. Confirmed' = Confirmed
    BY <1>1, <1>5 DEF Confirmed, TypeOK, Outcome, OutboxInv, ClaimIsExclusive
  <2> QED
    BY <1>1, <1>2, <1>3, <2>1 DEF OneShot!vars, Tried, Flying, Confirmed
<1> QED
  BY <1>4, <1>5

LEMMA RefineLeave ==
  ASSUME TypeOK, OutboxInv, NEW d \in Dispatchers, Leave(d), UNCHANGED <<outbox, received>>
  PROVE  [OneShot!Next]_OneShot!vars
<1>1. Tried' = Tried /\ Confirmed' = Confirmed
  BY DEF Tried, Confirmed
<1>2. /\ pc' = [pc EXCEPT ![d] = "idle"]
      /\ \A c \in Dispatchers : c # d => pc'[c] = pc[c] /\ cur'[c] = cur[c]
  BY DEF Leave, Goto, TypeOK
<1>3. CASE pc[d] = "send"
  <2>1. PICK e \in Events : e = cur[d]
    BY <1>3 DEF TypeOK
  <2>2. \A c \in Dispatchers : c # d /\ pc[c] = "send" => cur[c] # e
    BY <1>3, <2>1 DEF OutboxInv, ClaimIsExclusive
  <2>3. pc'[d] # "send"
    BY <1>2 DEF TypeOK
  <2>4. e \in Flying /\ Flying' = Flying \ {e}
    BY <1>2, <1>3, <2>1, <2>2, <2>3 DEF Flying
  <2>5. OneShot!Lose(e)
    BY <1>1, <2>4 DEF OneShot!Lose, Tried, Flying, Confirmed
  <2> QED
    BY <2>1, <2>5 DEF OneShot!Next
<1>4. CASE pc[d] # "send"
  <2>1. Flying' = Flying
    BY <1>2, <1>4, SameFlying DEF PCs
  <2> QED
    BY <1>1, <2>1 DEF OneShot!vars, Tried, Flying, Confirmed
<1> QED
  BY <1>3, <1>4

(* A step that leaves the three mapped sets alone is a stutter. *)
LEMMA RefineStutter ==
  ASSUME Tried' = Tried, Flying' = Flying, Confirmed' = Confirmed, received' = received
  PROVE  [OneShot!Next]_OneShot!vars
BY DEF OneShot!vars, Tried, Flying, Confirmed

LEMMA RefineStep ==
  ASSUME TypeOK, OutboxInv, [Next]_vars
  PROVE  [OneShot!Next]_OneShot!vars
<1>1. ASSUME NEW w \in Writers, Write(w) PROVE [OneShot!Next]_OneShot!vars
  BY <1>1, RefineStutter DEF Write, CheckRoom, Spool, Tried, Flying, Confirmed
<1>2. ASSUME NEW e \in Events, Report(e) PROVE [OneShot!Next]_OneShot!vars
  BY <1>2, RefineStutter DEF Report, Tried, Flying, Confirmed
<1>3. ASSUME NEW d \in Dispatchers, Scan(d) \/ Unlinked(d) \/ List(d)
      PROVE  [OneShot!Next]_OneShot!vars
  <2>1. UNCHANGED <<outbox, received, cur>>
    BY <1>3 DEF Scan, Unlinked, List
  <2>2. PICK l \in {"import", "list", "loop"} : pc[d] # "send" /\ pc' = [pc EXCEPT ![d] = l]
    BY <1>3 DEF Scan, Unlinked, List, Goto
  <2>3. Flying' = Flying
    BY <2>1, <2>2, SameFlying DEF PCs
  <2> QED
    BY <2>1, <2>3, RefineStutter DEF Tried, Confirmed
<1>4. ASSUME NEW d \in Dispatchers, Unlink(d) \/ Skip(d) PROVE [OneShot!Next]_OneShot!vars
  BY <1>4, RefineStutter DEF Unlink, Skip, Tried, Flying, Confirmed
<1>5. ASSUME NEW d \in Dispatchers, Import(d) PROVE [OneShot!Next]_OneShot!vars
  <2>1. Tried' = Tried /\ Confirmed' = Confirmed
    BY <1>5 DEF Import, Imported, Swept, Tried, Confirmed, TypeOK
  <2>2. Flying' = Flying /\ received' = received
    BY <1>5, SameFlying DEF Import, Goto, PCs
  <2> QED
    BY <2>1, <2>2, RefineStutter
<1>6. ASSUME NEW d \in Dispatchers, Claim(d) \/ Send(d) \/ Mark(d)
      PROVE  [OneShot!Next]_OneShot!vars
  BY <1>6, RefineClaim, RefineSend, RefineMark
<1>7. ASSUME NEW d \in Dispatchers, Finish(d) \/ Crash(d) PROVE [OneShot!Next]_OneShot!vars
  BY <1>7, RefineLeave DEF Finish, Crash
<1>8. CASE UNCHANGED vars
  BY <1>8, RefineStutter DEF vars, Tried, Flying, Confirmed
<1> QED
  BY <1>1, <1>2, <1>3, <1>4, <1>5, <1>6, <1>7, <1>8 DEF Next, Pass

(* The outbox, with any number of overlapping and crashing dispatchers,    *)
(* implements the one-attempt promise.                                     *)
THEOREM OutboxImplementsOneShot == Spec => ImplementsOneShot
<1>1. Init => OneShot!Init
  BY DEF Init, OneShot!Init
<1>2. TypeOK /\ OutboxInv /\ [Next]_vars => [OneShot!Next]_OneShot!vars
  BY RefineStep
<1> QED
  BY <1>1, <1>2, OutboxCorrect, PTL DEF Spec, OneShot!Spec, ImplementsOneShot

-------------------------------------------------------------------------------
(* What steps may not do, and the boundary both programs share.              *)

(* A status only moves forward, and attempted rows are never queued again. *)
THEOREM StatusOnlyAdvancesAlways == Spec => StatusOnlyAdvances
<1> DEFINE Ahead ==
       \A e \in Events :
         /\ outbox[e] \in {"sent", "ambiguous"} => outbox'[e] = outbox[e]
         /\ outbox[e] = "sending" => outbox'[e] \in {"sending", "sent", "ambiguous"}
<1>1. ASSUME TypeOK, OutboxInv, [Next]_vars PROVE Ahead
  <2>1. ASSUME NEW d \in Dispatchers, Import(d) PROVE Ahead
    BY <2>1 DEF Import, Imported, Swept, TypeOK
  <2>2. ASSUME NEW d \in Dispatchers, Claim(d) PROVE Ahead
    BY <2>2 DEF Claim, Claimable, TypeOK
  <2>3. ASSUME NEW d \in Dispatchers, Mark(d) PROVE Ahead
    BY <2>3 DEF Mark, Outcome, TypeOK
  <2>4. ASSUME outbox' = outbox PROVE Ahead
    BY <2>4
  <2>5. ASSUME NEW d \in Dispatchers, Pass(d) \/ Crash(d) PROVE Ahead
    BY <2>1, <2>2, <2>3, <2>4, <2>5
    DEF Pass, Scan, Unlink, Unlinked, List, Skip, Send, SendAccepted, SendError, Finish, Crash
  <2> QED
    BY <1>1, <2>4, <2>5 DEF Next, Write, CheckRoom, Spool, Report, vars
<1>2. TypeOK /\ OutboxInv /\ [Next]_vars => [Ahead]_vars
  BY <1>1
<1> QED
  BY <1>2, OutboxCorrect, PTL DEF Spec, StatusOnlyAdvances

(* A file goes away only when its event has a row, and rows stay. *)
THEOREM NothingIsLostAlways == Spec => NothingIsLost
<1> DEFINE Kept ==
       \A e \in Events :
         /\ e \in spool /\ e \notin spool' => outbox[e] # "none"
         /\ outbox[e] # "none" => outbox'[e] # "none"
<1>1. ASSUME TypeOK, OutboxInv, [Next]_vars PROVE Kept
  <2>1. ASSUME NEW d \in Dispatchers, Unlink(d) PROVE Kept
    BY <1>1, <2>1 DEF Unlink, OutboxInv, UnlinkIsSafe
  <2>2. ASSUME NEW d \in Dispatchers, Import(d) PROVE Kept
    BY <2>2 DEF Import, Imported, Swept, files
  <2>3. ASSUME NEW d \in Dispatchers, Claim(d) PROVE Kept
    BY <2>3 DEF Claim, TypeOK, files
  <2>4. ASSUME NEW d \in Dispatchers, Mark(d) PROVE Kept
    BY <2>4 DEF Mark, Outcome, TypeOK, files
  <2>5. ASSUME outbox' = outbox, spool \subseteq spool' PROVE Kept
    BY <2>5
  <2>6. ASSUME NEW d \in Dispatchers, Pass(d) \/ Crash(d) PROVE Kept
    BY <2>1, <2>2, <2>3, <2>4, <2>5, <2>6
    DEF Pass, Scan, Unlinked, List, Skip, Send, SendAccepted, SendError, Finish, Crash, files
  <2> QED
    BY <1>1, <2>5, <2>6 DEF Next, Write, CheckRoom, Spool, Report, vars, files
<1>2. TypeOK /\ OutboxInv /\ [Next]_vars => [Kept]_vars
  BY <1>1
<1> QED
  BY <1>2, OutboxCorrect, PTL DEF Spec, NothingIsLost

(* The monitor looks for room and then writes: with one monitor nothing    *)
(* fills the directory in between.                                         *)
RoomIsReserved ==
  /\ IsFiniteSet(spool)
  /\ Cardinality(spool) <= MaxSpoolFiles
  /\ \A w \in Writers : writing[w] # NoEvent => Cardinality(spool) < MaxSpoolFiles

LEMMA AddOne ==
  ASSUME NEW S, NEW T, NEW x, IsFiniteSet(S), T = S \union {x}
  PROVE  /\ IsFiniteSet(T) /\ Cardinality(S) \in Nat /\ Cardinality(T) \in Nat
         /\ Cardinality(T) <= Cardinality(S) + 1
<1>1. IsFiniteSet(T) /\ Cardinality(T) = IF x \in S THEN Cardinality(S) ELSE Cardinality(S) + 1
  BY FS_AddElement
<1>2. Cardinality(S) \in Nat
  BY FS_CardinalityType
<1> QED
  BY <1>1, <1>2

LEMMA RemoveOne ==
  ASSUME NEW S, NEW T, NEW x, IsFiniteSet(S), T = S \ {x}
  PROVE  /\ IsFiniteSet(T) /\ Cardinality(S) \in Nat /\ Cardinality(T) \in Nat
         /\ Cardinality(T) <= Cardinality(S)
<1>1. IsFiniteSet(T) /\ Cardinality(T) = IF x \in S THEN Cardinality(S) - 1 ELSE Cardinality(S)
  BY FS_RemoveElement
<1>2. Cardinality(S) \in Nat /\ Cardinality(T) \in Nat
  BY <1>1, FS_CardinalityType
<1> QED
  BY <1>1, <1>2

LEMMA RoomStep ==
  ASSUME NEW w, Writers = {w}, TypeOK, RoomIsReserved, [Next]_vars
  PROVE  RoomIsReserved'
<1> USE BoundsAssumption DEF BoundsAssumption
<1>1. ASSUME Spool(w) PROVE RoomIsReserved'
  <2>1. spool' = spool \union {writing[w]} /\ writing'[w] = NoEvent
    BY <1>1 DEF Spool, TypeOK
  <2>2. /\ IsFiniteSet(spool') /\ Cardinality(spool) \in Nat /\ Cardinality(spool') \in Nat
        /\ Cardinality(spool') <= Cardinality(spool) + 1
    BY <2>1, AddOne DEF RoomIsReserved
  <2>3. Cardinality(spool) < MaxSpoolFiles
    BY <1>1 DEF Spool, RoomIsReserved
  <2> QED
    BY <2>1, <2>2, <2>3 DEF RoomIsReserved
<1>2. ASSUME NEW e \in Events, CheckRoom(w, e) PROVE RoomIsReserved'
  BY <1>2 DEF CheckRoom, HasRoom, RoomIsReserved, TypeOK
<1>3. ASSUME NEW d \in Dispatchers, Unlink(d) PROVE RoomIsReserved'
  <2>1. PICK e \in valid[d] : spool' = spool \ {e} /\ writing' = writing
    BY <1>3 DEF Unlink
  <2>2. /\ IsFiniteSet(spool') /\ Cardinality(spool) \in Nat /\ Cardinality(spool') \in Nat
        /\ Cardinality(spool') <= Cardinality(spool)
    BY <2>1, RemoveOne DEF RoomIsReserved
  <2> QED
    BY <2>1, <2>2 DEF RoomIsReserved
<1>4. ASSUME UNCHANGED files PROVE RoomIsReserved'
  BY <1>4 DEF files, RoomIsReserved
<1>5. ASSUME NEW d \in Dispatchers, Pass(d) \/ Crash(d) PROVE RoomIsReserved'
  BY <1>3, <1>4, <1>5 DEF Pass, Scan, Import, Unlinked, List, Claim, Skip, Send,
     SendAccepted, SendError, Mark, Finish, Crash
<1> QED
  BY <1>1, <1>2, <1>4, <1>5 DEF Next, Write, Report, vars, files

(* With a single monitor, the directory never holds more files than the    *)
(* dispatcher is ready to read: "< 500" there and "> 500" here agree.      *)
THEOREM SpoolNeverBlocksAlways ==
  ASSUME NEW w, Writers = {w}
  PROVE  Spec => []SpoolNeverBlocks
<1>1. Init => RoomIsReserved
  BY BoundsAssumption, FS_EmptySet DEF BoundsAssumption, Init, RoomIsReserved
<1>2. TypeOK /\ RoomIsReserved /\ [Next]_vars => RoomIsReserved'
  BY RoomStep
<1>3. RoomIsReserved => SpoolNeverBlocks
  BY DEF RoomIsReserved, SpoolNeverBlocks, MayScan
<1> QED
  BY <1>1, <1>2, <1>3, TypeCorrect, PTL DEF Spec
===============================================================================
