-------------------------- MODULE MarketMessages_proofs --------------------------
(***************************************************************************)
(* What MarketMessages promises for any number of slots, notices and       *)
(* processes, any page size and any number of attempts.                    *)
(***************************************************************************)
EXTENDS MarketMessages, TLAPS

USE MessagesAssumption DEF Procs, Messages, Notices, NoMessage, NoOutcome

-----------------------------------------------------------------------------
(* The first page of the search holds notices that were published.         *)
LEMMA HeadTail ==
    ASSUME NEW S, NEW q \in Seq(S), q # <<>> PROVE Head(q) \in S /\ Tail(q) \in Seq(S)
OBVIOUS

LEMMA NewestFact ==
    ASSUME published \in 0..MaxNotices PROVE Newest \in Seq(Notices)
<1> DEFINE n == Min({Page, published})
<1>1. n \in Nat /\ n <= published
  <2>1. \E x \in {Page, published} : \A y \in {Page, published} : x <= y
    OBVIOUS
  <2>2. n \in {Page, published} /\ \A y \in {Page, published} : n <= y
    BY <2>1 DEF Min
  <2> QED  BY <2>2
<1> HIDE DEF n
<1>2. Newest = [i \in 1..n |-> published - i + 1]
  BY DEF Newest, n
<1>3. [i \in 1..n |-> published - i + 1] \in [1..n -> Notices]
  BY <1>1
<1> QED  BY <1>1, <1>2, <1>3

-----------------------------------------------------------------------------
(* The inductive invariant.                                                *)

(* What a process has in hand, at each of its places. *)
InHand ==
    \A p \in Procs :
        /\ job[p] = NoMessage <=> pc[p] \in {"idle", "next"}
        /\ pc[p] = "compose" => job[p] \in Slots
        /\ pc[p] = "send" => tries[p] > 0 /\ (job[p] \in Slots => tries[p] = 1)
        /\ pc[p] = "record" => outcome[p] \in Outcomes
        /\ pc[p] = "record" /\ outcome[p] = "ambiguous" => job[p] \in doubt
        /\ repeat[p] => job[p] \in Slots /\ Sent(job[p])

(* What is reported or logged as sent was received. *)
SentWasReceived ==
    /\ \A m \in Messages : Sent(m) => received[m] > 0
    /\ \A p \in Procs : pc[p] = "record" /\ outcome[p] = "sent" => received[job[p]] > 0

(* A message of two processes is known to be overlapped. *)
Alone ==
    \A p, q \in Procs : p # q /\ job[p] = job[q] /\ job[p] # NoMessage => job[p] \in overlap

(* An outcome that may stand for a receipt. *)
Outspoken == {"sent", "ambiguous"}
Told(m) == \E r \in log[m] : r.status \in Outspoken
Reports(p, m) == job[p] = m /\ pc[p] = "record" /\ outcome[p] \in Outspoken

(* A receipt is in the log, or its process is about to log it. *)
ReceiptIsLogged ==
    \A m \in Messages : received[m] > 0 =>
        \/ m \in died \cup broken \/ Told(m) \/ (m \in Notices /\ m \in doubt)
        \/ \E p \in Procs : Reports(p, m)

(* Nothing has happened to the message that may repeat it. *)
Clean(m) == m \notin died \cup broken \cup overlap \cup asked /\ (m \in Notices => m \notin doubt)

(* Such a message has been received once at most; in hand it has not been  *)
(* logged, and before its attempt ends it has not been received.           *)
CleanIsFresh ==
    \A m \in Messages : Clean(m) =>
        /\ received[m] <= 1
        /\ \A p \in Procs : job[p] = m =>
              /\ ~Told(m)
              /\ pc[p] \in {"compose", "send"} => received[m] = 0

(* Its ambiguous row is its latest one, and so holds it. *)
LatestHolds ==
    \A s \in Slots :
        /\ \A r \in log[s] : r.at <= clock[s]
        /\ \A p \in Procs : job[p] = s /\ pc[p] \in {"send", "record"} => at[p] <= clock[s]
        /\ Clean(s) =>
              /\ \A p \in Procs : job[p] = s /\ pc[p] \in {"send", "record"} => at[p] = clock[s]
              /\ \A r, t \in log[s] : r.status = "ambiguous" => t.at <= r.at

(* Only successes are logged of notices. *)
NoticeRows == \A n \in Notices : \A r \in log[n] : r.status = "sent"

MessagesInv ==
    /\ TypeOK /\ InHand /\ SentWasReceived /\ Alone /\ ReceiptIsLogged
    /\ CleanIsFresh /\ LatestHolds /\ NoticeRows

LEMMA InitInv == Init => MessagesInv
BY DEF Init, MessagesInv, TypeOK, InHand, SentWasReceived, Alone, ReceiptIsLogged, CleanIsFresh,
       LatestHolds, NoticeRows, Sent, Outcomes, Told

USE DEF day, local, process, history, bounds

(* A step that takes no report from a message and forgets nothing about it *)
(* keeps its receipt on record.                                            *)
LEMMA ReceiptStays ==
    ASSUME ReceiptIsLogged, NEW m \in Messages, received[m] > 0,
           died \subseteq died', broken \subseteq broken', doubt \subseteq doubt', log[m] \subseteq log'[m],
           \A q \in Procs : Reports(q, m) => Reports(q, m)'
    PROVE  \/ m \in died' \cup broken' \/ Told(m)' \/ (m \in Notices /\ m \in doubt')
           \/ \E q \in Procs : Reports(q, m)'
<1>1. CASE m \in died \cup broken
  BY <1>1
<1>2. CASE Told(m)
  BY <1>2 DEF Told
<1>3. CASE m \in Notices /\ m \in doubt
  BY <1>3
<1>4. CASE \E q \in Procs : Reports(q, m)
  BY <1>4
<1> QED  BY <1>1, <1>2, <1>3, <1>4 DEF ReceiptIsLogged

LEMMA MessagesFact ==
    /\ NoMessage \notin Messages
    /\ \A x \in Slots : x \notin Notices
<1>1. 0 \notin Slots
  <2>1. 0 \in Nat
    OBVIOUS
  <2> QED  BY <2>1
<1>2. \A x \in Slots : x \notin Nat
  OBVIOUS
<1> QED  BY <1>1, <1>2

LEMMA HandFact ==
    ASSUME TypeOK, InHand, NEW p \in Procs
    PROVE  /\ pc[p] \in {"compose", "send", "record"} => job[p] \in Messages
           /\ pc[p] \in {"idle", "next"} => job[p] = NoMessage /\ ~repeat[p]
BY MessagesFact DEF InHand, TypeOK

(* What a process gives up when it leaves. *)
LEMMA LeaveFact ==
    ASSUME TypeOK, NEW p \in Procs, Leave(p)
    PROVE  /\ pc' \in [Procs -> {"idle", "compose", "next", "send", "record"}]
           /\ job' \in [Procs -> Messages \cup {NoMessage}] /\ page' \in [Procs -> Seq(Notices)]
           /\ repeat' \in [Procs -> BOOLEAN] /\ tries' \in [Procs -> 0..Attempts]
           /\ at' \in [Procs -> Nat] /\ outcome' \in [Procs -> Outcomes \cup {NoOutcome}]
           /\ pc'[p] = "idle" /\ job'[p] = NoMessage /\ repeat'[p] = FALSE
           /\ \A q \in Procs \ {p} :
                 /\ pc'[q] = pc[q] /\ job'[q] = job[q] /\ repeat'[q] = repeat[q]
                 /\ at'[q] = at[q] /\ outcome'[q] = outcome[q] /\ tries'[q] = tries[q]
BY DEF TypeOK, Leave, Goto

LEMMA TickInv ==
    ASSUME MessagesInv, Tick PROVE MessagesInv'
<1> USE DEF MessagesInv
<1>1. /\ log' = log /\ pc' = pc /\ job' = job /\ page' = page /\ repeat' = repeat
      /\ tries' = tries /\ at' = at /\ outcome' = outcome /\ clock' = clock
      /\ received' = received /\ doubt' = doubt /\ died' = died /\ asked' = asked /\ broken' = broken
      /\ overlap' = overlap /\ faults' = faults /\ repeats' = repeats
  BY DEF Tick
<1>2. market' \in {"before", "open", "after"} /\ published' \in 0..MaxNotices
  BY DEF Tick, TypeOK
<1>3. TypeOK'
  BY <1>1, <1>2 DEF TypeOK
<1>4. InHand' /\ SentWasReceived' /\ Alone' /\ NoticeRows'
  BY <1>1 DEF InHand, SentWasReceived, Alone, NoticeRows, Sent
<1>5. ReceiptIsLogged' /\ CleanIsFresh' /\ LatestHolds'
  BY <1>1 DEF ReceiptIsLogged, CleanIsFresh, LatestHolds, Told, Reports, Clean
<1> QED  BY <1>3, <1>4, <1>5

LEMMA PublishInv ==
    ASSUME MessagesInv, Publish PROVE MessagesInv'
<1> USE DEF MessagesInv
<1>1. /\ log' = log /\ pc' = pc /\ job' = job /\ page' = page /\ repeat' = repeat
      /\ tries' = tries /\ at' = at /\ outcome' = outcome /\ clock' = clock
      /\ received' = received /\ doubt' = doubt /\ died' = died /\ asked' = asked /\ broken' = broken
      /\ overlap' = overlap /\ faults' = faults /\ repeats' = repeats
  BY DEF Publish
<1>2. market' \in {"before", "open", "after"} /\ published' \in 0..MaxNotices
  BY DEF Publish, TypeOK
<1>3. TypeOK'
  BY <1>1, <1>2 DEF TypeOK
<1>4. InHand' /\ SentWasReceived' /\ Alone' /\ NoticeRows'
  BY <1>1 DEF InHand, SentWasReceived, Alone, NoticeRows, Sent
<1>5. ReceiptIsLogged' /\ CleanIsFresh' /\ LatestHolds'
  BY <1>1 DEF ReceiptIsLogged, CleanIsFresh, LatestHolds, Told, Reports, Clean
<1> QED  BY <1>3, <1>4, <1>5

LEMMA BeginSlotInv ==
    ASSUME MessagesInv, NEW p \in Others, NEW s \in Slots, BeginSlot(p, s) PROVE MessagesInv'
<1> USE DEF MessagesInv
<1>1. TypeOK'
  BY DEF TypeOK, InHand, Outcomes, Records, BeginSlot, Take, Goto
<1>2. InHand'
  <2> SUFFICES ASSUME NEW q \in Procs PROVE InHand!(q)'
    BY DEF InHand
  <2>1. log' = log /\ repeat' = repeat /\ tries' = tries /\ outcome' = outcome /\ doubt' = doubt
    BY DEF BeginSlot
  <2>2. CASE q = p
    <3>1. pc'[p] = "compose" /\ job'[p] = s /\ repeat'[p] = repeat[p]
      BY DEF BeginSlot, Take, Goto, TypeOK
    <3>2. s # NoMessage /\ ~repeat[p]
      BY HandFact, MessagesFact DEF BeginSlot
    <3> QED  BY <2>2, <3>1, <3>2
  <2>3. CASE q # p
    BY <2>1, <2>3 DEF InHand, TypeOK, Sent, BeginSlot, Take, Goto
  <2> QED  BY <2>2, <2>3
<1>3. SentWasReceived'
  BY DEF SentWasReceived, Sent, TypeOK, InHand, Records, Outcomes, BeginSlot, Take, Goto
<1>4. Alone'
  BY DEF Alone, TypeOK, InHand, BeginSlot, Take, Goto
<1>5. ReceiptIsLogged'
  <2> SUFFICES ASSUME NEW m \in Messages, received'[m] > 0
               PROVE  \/ m \in died' \cup broken' \/ Told(m)' \/ (m \in Notices /\ m \in doubt')
                      \/ \E q \in Procs : Reports(q, m)'
    BY DEF ReceiptIsLogged
  <2>1. \A q \in Procs : Reports(q, m) => Reports(q, m)'
    BY DEF Reports, InHand, TypeOK, BeginSlot, Take, Goto
  <2>2. /\ received[m] > 0 /\ log[m] \subseteq log'[m]
        /\ died \subseteq died' /\ broken \subseteq broken' /\ doubt \subseteq doubt'
    BY DEF TypeOK, BeginSlot, Take, Goto
  <2> QED  BY <2>1, <2>2, ReceiptStays
<1>6. CleanIsFresh'
  <2> SUFFICES ASSUME NEW m \in Messages, Clean(m)' PROVE CleanIsFresh!(m)!2'
    BY DEF CleanIsFresh
  <2>1. /\ Clean(m) /\ received' = received /\ log' = log /\ job' = [job EXCEPT ![p] = s]
        /\ pc' = [pc EXCEPT ![p] = "compose"]
    BY DEF Clean, BeginSlot, Take, Goto, TypeOK
  <2>2. CASE m # s
    BY <2>1, <2>2 DEF CleanIsFresh, TypeOK, Told
  <2>3. CASE m = s
    <3>1. \A q \in Procs \ {p} : job[q] # m
      BY <2>1, <2>3 DEF Clean, BeginSlot, Take
    <3>2. job[p] # m
      BY <2>3 DEF BeginSlot, InHand
    <3>3. ~Told(m)
      <4> SUFFICES ASSUME Told(m) PROVE FALSE
        OBVIOUS
      <4>1. \E r \in log[m] : r.status = "ambiguous"
        BY <2>3 DEF Told, Outspoken, BeginSlot, Sent
      <4>2. \A r, t \in log[m] : r.status = "ambiguous" => t.at <= r.at
        BY <2>1, <2>3 DEF LatestHolds
      <4>3. Held(s)
        BY <2>3, <4>1, <4>2 DEF Held
      <4> QED  BY <4>3 DEF BeginSlot
    <3>4. received[m] = 0
      <4>1. received[m] \in Nat
        BY DEF TypeOK
      <4> QED  BY <2>1, <2>3, <3>1, <3>2, <3>3, <4>1, MessagesFact DEF ReceiptIsLogged, Reports, Clean
    <3> QED  BY <2>1, <2>3, <3>1, <3>3, <3>4 DEF Told, TypeOK
  <2> QED  BY <2>2, <2>3
<1>7. LatestHolds'
  BY DEF LatestHolds, Clean, TypeOK, InHand, Alone, Records, BeginSlot, Take, Goto
<1>8. NoticeRows'
  BY DEF NoticeRows, BeginSlot
<1> QED  BY <1>1, <1>2, <1>3, <1>4, <1>5, <1>6, <1>7, <1>8

LEMMA RepeatSlotInv ==
    ASSUME MessagesInv, NEW p \in Others, NEW s \in Slots, RepeatSlot(p, s) PROVE MessagesInv'
<1> USE DEF MessagesInv
<1>1. TypeOK'
  <2>1. Sent(s) \in BOOLEAN
    BY DEF Sent
  <2>2. repeat' \in [Procs -> BOOLEAN]
    BY <2>1 DEF TypeOK, RepeatSlot
  <2>3. /\ overlap' \subseteq Messages /\ asked' \subseteq Slots /\ repeats' \in 0..MaxRepeats
    BY DEF TypeOK, RepeatSlot, Take
  <2>4. /\ pc' \in [Procs -> {"idle", "compose", "next", "send", "record"}]
        /\ job' \in [Procs -> Messages \cup {NoMessage}]
    BY DEF TypeOK, RepeatSlot, Take, Goto
  <2> QED  BY <2>2, <2>3, <2>4 DEF TypeOK, RepeatSlot
<1>2. InHand'
  <2> SUFFICES ASSUME NEW q \in Procs PROVE InHand!(q)'
    BY DEF InHand
  <2>1. log' = log /\ tries' = tries /\ outcome' = outcome /\ doubt' = doubt
    BY DEF RepeatSlot
  <2>2. CASE q = p
    BY <2>1, <2>2 DEF InHand, TypeOK, Sent, RepeatSlot, Take, Goto
  <2>3. CASE q # p
    BY <2>1, <2>3 DEF InHand, TypeOK, Sent, RepeatSlot, Take, Goto
  <2> QED  BY <2>2, <2>3
<1>3. SentWasReceived'
  BY DEF SentWasReceived, Sent, TypeOK, InHand, Records, Outcomes, RepeatSlot, Take, Goto
<1>4. Alone'
  BY DEF Alone, TypeOK, InHand, RepeatSlot, Take, Goto
<1>5. ReceiptIsLogged'
  <2> SUFFICES ASSUME NEW m \in Messages, received'[m] > 0
               PROVE  \/ m \in died' \cup broken' \/ Told(m)' \/ (m \in Notices /\ m \in doubt')
                      \/ \E q \in Procs : Reports(q, m)'
    BY DEF ReceiptIsLogged
  <2>1. \A q \in Procs : Reports(q, m) => Reports(q, m)'
    BY DEF Reports, InHand, TypeOK, RepeatSlot, Take, Goto
  <2>2. /\ received[m] > 0 /\ log[m] \subseteq log'[m]
        /\ died \subseteq died' /\ broken \subseteq broken' /\ doubt \subseteq doubt'
    BY DEF TypeOK, RepeatSlot, Take, Goto
  <2> QED  BY <2>1, <2>2, ReceiptStays
<1>6. CleanIsFresh'
  BY DEF CleanIsFresh, Clean, Told, Outspoken, TypeOK, InHand, Alone, Records, RepeatSlot, Take, Goto
<1>7. LatestHolds'
  BY DEF LatestHolds, Clean, TypeOK, InHand, Alone, Records, RepeatSlot, Take, Goto
<1>8. NoticeRows'
  BY DEF NoticeRows, RepeatSlot
<1> QED  BY <1>1, <1>2, <1>3, <1>4, <1>5, <1>6, <1>7, <1>8

LEMMA ComposeInv ==
    ASSUME MessagesInv, NEW p \in Procs, Compose(p) PROVE MessagesInv'
<1> USE DEF MessagesInv
<1>0. PICK s \in Slots : s = job[p]
  BY DEF Compose, InHand
<1>1. /\ pc[p] = "compose" /\ pc' = [pc EXCEPT ![p] = "send"] /\ tries' = [tries EXCEPT ![p] = 1]
      /\ clock' = [clock EXCEPT ![s] = clock[s] + 1] /\ at' = [at EXCEPT ![p] = clock[s] + 1]
  BY <1>0 DEF Compose, Goto
<1>2. /\ log' = log /\ job' = job /\ page' = page /\ repeat' = repeat /\ outcome' = outcome
      /\ received' = received /\ doubt' = doubt /\ died' = died /\ asked' = asked /\ broken' = broken
      /\ overlap' = overlap /\ faults' = faults /\ repeats' = repeats
      /\ market' = market /\ published' = published
  BY DEF Compose
<1>3. clock[s] \in Nat /\ 1 \in 0..Attempts
  BY DEF TypeOK
<1>4. TypeOK'
  <2>1. clock' \in [Messages -> Nat] /\ at' \in [Procs -> Nat]
    BY <1>1, <1>3 DEF TypeOK
  <2>2. /\ pc' \in [Procs -> {"idle", "compose", "next", "send", "record"}]
        /\ tries' \in [Procs -> 0..Attempts]
    BY <1>1, <1>3 DEF TypeOK
  <2> QED  BY <1>2, <2>1, <2>2 DEF TypeOK
<1>5. /\ pc'[p] = "send" /\ tries'[p] = 1 /\ at'[p] = clock'[s] /\ clock'[s] = clock[s] + 1
      /\ \A q \in Procs \ {p} : pc'[q] = pc[q] /\ tries'[q] = tries[q] /\ at'[q] = at[q]
      /\ \A m \in Messages \ {s} : clock'[m] = clock[m]
  BY <1>1 DEF TypeOK
<1>6. InHand'
  <2> SUFFICES ASSUME NEW q \in Procs PROVE InHand!(q)'
    BY DEF InHand
  <2>1. CASE q = p
    BY <1>0, <1>1, <1>2, <1>5, <2>1, MessagesFact DEF InHand, Sent
  <2>2. CASE q # p
    BY <1>2, <1>5, <2>2 DEF InHand, Sent
  <2> QED  BY <2>1, <2>2
<1>7. SentWasReceived' /\ Alone' /\ NoticeRows'
  BY <1>2, <1>5 DEF SentWasReceived, Alone, NoticeRows, Sent
<1>8. ReceiptIsLogged'
  <2>1. \A m \in Messages, q \in Procs : Reports(q, m) => Reports(q, m)'
    BY <1>1, <1>2, <1>5 DEF Reports
  <2> QED  BY <1>2, <2>1 DEF ReceiptIsLogged, Told
<1>9. CleanIsFresh'
  <2>1. \A q \in Procs : pc'[q] \in {"compose", "send"} => pc[q] \in {"compose", "send"}
    BY <1>1, <1>5
  <2> QED  BY <1>2, <2>1 DEF CleanIsFresh, Clean, Told
<1>10. LatestHolds'
  <2> SUFFICES ASSUME NEW t \in Slots PROVE LatestHolds!(t)'
    BY DEF LatestHolds
  <2>1. Clean(t)' => Clean(t)
    BY <1>2 DEF Clean
  <2>2. CASE t # s
    BY <1>0, <1>2, <1>5, <2>1, <2>2 DEF LatestHolds
  <2>3. CASE t = s
    <3>1. \A r \in log[s] : r.at <= clock[s] + 1
      BY <1>3 DEF LatestHolds, TypeOK, Records
    <3>2. \A q \in Procs : job[q] = s /\ pc'[q] \in {"send", "record"} => at'[q] <= clock'[s]
      <4> SUFFICES ASSUME NEW q \in Procs, q # p, job[q] = s, pc[q] \in {"send", "record"}
                   PROVE  at[q] <= clock[s] + 1
        BY <1>3, <1>5
      <4>1. at[q] \in Nat /\ at[q] <= clock[s]
        BY DEF LatestHolds, TypeOK
      <4> QED  BY <1>3, <4>1
    <3>3. Clean(s) => \A q \in Procs : job[q] = s => q = p
      BY <1>0, MessagesFact DEF Alone, Clean
    <3> QED  BY <1>2, <1>5, <2>1, <2>3, <3>1, <3>2, <3>3 DEF LatestHolds
  <2> QED  BY <2>2, <2>3
<1> QED  BY <1>4, <1>6, <1>7, <1>8, <1>9, <1>10

LEMMA AbandonInv ==
    ASSUME MessagesInv, NEW p \in Procs, Abandon(p) PROVE MessagesInv'
<1> USE DEF MessagesInv
<1>1. TypeOK'
  BY LeaveFact DEF TypeOK, Abandon
<1>2. InHand'
  BY DEF InHand, Sent, TypeOK, Outcomes, Records, Abandon, Leave, Goto
<1>3. SentWasReceived'
  BY DEF SentWasReceived, Sent, TypeOK, InHand, Records, Outcomes, Abandon, Leave, Goto
<1>4. Alone'
  BY DEF Alone, TypeOK, InHand, Abandon, Leave, Goto
<1>5. ReceiptIsLogged'
  <2> SUFFICES ASSUME NEW m \in Messages, received'[m] > 0
               PROVE  \/ m \in died' \cup broken' \/ Told(m)' \/ (m \in Notices /\ m \in doubt')
                      \/ \E q \in Procs : Reports(q, m)'
    BY DEF ReceiptIsLogged
  <2>1. \A q \in Procs : Reports(q, m) => Reports(q, m)'
    BY DEF Reports, InHand, TypeOK, Abandon, Leave, Goto
  <2>2. /\ received[m] > 0 /\ log[m] \subseteq log'[m]
        /\ died \subseteq died' /\ broken \subseteq broken' /\ doubt \subseteq doubt'
    BY DEF TypeOK, Abandon, Leave, Goto
  <2> QED  BY <2>1, <2>2, ReceiptStays
<1>6. CleanIsFresh'
  BY DEF CleanIsFresh, Clean, Told, Outspoken, TypeOK, InHand, Alone, Records, Abandon, Leave, Goto
<1>7. LatestHolds'
  BY DEF LatestHolds, Clean, TypeOK, InHand, Alone, Records, Abandon, Leave, Goto
<1>8. NoticeRows'
  BY DEF NoticeRows, Abandon
<1> QED  BY <1>1, <1>2, <1>3, <1>4, <1>5, <1>6, <1>7, <1>8

LEMMA BeginCheckInv ==
    ASSUME MessagesInv, NEW p \in Procs, BeginCheck(p) PROVE MessagesInv'
<1> USE DEF MessagesInv
<1>1. TypeOK'
  <2>1. Newest \in Seq(Notices)
    BY NewestFact DEF TypeOK
  <2>2. page' \in [Procs -> Seq(Notices)]
    BY <2>1 DEF TypeOK, BeginCheck
  <2> QED  BY <2>2 DEF TypeOK, BeginCheck, Goto
<1>2. InHand'
  BY DEF InHand, Sent, TypeOK, Outcomes, Records, BeginCheck, Goto
<1>3. SentWasReceived'
  BY DEF SentWasReceived, Sent, TypeOK, InHand, Records, Outcomes, BeginCheck, Goto
<1>4. Alone'
  BY DEF Alone, TypeOK, InHand, BeginCheck, Goto
<1>5. ReceiptIsLogged'
  <2> SUFFICES ASSUME NEW m \in Messages, received'[m] > 0
               PROVE  \/ m \in died' \cup broken' \/ Told(m)' \/ (m \in Notices /\ m \in doubt')
                      \/ \E q \in Procs : Reports(q, m)'
    BY DEF ReceiptIsLogged
  <2>1. \A q \in Procs : Reports(q, m) => Reports(q, m)'
    BY DEF Reports, InHand, TypeOK, BeginCheck, Goto
  <2>2. /\ received[m] > 0 /\ log[m] \subseteq log'[m]
        /\ died \subseteq died' /\ broken \subseteq broken' /\ doubt \subseteq doubt'
    BY DEF TypeOK, BeginCheck, Goto
  <2> QED  BY <2>1, <2>2, ReceiptStays
<1>6. CleanIsFresh'
  BY DEF CleanIsFresh, Clean, Told, Outspoken, TypeOK, InHand, Alone, Records, BeginCheck, Goto
<1>7. LatestHolds'
  BY DEF LatestHolds, Clean, TypeOK, InHand, Alone, Records, BeginCheck, Goto
<1>8. NoticeRows'
  BY DEF NoticeRows, BeginCheck
<1> QED  BY <1>1, <1>2, <1>3, <1>4, <1>5, <1>6, <1>7, <1>8

LEMMA NextNoticeInv ==
    ASSUME MessagesInv, NEW p \in Procs, NextNotice(p) PROVE MessagesInv'
<1> USE DEF MessagesInv
<1> DEFINE n == Head(page[p])
<1>1. n \in Notices /\ Tail(page[p]) \in Seq(Notices)
  <2>1. page[p] \in Seq(Notices) /\ page[p] # <<>>
    BY DEF NextNotice, TypeOK
  <2> QED  BY <2>1, HeadTail DEF n
<1>2. /\ pc[p] = "next" /\ page' = [page EXCEPT ![p] = Tail(page[p])]
      /\ log' = log /\ repeat' = repeat /\ at' = at /\ outcome' = outcome /\ clock' = clock
      /\ received' = received /\ doubt' = doubt /\ died' = died /\ asked' = asked
      /\ broken' = broken /\ market' = market /\ published' = published /\ faults' = faults /\ repeats' = repeats
  BY DEF NextNotice
<1>3. page' \in [Procs -> Seq(Notices)]
  BY <1>1, <1>2 DEF TypeOK
<1>4. CASE Sent(n)
  <2>1. pc' = pc /\ job' = job /\ tries' = tries /\ overlap' = overlap
    BY <1>4 DEF NextNotice
  <2>2. TypeOK' /\ InHand' /\ Alone'
    BY <1>2, <1>3, <2>1 DEF TypeOK, InHand, Alone, Sent
  <2>3. SentWasReceived' /\ ReceiptIsLogged' /\ NoticeRows'
    BY <1>2, <2>1 DEF SentWasReceived, ReceiptIsLogged, NoticeRows, Sent, Told, Reports
  <2>4. CleanIsFresh' /\ LatestHolds'
    BY <1>2, <2>1 DEF CleanIsFresh, LatestHolds, Clean, Told
  <2> QED  BY <2>2, <2>3, <2>4
<1>5. CASE ~Sent(n)
  <2>1. /\ pc' = [pc EXCEPT ![p] = "send"] /\ job' = [job EXCEPT ![p] = n]
        /\ tries' = [tries EXCEPT ![p] = Attempts]
        /\ overlap' = IF \E q \in Procs \ {p} : job[q] = n THEN overlap \cup {n} ELSE overlap
    BY <1>5 DEF NextNotice, Take, Goto
  <2> HIDE DEF n
  <2>2. job[p] = NoMessage /\ ~repeat[p] /\ n \notin Slots
    BY <1>1, <1>2, HandFact, MessagesFact
  <2>3. TypeOK'
    BY <1>1, <1>2, <1>3, <2>1 DEF TypeOK
  <2>4. InHand'
    <3> SUFFICES ASSUME NEW q \in Procs PROVE InHand!(q)'
      BY DEF InHand
    <3>1. CASE q = p
      BY <1>1, <1>2, <2>1, <2>2, <3>1 DEF InHand, TypeOK
    <3>2. CASE q # p
      BY <1>2, <2>1, <3>2 DEF InHand, TypeOK, Sent
    <3> QED  BY <3>1, <3>2
  <2>5. SentWasReceived' /\ NoticeRows'
    BY <1>2, <2>1 DEF SentWasReceived, NoticeRows, Sent, TypeOK
  <2>6. Alone'
    BY <1>2, <2>1 DEF Alone, TypeOK
  <2>7. ReceiptIsLogged'
    <3>1. \A m \in Messages, q \in Procs : Reports(q, m) => Reports(q, m)'
      BY <1>2, <2>1 DEF Reports, TypeOK
    <3> QED  BY <1>2, <3>1 DEF ReceiptIsLogged, Told
  <2>8. CleanIsFresh'
    <3> SUFFICES ASSUME NEW m \in Messages, Clean(m)' PROVE CleanIsFresh!(m)!2'
      BY DEF CleanIsFresh
    <3>1. Clean(m)
      BY <1>2, <2>1 DEF Clean
    <3>2. CASE m # n
      BY <1>2, <2>1, <3>1, <3>2 DEF CleanIsFresh, TypeOK, Told
    <3>3. CASE m = n
      <4>1. \A q \in Procs : job[q] # m
        BY <1>1, <2>1, <2>2, <3>3 DEF Clean
      <4>2. ~Told(m)
        BY <1>1, <1>5, <3>3 DEF Told, Sent, NoticeRows, n
      <4>3. received[m] = 0
        <5>1. received[m] \in Nat
          BY DEF TypeOK
        <5> QED  BY <1>1, <3>1, <3>3, <4>1, <4>2, <5>1 DEF ReceiptIsLogged, Reports, Clean
      <4> QED  BY <1>2, <4>2, <4>3 DEF Told, TypeOK
    <3> QED  BY <3>2, <3>3
  <2>9. LatestHolds'
    BY <1>1, <1>2, <2>1, <2>2 DEF LatestHolds, Clean, TypeOK
  <2> QED  BY <2>3, <2>4, <2>5, <2>6, <2>7, <2>8, <2>9
<1> QED  BY <1>4, <1>5

LEMMA EndCheckInv ==
    ASSUME MessagesInv, NEW p \in Procs, EndCheck(p) PROVE MessagesInv'
<1> USE DEF MessagesInv
<1>1. TypeOK'
  BY LeaveFact DEF TypeOK, EndCheck
<1>2. InHand'
  BY DEF InHand, Sent, TypeOK, Outcomes, Records, EndCheck, Leave, Goto
<1>3. SentWasReceived'
  BY DEF SentWasReceived, Sent, TypeOK, InHand, Records, Outcomes, EndCheck, Leave, Goto
<1>4. Alone'
  BY DEF Alone, TypeOK, InHand, EndCheck, Leave, Goto
<1>5. ReceiptIsLogged'
  <2> SUFFICES ASSUME NEW m \in Messages, received'[m] > 0
               PROVE  \/ m \in died' \cup broken' \/ Told(m)' \/ (m \in Notices /\ m \in doubt')
                      \/ \E q \in Procs : Reports(q, m)'
    BY DEF ReceiptIsLogged
  <2>1. \A q \in Procs : Reports(q, m) => Reports(q, m)'
    BY DEF Reports, InHand, TypeOK, EndCheck, Leave, Goto
  <2>2. /\ received[m] > 0 /\ log[m] \subseteq log'[m]
        /\ died \subseteq died' /\ broken \subseteq broken' /\ doubt \subseteq doubt'
    BY DEF TypeOK, EndCheck, Leave, Goto
  <2> QED  BY <2>1, <2>2, ReceiptStays
<1>6. CleanIsFresh'
  BY DEF CleanIsFresh, Clean, Told, Outspoken, TypeOK, InHand, Alone, Records, EndCheck, Leave, Goto
<1>7. LatestHolds'
  BY DEF LatestHolds, Clean, TypeOK, InHand, Alone, Records, EndCheck, Leave, Goto
<1>8. NoticeRows'
  BY DEF NoticeRows, EndCheck
<1> QED  BY <1>1, <1>2, <1>3, <1>4, <1>5, <1>6, <1>7, <1>8

LEMMA AnsweredInv ==
    ASSUME MessagesInv, NEW p \in Procs, Answered(p) PROVE MessagesInv'
<1> USE DEF MessagesInv
<1>1. TypeOK'
  <2>1. received' \in [Messages -> Nat]
    <3>1. job[p] \in Messages /\ received \in [Messages -> Nat]
      BY HandFact DEF Answered, TypeOK
    <3>2. received[job[p]] + 1 \in Nat
      BY <3>1
    <3>3. received' = [received EXCEPT ![job[p]] = received[job[p]] + 1]
      BY DEF Answered, Deliver
    <3> QED  BY <3>1, <3>2, <3>3
  <2>2. /\ pc' \in [Procs -> {"idle", "compose", "next", "send", "record"}]
        /\ tries' \in [Procs -> 0..Attempts] /\ outcome' \in [Procs -> Outcomes \cup {NoOutcome}]
    BY DEF TypeOK, Outcomes, Answered, Ends, Goto
  <2> QED  BY <2>1, <2>2 DEF TypeOK, Answered
<1>2. InHand'
  BY DEF InHand, Sent, TypeOK, Outcomes, Records, Answered, Ends, Deliver, Goto
<1>3. SentWasReceived'
  <2>1. job[p] \in Messages /\ log' = log /\ job' = job
    BY HandFact DEF Answered
  <2>2. /\ \A m \in Messages : received'[m] >= received[m]
        /\ received'[job[p]] > 0
        /\ \A q \in Procs : pc'[q] = "record" /\ q # p => pc[q] = "record" /\ outcome'[q] = outcome[q]
    BY <2>1 DEF Answered, Deliver, Ends, Goto, TypeOK
  <2>3. \A q \in Procs : pc[q] = "record" => job[q] \in Messages
    BY DEF InHand, TypeOK
  <2>4. \A m \in Messages : Sent(m)' => received'[m] > 0
    <3> SUFFICES ASSUME NEW m \in Messages, Sent(m)' PROVE received'[m] > 0
      OBVIOUS
    <3>1. received[m] \in Nat /\ received'[m] \in Nat
      BY <1>1 DEF TypeOK
    <3>2. received[m] > 0
      BY <2>1 DEF SentWasReceived, Sent
    <3> QED  BY <2>2, <3>1, <3>2
  <2>5. \A q \in Procs : pc'[q] = "record" /\ outcome'[q] = "sent" => received'[job'[q]] > 0
    <3> SUFFICES ASSUME NEW q \in Procs, pc'[q] = "record", outcome'[q] = "sent"
                 PROVE  received'[job'[q]] > 0
      OBVIOUS
    <3>1. CASE q = p
      BY <2>1, <2>2, <3>1
    <3>2. CASE q # p
      <4>1. job[q] \in Messages /\ received[job[q]] > 0
        BY <2>2, <2>3, <3>2 DEF SentWasReceived
      <4>2. received[job[q]] \in Nat /\ received'[job[q]] \in Nat
        BY <1>1, <4>1 DEF TypeOK
      <4> QED  BY <2>1, <2>2, <4>1, <4>2
    <3> QED  BY <3>1, <3>2
  <2> QED  BY <2>4, <2>5 DEF SentWasReceived
<1>4. Alone'
  BY DEF Alone, TypeOK, InHand, Answered, Ends, Deliver, Goto
<1>5. ReceiptIsLogged'
  BY DEF ReceiptIsLogged, Told, Reports, Outspoken, TypeOK, InHand, Records, Outcomes, Answered, Ends, Deliver, Goto
<1>6. CleanIsFresh'
  BY DEF CleanIsFresh, Clean, Told, Outspoken, TypeOK, InHand, Alone, Records, Answered, Ends, Deliver, Goto
<1>7. LatestHolds'
  BY DEF LatestHolds, Clean, TypeOK, InHand, Alone, Records, Answered, Ends, Deliver, Goto
<1>8. NoticeRows'
  BY DEF NoticeRows, Answered
<1> QED  BY <1>1, <1>2, <1>3, <1>4, <1>5, <1>6, <1>7, <1>8

LEMMA UnansweredInv ==
    ASSUME MessagesInv, NEW p \in Procs, Unanswered(p) PROVE MessagesInv'
<1> USE DEF MessagesInv
<1>0. PICK m0 \in Messages : m0 = job[p]
  BY HandFact DEF Unanswered
<1>1. /\ pc[p] = "send" /\ doubt' = doubt \cup {m0} /\ tries[p] > 0
      /\ m0 \in Slots => tries[p] = 1
  BY <1>0 DEF Unanswered, InHand
<1>2. /\ log' = log /\ job' = job /\ page' = page /\ repeat' = repeat /\ at' = at
      /\ clock' = clock /\ broken' = broken /\ died' = died /\ asked' = asked /\ overlap' = overlap
      /\ market' = market /\ published' = published /\ repeats' = repeats
      /\ faults' \in 0..MaxFaults
  BY DEF Unanswered, TypeOK
<1>3. PICK n \in {0, 1} : received' = [received EXCEPT ![m0] = @ + n]
  BY <1>0 DEF Unanswered, Deliver
<1>4. \/ /\ tries[p] > 1 /\ tries' = [tries EXCEPT ![p] = tries[p] - 1]
         /\ pc' = pc /\ outcome' = outcome
      \/ /\ tries[p] = 1 /\ tries' = [tries EXCEPT ![p] = 0]
         /\ pc' = [pc EXCEPT ![p] = "record"] /\ outcome' = [outcome EXCEPT ![p] = "ambiguous"]
  BY DEF Unanswered, Again, Ends, Goto
<1>5. /\ \A m \in Messages : received'[m] >= received[m] /\ received'[m] \in Nat
      /\ \A m \in Messages : m # m0 => received'[m] = received[m]
      /\ received'[m0] <= received[m0] + 1
  BY <1>0, <1>1, <1>3 DEF TypeOK
<1>6. TypeOK'
  <2>1. received' \in [Messages -> Nat] /\ doubt' \subseteq Messages
    <3>1. received[m0] + n \in Nat /\ received \in [Messages -> Nat]
      BY DEF TypeOK
    <3>2. received' \in [Messages -> Nat]
      BY <1>3, <3>1
    <3> QED  BY <1>0, <1>1, <3>2 DEF TypeOK
  <2>2. tries' \in [Procs -> 0..Attempts]
    <3>1. tries \in [Procs -> 0..Attempts] /\ tries[p] \in 0..Attempts
      BY DEF TypeOK
    <3>2. tries[p] > 1 => tries[p] - 1 \in 0..Attempts
      BY <3>1
    <3> QED  BY <1>4, <3>1, <3>2
  <2>3. /\ pc' \in [Procs -> {"idle", "compose", "next", "send", "record"}]
        /\ outcome' \in [Procs -> Outcomes \cup {NoOutcome}]
    BY <1>4 DEF TypeOK, Outcomes
  <2> QED  BY <1>2, <2>1, <2>2, <2>3 DEF TypeOK
<1>7. \A q \in Procs \ {p} : pc'[q] = pc[q] /\ outcome'[q] = outcome[q] /\ tries'[q] = tries[q]
  BY <1>4 DEF TypeOK
<1>8. InHand'
  <2> SUFFICES ASSUME NEW q \in Procs PROVE InHand!(q)'
    BY DEF InHand
  <2>1. CASE q # p
    BY <1>0, <1>1, <1>2, <1>7, <2>1 DEF InHand, TypeOK, Sent
  <2>2. CASE q = p
    <3>1. job'[p] = m0 /\ repeat'[p] = repeat[p] /\ m0 # NoMessage /\ m0 \in doubt'
      BY <1>0, <1>1, <1>2, MessagesFact
    <3>2. repeat[p] => m0 \in Slots /\ Sent(m0)'
      BY <1>0, <1>2 DEF InHand, Sent
    <3>3. \/ pc'[p] = "send" /\ tries'[p] > 0 /\ m0 \notin Slots
          \/ pc'[p] = "record" /\ outcome'[p] = "ambiguous"
      BY <1>1, <1>4 DEF TypeOK
    <3> QED  BY <2>2, <3>1, <3>2, <3>3 DEF Outcomes
  <2> QED  BY <2>1, <2>2
<1>9. SentWasReceived'
  <2>1. \A m \in Messages : Sent(m)' => received'[m] > 0
    BY <1>2, <1>5 DEF SentWasReceived, Sent, TypeOK
  <2>2. ASSUME NEW q \in Procs, pc'[q] = "record", outcome'[q] = "sent"
        PROVE  received'[job'[q]] > 0
    <3>1. q # p
      BY <1>1, <1>4, <2>2 DEF TypeOK
    <3>2. job[q] \in Messages /\ received[job[q]] > 0
      BY <1>7, <2>2, <3>1, HandFact DEF SentWasReceived
    <3> QED  BY <1>2, <1>5, <3>2 DEF TypeOK
  <2> QED  BY <2>1, <2>2 DEF SentWasReceived
<1>10. Alone' /\ NoticeRows'
  BY <1>2 DEF Alone, NoticeRows
<1>11. ReceiptIsLogged'
  <2> SUFFICES ASSUME NEW m \in Messages, received'[m] > 0
               PROVE  \/ m \in died' \cup broken' \/ Told(m)' \/ (m \in Notices /\ m \in doubt')
                      \/ \E q \in Procs : Reports(q, m)'
    BY DEF ReceiptIsLogged
  <2>1. CASE m # m0
    <3>1. \A q \in Procs : Reports(q, m) => Reports(q, m)'
      BY <1>0, <1>2, <1>7, <2>1 DEF Reports
    <3> QED  BY <1>0, <1>1, <1>2, <1>5, <2>1, <3>1, ReceiptStays
  <2>2. CASE m = m0 /\ m \in Notices
    BY <1>1, <2>2
  <2>3. CASE m = m0 /\ m \in Slots
    <3>1. pc'[p] = "record" /\ outcome'[p] = "ambiguous" /\ job'[p] = m
      BY <1>0, <1>1, <1>2, <1>4, <2>3 DEF TypeOK
    <3> QED  BY <3>1 DEF Reports, Outspoken
  <2> QED  BY <2>1, <2>2, <2>3
<1>12. CleanIsFresh'
  <2> SUFFICES ASSUME NEW m \in Messages, Clean(m)' PROVE CleanIsFresh!(m)!2'
    BY DEF CleanIsFresh
  <2>1. Clean(m)
    BY <1>0, <1>1, <1>2 DEF Clean
  <2>2. CASE m # m0
    <3>1. \A q \in Procs : job[q] = m => pc'[q] = pc[q]
      BY <1>0, <1>7, <2>2
    <3> QED  BY <1>2, <1>5, <2>1, <2>2, <3>1 DEF CleanIsFresh, Told
  <2>3. CASE m = m0
    <3>1. \A q \in Procs : job[q] = m => q = p
      BY <1>0, <1>1, <1>2, <2>1, <2>3, MessagesFact DEF Alone, Clean
    <3>2. m \in Slots /\ pc'[p] = "record"
      BY <1>0, <1>1, <1>4, <2>3 DEF Clean, TypeOK
    <3>3. received[m] = 0 /\ ~Told(m)
      BY <1>0, <1>1, <2>1, <2>3 DEF CleanIsFresh
    <3> QED  BY <1>2, <1>5, <2>3, <3>1, <3>2, <3>3 DEF Told
  <2> QED  BY <2>2, <2>3
<1>13. LatestHolds'
  <2>1. \A m \in Messages : Clean(m)' => Clean(m)
    BY <1>0, <1>1, <1>2 DEF Clean
  <2>2. \A q \in Procs : pc'[q] \in {"send", "record"} => pc[q] \in {"send", "record"}
    BY <1>1, <1>7
  <2> QED  BY <1>2, <2>1, <2>2 DEF LatestHolds
<1> QED  BY <1>6, <1>8, <1>9, <1>10, <1>11, <1>12, <1>13

(* Unreadable is the last attempt of Unanswered, wherever it comes. *)
LEMMA UnreadableInv ==
    ASSUME MessagesInv, NEW p \in Procs, Unreadable(p) PROVE MessagesInv'
<1> USE DEF MessagesInv
<1>0. PICK m0 \in Messages : m0 = job[p]
  BY HandFact DEF Unreadable
<1>1. /\ pc[p] = "send" /\ doubt' = doubt \cup {m0} /\ tries[p] > 0
      /\ m0 \in Slots => tries[p] = 1
  BY <1>0 DEF Unreadable, InHand
<1>2. /\ log' = log /\ job' = job /\ page' = page /\ repeat' = repeat /\ at' = at
      /\ clock' = clock /\ broken' = broken /\ died' = died /\ asked' = asked /\ overlap' = overlap
      /\ market' = market /\ published' = published /\ repeats' = repeats
      /\ faults' \in 0..MaxFaults
  BY DEF Unreadable, TypeOK
<1>3. PICK n \in {0, 1} : received' = [received EXCEPT ![m0] = @ + n]
  BY <1>0 DEF Unreadable, Deliver
<1>4. /\ tries' = [tries EXCEPT ![p] = 0]
      /\ pc' = [pc EXCEPT ![p] = "record"] /\ outcome' = [outcome EXCEPT ![p] = "ambiguous"]
  BY DEF Unreadable, Ends, Goto
<1>5. /\ \A m \in Messages : received'[m] >= received[m] /\ received'[m] \in Nat
      /\ \A m \in Messages : m # m0 => received'[m] = received[m]
      /\ received'[m0] <= received[m0] + 1
  BY <1>0, <1>1, <1>3 DEF TypeOK
<1>6. TypeOK'
  <2>1. received' \in [Messages -> Nat] /\ doubt' \subseteq Messages
    <3>1. received[m0] + n \in Nat /\ received \in [Messages -> Nat]
      BY DEF TypeOK
    <3>2. received' \in [Messages -> Nat]
      BY <1>3, <3>1
    <3> QED  BY <1>0, <1>1, <3>2 DEF TypeOK
  <2>2. tries' \in [Procs -> 0..Attempts]
    BY <1>4 DEF TypeOK
  <2>3. /\ pc' \in [Procs -> {"idle", "compose", "next", "send", "record"}]
        /\ outcome' \in [Procs -> Outcomes \cup {NoOutcome}]
    BY <1>4 DEF TypeOK, Outcomes
  <2> QED  BY <1>2, <2>1, <2>2, <2>3 DEF TypeOK
<1>7. \A q \in Procs \ {p} : pc'[q] = pc[q] /\ outcome'[q] = outcome[q] /\ tries'[q] = tries[q]
  BY <1>4 DEF TypeOK
<1>8. InHand'
  <2> SUFFICES ASSUME NEW q \in Procs PROVE InHand!(q)'
    BY DEF InHand
  <2>1. CASE q # p
    BY <1>0, <1>1, <1>2, <1>7, <2>1 DEF InHand, TypeOK, Sent
  <2>2. CASE q = p
    <3>1. job'[p] = m0 /\ repeat'[p] = repeat[p] /\ m0 # NoMessage /\ m0 \in doubt'
      BY <1>0, <1>1, <1>2, MessagesFact
    <3>2. repeat[p] => m0 \in Slots /\ Sent(m0)'
      BY <1>0, <1>2 DEF InHand, Sent
    <3>3. pc'[p] = "record" /\ outcome'[p] = "ambiguous"
      BY <1>4 DEF TypeOK
    <3> QED  BY <2>2, <3>1, <3>2, <3>3 DEF Outcomes
  <2> QED  BY <2>1, <2>2
<1>9. SentWasReceived'
  <2>1. \A m \in Messages : Sent(m)' => received'[m] > 0
    BY <1>2, <1>5 DEF SentWasReceived, Sent, TypeOK
  <2>2. ASSUME NEW q \in Procs, pc'[q] = "record", outcome'[q] = "sent"
        PROVE  received'[job'[q]] > 0
    <3>1. q # p
      BY <1>1, <1>4, <2>2 DEF TypeOK
    <3>2. job[q] \in Messages /\ received[job[q]] > 0
      BY <1>7, <2>2, <3>1, HandFact DEF SentWasReceived
    <3> QED  BY <1>2, <1>5, <3>2 DEF TypeOK
  <2> QED  BY <2>1, <2>2 DEF SentWasReceived
<1>10. Alone' /\ NoticeRows'
  BY <1>2 DEF Alone, NoticeRows
<1>11. ReceiptIsLogged'
  <2> SUFFICES ASSUME NEW m \in Messages, received'[m] > 0
               PROVE  \/ m \in died' \cup broken' \/ Told(m)' \/ (m \in Notices /\ m \in doubt')
                      \/ \E q \in Procs : Reports(q, m)'
    BY DEF ReceiptIsLogged
  <2>1. CASE m # m0
    <3>1. \A q \in Procs : Reports(q, m) => Reports(q, m)'
      BY <1>0, <1>2, <1>7, <2>1 DEF Reports
    <3> QED  BY <1>0, <1>1, <1>2, <1>5, <2>1, <3>1, ReceiptStays
  <2>2. CASE m = m0 /\ m \in Notices
    BY <1>1, <2>2
  <2>3. CASE m = m0 /\ m \in Slots
    <3>1. pc'[p] = "record" /\ outcome'[p] = "ambiguous" /\ job'[p] = m
      BY <1>0, <1>1, <1>2, <1>4, <2>3 DEF TypeOK
    <3> QED  BY <3>1 DEF Reports, Outspoken
  <2> QED  BY <2>1, <2>2, <2>3
<1>12. CleanIsFresh'
  <2> SUFFICES ASSUME NEW m \in Messages, Clean(m)' PROVE CleanIsFresh!(m)!2'
    BY DEF CleanIsFresh
  <2>1. Clean(m)
    BY <1>0, <1>1, <1>2 DEF Clean
  <2>2. CASE m # m0
    <3>1. \A q \in Procs : job[q] = m => pc'[q] = pc[q]
      BY <1>0, <1>7, <2>2
    <3> QED  BY <1>2, <1>5, <2>1, <2>2, <3>1 DEF CleanIsFresh, Told
  <2>3. CASE m = m0
    <3>1. \A q \in Procs : job[q] = m => q = p
      BY <1>0, <1>1, <1>2, <2>1, <2>3, MessagesFact DEF Alone, Clean
    <3>2. m \in Slots /\ pc'[p] = "record"
      BY <1>0, <1>1, <1>4, <2>3 DEF Clean, TypeOK
    <3>3. received[m] = 0 /\ ~Told(m)
      BY <1>0, <1>1, <2>1, <2>3 DEF CleanIsFresh
    <3> QED  BY <1>2, <1>5, <2>3, <3>1, <3>2, <3>3 DEF Told
  <2> QED  BY <2>2, <2>3
<1>13. LatestHolds'
  <2>1. \A m \in Messages : Clean(m)' => Clean(m)
    BY <1>0, <1>1, <1>2 DEF Clean
  <2>2. \A q \in Procs : pc'[q] \in {"send", "record"} => pc[q] \in {"send", "record"}
    BY <1>1, <1>7
  <2> QED  BY <1>2, <2>1, <2>2 DEF LatestHolds
<1> QED  BY <1>6, <1>8, <1>9, <1>10, <1>11, <1>12, <1>13

LEMMA BrokenOffInv ==
    ASSUME MessagesInv, NEW p \in Procs, BrokenOff(p) PROVE MessagesInv'
<1> USE DEF MessagesInv
<1>0. PICK m0 \in Messages : m0 = job[p]
  BY HandFact DEF BrokenOff
<1>1. /\ pc[p] = "send" /\ broken' = broken \cup {m0} /\ tries[p] > 0
      /\ m0 \in Slots => tries[p] = 1
  BY <1>0 DEF BrokenOff, InHand
<1>2. /\ log' = log /\ job' = job /\ page' = page /\ repeat' = repeat /\ at' = at
      /\ clock' = clock /\ doubt' = doubt /\ died' = died /\ asked' = asked /\ overlap' = overlap
      /\ market' = market /\ published' = published /\ repeats' = repeats
      /\ faults' \in 0..MaxFaults
  BY DEF BrokenOff, TypeOK
<1>3. PICK n \in {0, 1} : received' = [received EXCEPT ![m0] = @ + n]
  BY <1>0 DEF BrokenOff, Deliver
<1>4. /\ tries' = [tries EXCEPT ![p] = 0]
      /\ pc' = [pc EXCEPT ![p] = "record"] /\ outcome' = [outcome EXCEPT ![p] = "failed"]
  BY DEF BrokenOff, Ends, Goto
<1>5. /\ \A m \in Messages : received'[m] >= received[m] /\ received'[m] \in Nat
      /\ \A m \in Messages : m # m0 => received'[m] = received[m]
      /\ received'[m0] <= received[m0] + 1
  BY <1>0, <1>1, <1>3 DEF TypeOK
<1>6. TypeOK'
  <2>1. received' \in [Messages -> Nat] /\ broken' \subseteq Messages
    <3>1. received[m0] + n \in Nat /\ received \in [Messages -> Nat]
      BY DEF TypeOK
    <3>2. received' \in [Messages -> Nat]
      BY <1>3, <3>1
    <3> QED  BY <1>0, <1>1, <3>2 DEF TypeOK
  <2>2. tries' \in [Procs -> 0..Attempts]
    BY <1>4 DEF TypeOK
  <2>3. /\ pc' \in [Procs -> {"idle", "compose", "next", "send", "record"}]
        /\ outcome' \in [Procs -> Outcomes \cup {NoOutcome}]
    BY <1>4 DEF TypeOK, Outcomes
  <2> QED  BY <1>2, <2>1, <2>2, <2>3 DEF TypeOK
<1>7. \A q \in Procs \ {p} : pc'[q] = pc[q] /\ outcome'[q] = outcome[q] /\ tries'[q] = tries[q]
  BY <1>4 DEF TypeOK
<1>8. InHand'
  <2> SUFFICES ASSUME NEW q \in Procs PROVE InHand!(q)'
    BY DEF InHand
  <2>1. CASE q # p
    BY <1>0, <1>1, <1>2, <1>7, <2>1 DEF InHand, TypeOK, Sent
  <2>2. CASE q = p
    <3>1. job'[p] = m0 /\ repeat'[p] = repeat[p] /\ m0 # NoMessage
      BY <1>0, <1>1, <1>2, MessagesFact
    <3>2. repeat[p] => m0 \in Slots /\ Sent(m0)'
      BY <1>0, <1>2 DEF InHand, Sent
    <3>3. pc'[p] = "record" /\ outcome'[p] = "failed"
      BY <1>4 DEF TypeOK
    <3> QED  BY <2>2, <3>1, <3>2, <3>3 DEF Outcomes
  <2> QED  BY <2>1, <2>2
<1>9. SentWasReceived'
  <2>1. \A m \in Messages : Sent(m)' => received'[m] > 0
    BY <1>2, <1>5 DEF SentWasReceived, Sent, TypeOK
  <2>2. ASSUME NEW q \in Procs, pc'[q] = "record", outcome'[q] = "sent"
        PROVE  received'[job'[q]] > 0
    <3>1. q # p
      BY <1>1, <1>4, <2>2 DEF TypeOK
    <3>2. job[q] \in Messages /\ received[job[q]] > 0
      BY <1>7, <2>2, <3>1, HandFact DEF SentWasReceived
    <3> QED  BY <1>2, <1>5, <3>2 DEF TypeOK
  <2> QED  BY <2>1, <2>2 DEF SentWasReceived
<1>10. Alone' /\ NoticeRows'
  BY <1>2 DEF Alone, NoticeRows
<1>11. ReceiptIsLogged'
  <2> SUFFICES ASSUME NEW m \in Messages, received'[m] > 0
               PROVE  \/ m \in died' \cup broken' \/ Told(m)' \/ (m \in Notices /\ m \in doubt')
                      \/ \E q \in Procs : Reports(q, m)'
    BY DEF ReceiptIsLogged
  <2>1. CASE m # m0
    <3>1. \A q \in Procs : Reports(q, m) => Reports(q, m)'
      BY <1>0, <1>2, <1>7, <2>1 DEF Reports
    <3> QED  BY <1>0, <1>1, <1>2, <1>5, <2>1, <3>1, ReceiptStays
  <2>2. CASE m = m0
    BY <1>1, <2>2
  <2> QED  BY <2>1, <2>2
<1>12. CleanIsFresh'
  <2> SUFFICES ASSUME NEW m \in Messages, Clean(m)' PROVE CleanIsFresh!(m)!2'
    BY DEF CleanIsFresh
  <2>1. Clean(m)
    BY <1>0, <1>1, <1>2 DEF Clean
  <2>2. m # m0
    BY <1>1 DEF Clean
  <2>3. \A q \in Procs : job[q] = m => pc'[q] = pc[q]
    BY <1>0, <1>7, <2>2
  <2> QED  BY <1>2, <1>5, <2>1, <2>2, <2>3 DEF CleanIsFresh, Told
<1>13. LatestHolds'
  <2>1. \A m \in Messages : Clean(m)' => Clean(m)
    BY <1>0, <1>1, <1>2 DEF Clean
  <2>2. \A q \in Procs : pc'[q] \in {"send", "record"} => pc[q] \in {"send", "record"}
    BY <1>1, <1>7
  <2> QED  BY <1>2, <2>1, <2>2 DEF LatestHolds
<1> QED  BY <1>6, <1>8, <1>9, <1>10, <1>11, <1>12, <1>13

LEMMA RefusedInv ==
    ASSUME MessagesInv, NEW p \in Procs, Refused(p) PROVE MessagesInv'
<1> USE DEF MessagesInv
<1>1. TypeOK'
  <2>1. CASE Again(p)
    BY <2>1 DEF TypeOK, Refused, Again
  <2>2. CASE Ends(p, "failed")
    <3>1. tries' \in [Procs -> 0..Attempts]
      BY <2>2 DEF TypeOK, Ends
    <3>2. /\ pc' \in [Procs -> {"idle", "compose", "next", "send", "record"}]
          /\ outcome' \in [Procs -> Outcomes \cup {NoOutcome}]
      BY <2>2 DEF TypeOK, Ends, Goto, Outcomes
    <3>3. faults' \in 0..MaxFaults
      BY DEF TypeOK, Refused
    <3>4. /\ job' = job /\ page' = page /\ repeat' = repeat /\ at' = at /\ log' = log
          /\ clock' = clock /\ received' = received /\ doubt' = doubt /\ died' = died
          /\ broken' = broken /\ asked' = asked /\ overlap' = overlap /\ repeats' = repeats
          /\ market' = market /\ published' = published
      BY DEF Refused
    <3> QED  BY <3>1, <3>2, <3>3, <3>4 DEF TypeOK
  <2> QED  BY <2>1, <2>2 DEF Refused
<1>2. /\ log' = log /\ job' = job /\ repeat' = repeat /\ at' = at /\ clock' = clock
      /\ received' = received /\ doubt' = doubt /\ died' = died /\ asked' = asked /\ broken' = broken
      /\ overlap' = overlap
  BY DEF Refused
<1>3. /\ pc[p] = "send" /\ tries[p] > 0 /\ (job[p] \in Slots => tries[p] = 1)
      /\ \/ pc'[p] = "send" /\ tries[p] > 1 /\ tries'[p] = tries[p] - 1
         \/ pc'[p] = "record" /\ outcome'[p] = "failed"
      /\ \A q \in Procs \ {p} :
            pc'[q] = pc[q] /\ tries'[q] = tries[q] /\ outcome'[q] = outcome[q]
  BY DEF Refused, Again, Ends, Goto, TypeOK, InHand
<1>4. InHand'
  <2> SUFFICES ASSUME NEW q \in Procs PROVE InHand!(q)'
    BY DEF InHand
  <2>1. CASE q = p
    <3>1. tries[p] \in Nat /\ (repeat[p] => job[p] \in Slots /\ Sent(job[p])')
      BY <1>2 DEF TypeOK, InHand, Sent
    <3> QED  BY <1>2, <1>3, <2>1, <3>1 DEF InHand, Outcomes
  <2>2. CASE q # p
    BY <1>2, <1>3, <2>2 DEF InHand, Sent
  <2> QED  BY <2>1, <2>2
<1>5. SentWasReceived' /\ Alone' /\ NoticeRows'
  BY <1>2, <1>3 DEF SentWasReceived, Alone, NoticeRows, Sent
<1>6. ReceiptIsLogged'
  <2>1. \A m \in Messages, q \in Procs : Reports(q, m) => Reports(q, m)'
    BY <1>2, <1>3 DEF Reports
  <2> QED  BY <1>2, <2>1 DEF ReceiptIsLogged, Told
<1>7. CleanIsFresh' /\ LatestHolds'
  BY <1>2, <1>3 DEF CleanIsFresh, LatestHolds, Clean, Told
<1> QED  BY <1>1, <1>4, <1>5, <1>6, <1>7

LEMMA RecordSlotInv ==
    ASSUME MessagesInv, NEW p \in Procs, RecordSlot(p) PROVE MessagesInv'
<1> USE DEF MessagesInv
<1>0. PICK k \in Slots, row \in Records : k = job[p] /\ row = [status |-> outcome[p], at |-> at[p]]
  BY DEF RecordSlot, Records, InHand, TypeOK
<1>1. /\ pc[p] = "record" /\ Leave(p)
      /\ market' = market /\ published' = published /\ faults' = faults /\ repeats' = repeats
      /\ clock' = clock /\ received' = received /\ doubt' = doubt /\ died' = died
      /\ broken' = broken /\ asked' = asked /\ overlap' = overlap
  BY DEF RecordSlot
<1>2. \/ log' = log /\ (Sent(k) \/ outcome[p] = "failed")
      \/ /\ log' = [log EXCEPT ![k] = @ \cup {row}]
         /\ outcome[p] = "sent" => received[k] > 0
         /\ ~Refuses(k, outcome[p])
  BY <1>0, <1>1 DEF RecordSlot, Refuses, InHand, SentWasReceived
<1>3. row.status = outcome[p] /\ row.at = at[p]
  BY <1>0
<1>4. /\ log' \in [Messages -> SUBSET Records]
      /\ \A m \in Messages : m # k => log'[m] = log[m]
      /\ log[k] \subseteq log'[k] /\ log'[k] \subseteq log[k] \cup {row}
  <2>1. log \in [Messages -> SUBSET Records] /\ k \in Messages
    BY DEF TypeOK
  <2>2. CASE log' = log
    BY <2>1, <2>2
  <2>3. CASE log' = [log EXCEPT ![k] = @ \cup {row}]
    <3>1. log[k] \cup {row} \in SUBSET Records
      BY <2>1
    <3> QED  BY <2>1, <2>3, <3>1
  <2> QED  BY <1>2, <2>2, <2>3
<1>5. TypeOK'
  BY <1>1, <1>4, LeaveFact DEF TypeOK
<1>6. InHand'
  <2> SUFFICES ASSUME NEW q \in Procs PROVE InHand!(q)'
    BY DEF InHand
  <2>1. CASE q # p
    <3>1. \A m \in Messages : log[m] \subseteq log'[m]
      BY <1>4
    <3>2. /\ job'[q] = job[q] /\ pc'[q] = pc[q] /\ repeat'[q] = repeat[q] /\ tries'[q] = tries[q]
          /\ outcome'[q] = outcome[q] /\ doubt' = doubt
      BY <1>1, <2>1, LeaveFact
    <3>3. repeat'[q] => job'[q] \in Slots /\ Sent(job[q])'
      BY <3>1, <3>2 DEF InHand, Sent
    <3> QED  BY <3>2, <3>3 DEF InHand
  <2>2. CASE q = p
    BY <1>1, <2>2, LeaveFact
  <2> QED  BY <2>1, <2>2
<1>7. SentWasReceived'
  <2>1. \A m \in Messages : Sent(m)' => received'[m] > 0
    <3> SUFFICES ASSUME NEW m \in Messages, Sent(m)' PROVE received[m] > 0
      BY <1>1
    <3>1. CASE Sent(m)
      BY <3>1 DEF SentWasReceived
    <3>2. CASE ~Sent(m)
      BY <1>2, <1>3, <1>4, <3>2 DEF Sent
    <3> QED  BY <3>1, <3>2
  <2>2. ASSUME NEW q \in Procs, pc'[q] = "record", outcome'[q] = "sent" PROVE received'[job'[q]] > 0
    BY <1>1, <2>2, LeaveFact DEF SentWasReceived
  <2> QED  BY <2>1, <2>2 DEF SentWasReceived
<1>8. Alone'
  BY <1>1, LeaveFact DEF Alone
<1>9. ReceiptIsLogged'
  <2> SUFFICES ASSUME NEW m \in Messages, received'[m] > 0
               PROVE  \/ m \in died' \cup broken' \/ Told(m)' \/ (m \in Notices /\ m \in doubt')
                      \/ \E q \in Procs : Reports(q, m)'
    BY DEF ReceiptIsLogged
  <2>1. CASE m = k /\ outcome[p] # "failed"
    <3>1. outcome[p] \in Outspoken
      BY <1>1, <2>1 DEF InHand, Outcomes, Outspoken
    <3>2. Told(m)'
      <4>1. CASE log' = log /\ Sent(k)
        BY <2>1, <4>1 DEF Told, Sent, Outspoken
      <4>2. CASE log' = [log EXCEPT ![k] = @ \cup {row}]
        BY <1>3, <2>1, <3>1, <4>2 DEF Told, TypeOK
      <4> QED  BY <1>2, <2>1, <4>1, <4>2
    <3> QED  BY <3>2
  <2>2. CASE ~(m = k /\ outcome[p] # "failed")
    <3>1. \A q \in Procs : Reports(q, m) => Reports(q, m)'
      BY <1>0, <1>1, <2>2, LeaveFact DEF Reports, Outspoken
    <3> QED  BY <1>1, <1>4, <3>1, ReceiptStays
  <2> QED  BY <2>1, <2>2
<1>10. CleanIsFresh'
  <2> SUFFICES ASSUME NEW m \in Messages, Clean(m)' PROVE CleanIsFresh!(m)!2'
    BY DEF CleanIsFresh
  <2>1. Clean(m)
    BY <1>1 DEF Clean
  <2>2. \A q \in Procs : job'[q] = m => q # p /\ job[q] = m /\ pc'[q] = pc[q]
    BY <1>1, LeaveFact, MessagesFact
  <2>3. \A q \in Procs : job'[q] = m => m # k
    BY <1>0, <1>1, <2>1, <2>2, MessagesFact DEF Alone, Clean
  <2> QED  BY <1>1, <1>4, <2>1, <2>2, <2>3 DEF CleanIsFresh, Told
<1>11. LatestHolds'
  <2> SUFFICES ASSUME NEW s \in Slots PROVE LatestHolds!(s)'
    BY DEF LatestHolds
  <2>1. \A r \in log'[s] : r.at <= clock'[s]
    <3>1. at[p] \in Nat /\ clock[s] \in Nat
      BY DEF TypeOK
    <3>2. s = k => at[p] <= clock[s]
      BY <1>0, <1>1 DEF LatestHolds
    <3> QED  BY <1>1, <1>3, <1>4, <3>1, <3>2 DEF LatestHolds
  <2>5. \A q \in Procs : job'[q] = s /\ pc'[q] \in {"send", "record"} => at'[q] <= clock'[s]
    BY <1>1, LeaveFact, MessagesFact DEF LatestHolds
  <2>2. Clean(s)' => Clean(s)
    BY <1>1 DEF Clean
  <2>3. ASSUME NEW q \in Procs, Clean(s), job'[q] = s, pc'[q] \in {"send", "record"}
        PROVE  at'[q] = clock'[s]
    BY <1>1, <2>3, LeaveFact, MessagesFact DEF LatestHolds
  <2>4. ASSUME Clean(s), NEW r \in log'[s], NEW t \in log'[s], r.status = "ambiguous"
        PROVE  t.at <= r.at
    <3>1. CASE s # k
      BY <1>4, <2>4, <3>1 DEF LatestHolds
    <3>2. CASE s = k
      <4>1. ~Told(k)
        BY <1>0, <1>1, <2>4, <3>2 DEF CleanIsFresh
      <4>2. r = row
        BY <1>4, <2>4, <3>2, <4>1 DEF Told, Outspoken
      <4>3. row.at = clock[k]
        BY <1>0, <1>1, <1>3, <2>4, <3>2 DEF LatestHolds
      <4> QED  BY <1>1, <2>1, <2>4, <3>2, <4>2, <4>3
    <3> QED  BY <3>1, <3>2
  <2> QED  BY <2>1, <2>2, <2>3, <2>4, <2>5
<1>12. NoticeRows'
  BY <1>1, <1>4, MessagesFact DEF NoticeRows
<1> QED  BY <1>5, <1>6, <1>7, <1>8, <1>9, <1>10, <1>11, <1>12

LEMMA LogNoticeInv ==
    ASSUME MessagesInv, NEW p \in Procs, LogNotice(p) PROVE MessagesInv'
<1> USE DEF MessagesInv
<1>1. TypeOK'
  <2>1. [status |-> "sent", at |-> 0] \in Records
    BY DEF Records, Outcomes
  <2>2. log' \in [Messages -> SUBSET Records]
    BY <2>1 DEF LogNotice, TypeOK
  <2> QED  BY <2>2 DEF TypeOK, LogNotice, Goto
<1>2. InHand'
  BY DEF InHand, Sent, TypeOK, Outcomes, Records, LogNotice, Goto, Refuses
<1>3. SentWasReceived'
  BY DEF SentWasReceived, Sent, TypeOK, InHand, Records, Outcomes, LogNotice, Goto, Refuses
<1>4. Alone'
  BY DEF Alone, TypeOK, InHand, LogNotice, Goto, Refuses
<1>5. ReceiptIsLogged'
  <2> SUFFICES ASSUME NEW m \in Messages, received'[m] > 0
               PROVE  \/ m \in died' \cup broken' \/ Told(m)' \/ (m \in Notices /\ m \in doubt')
                      \/ \E q \in Procs : Reports(q, m)'
    BY DEF ReceiptIsLogged
  <2>1. CASE m = job[p]
    <3>1. [status |-> "sent", at |-> 0] \in log'[m]
      BY <2>1 DEF LogNotice, TypeOK
    <3> QED  BY <3>1 DEF Told, Outspoken
  <2>2. CASE m # job[p]
    <3>1. \A q \in Procs : Reports(q, m) => Reports(q, m)'
      BY <2>2 DEF LogNotice, Goto, Reports, TypeOK
    <3>2. /\ received[m] > 0 /\ log[m] \subseteq log'[m]
          /\ died \subseteq died' /\ broken \subseteq broken' /\ doubt \subseteq doubt'
      BY <2>2 DEF LogNotice, TypeOK
    <3> QED  BY <3>1, <3>2, ReceiptStays
  <2> QED  BY <2>1, <2>2
<1>6. CleanIsFresh'
  BY DEF CleanIsFresh, Clean, Told, Outspoken, TypeOK, InHand, Alone, Records, LogNotice, Goto, Refuses
<1>7. LatestHolds'
  BY DEF LatestHolds, Clean, TypeOK, InHand, Alone, Records, LogNotice, Goto, Refuses
<1>8. NoticeRows'
  BY DEF NoticeRows, TypeOK, InHand, Records, LogNotice, Goto, Refuses
<1> QED  BY <1>1, <1>2, <1>3, <1>4, <1>5, <1>6, <1>7, <1>8

LEMMA DropNoticeInv ==
    ASSUME MessagesInv, NEW p \in Procs, DropNotice(p) PROVE MessagesInv'
<1> USE DEF MessagesInv
<1>1. TypeOK'
  BY LeaveFact DEF TypeOK, DropNotice
<1>2. InHand'
  BY DEF InHand, Sent, TypeOK, Outcomes, Records, DropNotice, Leave, Goto, Refuses
<1>3. SentWasReceived'
  BY DEF SentWasReceived, Sent, TypeOK, InHand, Records, Outcomes, DropNotice, Leave, Goto, Refuses
<1>4. Alone'
  BY DEF Alone, TypeOK, InHand, DropNotice, Leave, Goto, Refuses
<1>5. ReceiptIsLogged'
  <2> SUFFICES ASSUME NEW m \in Messages, received'[m] > 0
               PROVE  \/ m \in died' \cup broken' \/ Told(m)' \/ (m \in Notices /\ m \in doubt')
                      \/ \E q \in Procs : Reports(q, m)'
    BY DEF ReceiptIsLogged
  <2>0. Leave(p) /\ log' = log /\ received' = received /\ died' = died
        /\ broken' = broken /\ doubt' = doubt
    BY DEF DropNotice
  <2>1. CASE m = job[p] /\ outcome[p] \in Outspoken
    <3>1. CASE outcome[p] = "sent"
      BY <2>0, <2>1, <3>1 DEF DropNotice, Refuses, Sent, Told, Outspoken
    <3>2. CASE outcome[p] = "ambiguous"
      BY <2>0, <2>1, <3>2 DEF DropNotice, InHand
    <3> QED  BY <2>1, <3>1, <3>2 DEF Outspoken
  <2>2. CASE ~(m = job[p] /\ outcome[p] \in Outspoken)
    <3>1. \A q \in Procs : Reports(q, m) => Reports(q, m)'
      <4> SUFFICES ASSUME NEW q \in Procs, Reports(q, m) PROVE Reports(q, m)'
        OBVIOUS
      <4>1. q # p
        BY <2>2 DEF Reports
      <4>2. job'[q] = job[q] /\ pc'[q] = pc[q] /\ outcome'[q] = outcome[q]
        BY <2>0, <4>1, LeaveFact
      <4> QED  BY <4>2 DEF Reports
    <3> QED  BY <2>0, <3>1, ReceiptStays
  <2> QED  BY <2>1, <2>2
<1>6. CleanIsFresh'
  BY DEF CleanIsFresh, Clean, Told, Outspoken, TypeOK, InHand, Alone, Records, DropNotice, Leave, Goto, Refuses
<1>7. LatestHolds'
  BY DEF LatestHolds, Clean, TypeOK, InHand, Alone, Records, DropNotice, Leave, Goto, Refuses
<1>8. NoticeRows'
  BY DEF NoticeRows, DropNotice
<1> QED  BY <1>1, <1>2, <1>3, <1>4, <1>5, <1>6, <1>7, <1>8

LEMMA CrashInv ==
    ASSUME MessagesInv, NEW p \in Procs, Crash(p) PROVE MessagesInv'
<1> USE DEF MessagesInv
<1>1. TypeOK'
  <2>1. died' \subseteq Messages
    BY DEF TypeOK, Crash, InHand
  <2>2. Leave(p) /\ faults' \in 0..MaxFaults
    BY DEF Crash, TypeOK
  <2> QED  BY LeaveFact, <2>1, <2>2 DEF TypeOK, Crash
<1>2. InHand'
  BY DEF InHand, Sent, TypeOK, Outcomes, Records, Crash, Leave, Goto
<1>3. SentWasReceived'
  BY DEF SentWasReceived, Sent, TypeOK, InHand, Records, Outcomes, Crash, Leave, Goto
<1>4. Alone'
  BY DEF Alone, TypeOK, InHand, Crash, Leave, Goto
<1>5. ReceiptIsLogged'
  <2> SUFFICES ASSUME NEW m \in Messages, received'[m] > 0
               PROVE  \/ m \in died' \cup broken' \/ Told(m)' \/ (m \in Notices /\ m \in doubt')
                      \/ \E q \in Procs : Reports(q, m)'
    BY DEF ReceiptIsLogged
  <2>0. Leave(p) /\ log' = log /\ received' = received /\ died \subseteq died'
        /\ broken' = broken /\ doubt' = doubt
    BY DEF Crash
  <2>1. CASE Reports(p, m)
    BY <2>1 DEF Crash, Reports, Outspoken
  <2>2. CASE ~Reports(p, m)
    <3>1. \A q \in Procs : Reports(q, m) => Reports(q, m)'
      <4> SUFFICES ASSUME NEW q \in Procs, Reports(q, m) PROVE Reports(q, m)'
        OBVIOUS
      <4>1. q # p
        BY <2>2 DEF Reports
      <4>2. job'[q] = job[q] /\ pc'[q] = pc[q] /\ outcome'[q] = outcome[q]
        BY <2>0, <4>1, LeaveFact
      <4> QED  BY <4>2 DEF Reports
    <3> QED  BY <2>0, <3>1, ReceiptStays
  <2> QED  BY <2>1, <2>2
<1>6. CleanIsFresh'
  BY DEF CleanIsFresh, Clean, Told, Outspoken, TypeOK, InHand, Alone, Records, Crash, Leave, Goto
<1>7. LatestHolds'
  BY DEF LatestHolds, Clean, TypeOK, InHand, Alone, Records, Crash, Leave, Goto
<1>8. NoticeRows'
  BY DEF NoticeRows, Crash
<1> QED  BY <1>1, <1>2, <1>3, <1>4, <1>5, <1>6, <1>7, <1>8

LEMMA NextInv == MessagesInv /\ [Next]_vars => MessagesInv'
<1> SUFFICES ASSUME MessagesInv, [Next]_vars PROVE MessagesInv'
  OBVIOUS
<1>1. CASE UNCHANGED vars
  <2> USE <1>1 DEF vars, MessagesInv
  <2>1. TypeOK' /\ InHand' /\ SentWasReceived' /\ Alone' /\ NoticeRows'
    BY DEF TypeOK, InHand, SentWasReceived, Alone, NoticeRows, Sent
  <2>2. ReceiptIsLogged' /\ CleanIsFresh' /\ LatestHolds'
    BY DEF ReceiptIsLogged, CleanIsFresh, LatestHolds, Told, Reports, Clean
  <2> QED  BY <2>1, <2>2
<1>2. CASE Tick \/ Publish
  BY <1>2, TickInv, PublishInv
<1>3. ASSUME NEW p \in Procs, BeginCheck(p) \/ Continue(p) PROVE MessagesInv'
  BY <1>3, BeginCheckInv, ComposeInv, NextNoticeInv, EndCheckInv, AnsweredInv, RecordSlotInv,
     LogNoticeInv, DropNoticeInv DEF Continue
<1>4. ASSUME NEW p \in Procs,
             Abandon(p) \/ Unanswered(p) \/ Unreadable(p) \/ BrokenOff(p) \/ Refused(p) \/ Crash(p)
      PROVE  MessagesInv'
  BY <1>4, AbandonInv, UnansweredInv, UnreadableInv, BrokenOffInv, RefusedInv, CrashInv
<1>5. ASSUME NEW p \in Others, NEW s \in Slots, BeginSlot(p, s) \/ RepeatSlot(p, s)
      PROVE  MessagesInv'
  BY <1>5, BeginSlotInv, RepeatSlotInv
<1> QED  BY <1>1, <1>2, <1>3, <1>4, <1>5 DEF Next

(* The inductive invariant holds of every reachable state. *)
THEOREM MessagesCorrect == Spec => []MessagesInv
<1>1. Init => MessagesInv
  BY InitInv
<1>2. MessagesInv /\ [Next]_vars => MessagesInv'
  BY NextInv
<1> QED  BY <1>1, <1>2, PTL DEF Spec

-----------------------------------------------------------------------------
(* Every reachable state is well typed. *)
THEOREM TypeCorrect == Spec => []TypeOK
<1>1. MessagesInv => TypeOK
  BY DEF MessagesInv
<1> QED  BY <1>1, MessagesCorrect, PTL

(* The log says sent only of what was received, and a slot nobody has in    *)
(* hand was not received without a row that stops the next run, unless its  *)
(* reply broke off or its process died.                                     *)
THEOREM LogMatchesReceiptsAlways == Spec => []LogMatchesReceipts
<1>1. MessagesInv => LogMatchesReceipts
  <2> SUFFICES ASSUME MessagesInv, NEW m \in Messages PROVE LogMatchesReceipts!(m)
    BY DEF LogMatchesReceipts
  <2>1. Sent(m) => received[m] > 0
    BY DEF MessagesInv, SentWasReceived
  <2>2. ASSUME m \in Slots, received[m] > 0, \A p \in Procs : job[p] # m
        PROVE  m \in broken \cup died \/ \E r \in log[m] : r.status \in {"sent", "ambiguous"}
    BY <2>2, MessagesFact DEF MessagesInv, ReceiptIsLogged, Told, Reports, Outspoken
  <2> QED  BY <2>1, <2>2
<1> QED  BY <1>1, MessagesCorrect, PTL

(* A slot is received twice only after a repeat, a reply that broke off, a  *)
(* death or an overlap; a lost or unreadable answer alone is no cause.      *)
THEOREM SlotRepeatNeedsCauseAlways == Spec => []SlotRepeatNeedsCause
<1>1. MessagesInv => SlotRepeatNeedsCause
  <2> SUFFICES ASSUME MessagesInv, NEW s \in Slots, received[s] > 1
               PROVE  s \in asked \cup broken \cup died \cup overlap
    BY DEF SlotRepeatNeedsCause
  <2>1. ~(received[s] <= 1)
    BY DEF MessagesInv, TypeOK
  <2> QED  BY <2>1, MessagesFact DEF MessagesInv, CleanIsFresh, Clean
<1> QED  BY <1>1, MessagesCorrect, PTL

(* A notice is received twice only after a lost, unreadable or broken       *)
(* answer, a death or an overlap.                                           *)
THEOREM NoticeRepeatNeedsCauseAlways == Spec => []NoticeRepeatNeedsCause
<1>1. MessagesInv => NoticeRepeatNeedsCause
  <2> SUFFICES ASSUME MessagesInv, NEW n \in Notices, received[n] > 1
               PROVE  n \in doubt \cup broken \cup died \cup overlap
    BY DEF NoticeRepeatNeedsCause
  <2>1. n \in Messages /\ received[n] \in Nat
    BY DEF MessagesInv, TypeOK
  <2>2. asked \subseteq Slots
    BY DEF MessagesInv, TypeOK
  <2>3. n \notin asked
    BY <2>2, MessagesFact
  <2> QED  BY <2>1, <2>3 DEF MessagesInv, CleanIsFresh, Clean
<1> QED  BY <1>1, MessagesCorrect, PTL
=============================================================================
