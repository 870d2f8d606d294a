----------------------- MODULE TelegramCommands_proofs -----------------------
(***************************************************************************)
(* Theorems of TelegramCommands for any number of processors and writers,  *)
(* updates, failures and deliveries.                                       *)
(***************************************************************************)
EXTENDS TelegramCommands, TLAPS

USE CommandsAssumption DEF CommandsAssumption

InHandPcs == {"handle", "save", "send", "commit"}

(* A processor that handles an update has one of those it fetched in hand, *)
(* and nobody is ahead of the bot.                                         *)
InHand ==
    /\ \A p \in Processors :
          pc[p] \in InHandPcs => next[p] \in 1..upto[p] /\ upto[p] <= Len(inbox)
    /\ confirmed <= Len(inbox) /\ control.last <= Len(inbox)
    /\ \A a \in Actors : mem[a].last <= Len(inbox)
    /\ \A u \in Ids : u > Len(inbox) => told[u] = {}

TInv == TypeOK /\ InHand

-----------------------------------------------------------------------------
(* The operators the actions are built from.                               *)

LEMMA LargerFact ==
  ASSUME NEW a \in Nat, NEW b \in Nat
  PROVE  Larger(a, b) \in {a, b} /\ Larger(a, b) >= a /\ Larger(a, b) >= b
BY DEF Larger

LEMMA SmallerFact ==
  ASSUME NEW a \in Nat, NEW b \in Nat
  PROVE  Smaller(a, b) \in {a, b} /\ Smaller(a, b) <= a /\ Smaller(a, b) <= b
BY DEF Smaller

(* Marking an update keeps some of the older ids and always its own. *)
LEMMA MarkedFact ==
  ASSUME NEW ids \in Seq(Ids), NEW u \in Ids
  PROVE  /\ Marked(ids, u) \in Seq(Ids)
         /\ ToSet(Marked(ids, u)) \subseteq ToSet(ids) \cup {u}
         /\ u \notin ToSet(ids) => u \in ToSet(Marked(ids, u))
<1> DEFINE all == IF u \in ToSet(ids) THEN ids ELSE Append(ids, u)
           from == Larger(1, Len(all) - KeepLast + 1)
<1>1. all \in Seq(Ids) /\ ToSet(all) \subseteq ToSet(ids) \cup {u}
  BY DEF ToSet
<1>2. u \notin ToSet(ids) => Len(all) >= 1 /\ all[Len(all)] = u
  OBVIOUS
<1>3. Len(all) \in Nat /\ KeepLast \in Nat /\ KeepLast >= 1
  BY <1>1
<1> HIDE DEF all
<1>4. from \in Nat /\ from >= 1 /\ (Len(all) >= 1 => from <= Len(all))
  BY <1>3 DEF Larger
<1> HIDE DEF from
<1>5. /\ SubSeq(all, from, Len(all)) \in Seq(Ids)
      /\ Len(SubSeq(all, from, Len(all))) = IF from <= Len(all) THEN Len(all) - from + 1 ELSE 0
      /\ \A i \in 1..Len(SubSeq(all, from, Len(all))) :
            SubSeq(all, from, Len(all))[i] = all[from + i - 1]
  BY <1>1, <1>3, <1>4
<1>6. ToSet(SubSeq(all, from, Len(all))) \subseteq ToSet(all)
  <2> SUFFICES ASSUME NEW i \in 1..Len(SubSeq(all, from, Len(all)))
               PROVE  SubSeq(all, from, Len(all))[i] \in ToSet(all)
    BY <1>5 DEF ToSet
  <2>1. from + i - 1 \in 1..Len(all)
    BY <1>3, <1>4, <1>5
  <2> QED
    BY <1>1, <1>5, <2>1 DEF ToSet
<1>7. u \notin ToSet(ids) => u \in ToSet(SubSeq(all, from, Len(all)))
  <2> SUFFICES ASSUME u \notin ToSet(ids)
               PROVE  u \in ToSet(SubSeq(all, from, Len(all)))
    OBVIOUS
  <2> DEFINE s == SubSeq(all, from, Len(all))
             k == Len(all) - from + 1
  <2>1. k \in 1..Len(s) /\ s[k] = all[Len(all)]
    BY <1>2, <1>3, <1>4, <1>5
  <2>2. s[k] \in ToSet(s)
    BY <1>5, <2>1 DEF ToSet
  <2> QED
    BY <1>2, <2>1, <2>2
<1> QED
  BY <1>1, <1>5, <1>6, <1>7 DEF Marked, all, from

(* What each method changes, and that it keeps the rest. *)
LEMMA ClearSearchFact ==
  ASSUME NEW c \in Controls
  PROVE  /\ ClearSearch(c) \in Controls
         /\ ClearSearch(c).pending = FALSE
         /\ ClearSearch(c).last = c.last /\ ClearSearch(c).note = c.note
         /\ ClearSearch(c).tasks = c.tasks /\ ClearSearch(c).photos = c.photos
         /\ ClearSearch(c).shown = c.shown /\ ClearSearch(c).batch = c.batch
         /\ ClearSearch(c).paged = c.paged
<1> USE DEF ClearSearch
<1>1. ClearSearch(c) \in Controls
  BY DEF Controls
<1>2. ClearSearch(c).last = c.last
  BY DEF Controls
<1>3. ClearSearch(c).pending = FALSE
  BY DEF Controls
<1>4. ClearSearch(c).note = c.note
  BY DEF Controls
<1>5. ClearSearch(c).tasks = c.tasks
  BY DEF Controls
<1>6. ClearSearch(c).photos = c.photos
  BY DEF Controls
<1>7. ClearSearch(c).shown = c.shown
  BY DEF Controls
<1>8. ClearSearch(c).batch = c.batch
  BY DEF Controls
<1>9. ClearSearch(c).paged = c.paged
  BY DEF Controls
<1> QED
  BY <1>1, <1>2, <1>3, <1>4, <1>5, <1>6, <1>7, <1>8, <1>9

LEMMA SetNoteFact ==
  ASSUME NEW c \in Controls
  PROVE  /\ SetNote(c) \in Controls
         /\ SetNote(c).note = TRUE
         /\ SetNote(c).last = c.last /\ SetNote(c).pending = c.pending
         /\ SetNote(c).tasks = c.tasks /\ SetNote(c).photos = c.photos
         /\ SetNote(c).shown = c.shown /\ SetNote(c).batch = c.batch
         /\ SetNote(c).paged = c.paged
<1> USE DEF SetNote
<1>1. SetNote(c) \in Controls
  BY DEF Controls
<1>2. SetNote(c).last = c.last
  BY DEF Controls
<1>3. SetNote(c).pending = c.pending
  BY DEF Controls
<1>4. SetNote(c).note = TRUE
  BY DEF Controls
<1>5. SetNote(c).tasks = c.tasks
  BY DEF Controls
<1>6. SetNote(c).photos = c.photos
  BY DEF Controls
<1>7. SetNote(c).shown = c.shown
  BY DEF Controls
<1>8. SetNote(c).batch = c.batch
  BY DEF Controls
<1>9. SetNote(c).paged = c.paged
  BY DEF Controls
<1> QED
  BY <1>1, <1>2, <1>3, <1>4, <1>5, <1>6, <1>7, <1>8, <1>9

LEMMA SetIntradayFact ==
  ASSUME NEW c \in Controls, NEW b \in 0..MaxDeliveries, NEW n \in 0..Blocks
  PROVE  /\ SetIntraday(c, b, n) \in Controls
         /\ SetIntraday(c, b, n).batch = b
         /\ SetIntraday(c, b, n).paged = n
         /\ SetIntraday(c, b, n).last = c.last /\ SetIntraday(c, b, n).pending = c.pending
         /\ SetIntraday(c, b, n).note = c.note /\ SetIntraday(c, b, n).tasks = c.tasks
         /\ SetIntraday(c, b, n).photos = c.photos /\ SetIntraday(c, b, n).shown = c.shown
<1> USE DEF SetIntraday
<1>1. SetIntraday(c, b, n) \in Controls
  BY DEF Controls
<1>2. SetIntraday(c, b, n).last = c.last
  BY DEF Controls
<1>3. SetIntraday(c, b, n).pending = c.pending
  BY DEF Controls
<1>4. SetIntraday(c, b, n).note = c.note
  BY DEF Controls
<1>5. SetIntraday(c, b, n).tasks = c.tasks
  BY DEF Controls
<1>6. SetIntraday(c, b, n).photos = c.photos
  BY DEF Controls
<1>7. SetIntraday(c, b, n).shown = c.shown
  BY DEF Controls
<1>8. SetIntraday(c, b, n).batch = b
  BY DEF Controls
<1>9. SetIntraday(c, b, n).paged = n
  BY DEF Controls
<1> QED
  BY <1>1, <1>2, <1>3, <1>4, <1>5, <1>6, <1>7, <1>8, <1>9

LEMMA SetDeliveredFact ==
  ASSUME NEW c \in Controls, NEW n \in 0..Blocks
  PROVE  /\ SetDelivered(c, n) \in Controls
         /\ SetDelivered(c, n).shown = n
         /\ SetDelivered(c, n).batch = 0
         /\ SetDelivered(c, n).paged = 0
         /\ SetDelivered(c, n).last = c.last /\ SetDelivered(c, n).pending = c.pending
         /\ SetDelivered(c, n).note = c.note /\ SetDelivered(c, n).tasks = c.tasks
         /\ SetDelivered(c, n).photos = c.photos
<1> USE DEF SetDelivered
<1>0. 0 \in 0..MaxDeliveries /\ 0 \in 0..Blocks
  OBVIOUS
<1>1. SetDelivered(c, n) \in Controls
  <2>1. [c EXCEPT !.shown = n] \in Controls
    BY DEF Controls
  <2>2. [c EXCEPT !.shown = n, !.batch = 0] \in Controls
    BY <1>0, <2>1 DEF Controls
  <2> QED  BY <1>0, <2>2 DEF Controls
<1>2. SetDelivered(c, n).last = c.last
  BY DEF Controls
<1>3. SetDelivered(c, n).pending = c.pending
  BY DEF Controls
<1>4. SetDelivered(c, n).note = c.note
  BY DEF Controls
<1>5. SetDelivered(c, n).tasks = c.tasks
  BY DEF Controls
<1>6. SetDelivered(c, n).photos = c.photos
  BY DEF Controls
<1>7. SetDelivered(c, n).shown = n
  BY DEF Controls
<1>8. SetDelivered(c, n).batch = 0
  BY DEF Controls
<1>9. SetDelivered(c, n).paged = 0
  BY DEF Controls
<1> QED
  BY <1>1, <1>2, <1>3, <1>4, <1>5, <1>6, <1>7, <1>8, <1>9

LEMMA MarkTaskFact ==
  ASSUME NEW c \in Controls, NEW u \in Ids
  PROVE  /\ MarkTask(c, u) \in Controls
         /\ MarkTask(c, u).tasks = Marked(c.tasks, u)
         /\ MarkTask(c, u).last = c.last /\ MarkTask(c, u).pending = c.pending
         /\ MarkTask(c, u).note = c.note /\ MarkTask(c, u).photos = c.photos
         /\ MarkTask(c, u).shown = c.shown /\ MarkTask(c, u).batch = c.batch
         /\ MarkTask(c, u).paged = c.paged
<1>0. Marked(c.tasks, u) \in Seq(Ids)
  BY MarkedFact DEF Controls
<1> USE DEF MarkTask
<1>1. MarkTask(c, u) \in Controls
  BY <1>0 DEF Controls
<1>2. MarkTask(c, u).last = c.last
  BY DEF Controls
<1>3. MarkTask(c, u).pending = c.pending
  BY DEF Controls
<1>4. MarkTask(c, u).note = c.note
  BY DEF Controls
<1>5. MarkTask(c, u).tasks = Marked(c.tasks, u)
  BY DEF Controls
<1>6. MarkTask(c, u).photos = c.photos
  BY DEF Controls
<1>7. MarkTask(c, u).shown = c.shown
  BY DEF Controls
<1>8. MarkTask(c, u).batch = c.batch
  BY DEF Controls
<1>9. MarkTask(c, u).paged = c.paged
  BY DEF Controls
<1> QED
  BY <1>1, <1>2, <1>3, <1>4, <1>5, <1>6, <1>7, <1>8, <1>9

LEMMA MarkPhotoFact ==
  ASSUME NEW c \in Controls, NEW u \in Ids
  PROVE  /\ MarkPhoto(c, u) \in Controls
         /\ MarkPhoto(c, u).photos = Marked(c.photos, u)
         /\ MarkPhoto(c, u).note = FALSE
         /\ MarkPhoto(c, u).last = c.last /\ MarkPhoto(c, u).pending = c.pending
         /\ MarkPhoto(c, u).tasks = c.tasks /\ MarkPhoto(c, u).shown = c.shown
         /\ MarkPhoto(c, u).batch = c.batch /\ MarkPhoto(c, u).paged = c.paged
<1>0. Marked(c.photos, u) \in Seq(Ids)
  BY MarkedFact DEF Controls
<1> USE DEF MarkPhoto
<1>1. MarkPhoto(c, u) \in Controls
  BY <1>0 DEF Controls
<1>2. MarkPhoto(c, u).last = c.last
  BY DEF Controls
<1>3. MarkPhoto(c, u).pending = c.pending
  BY DEF Controls
<1>4. MarkPhoto(c, u).note = FALSE
  BY DEF Controls
<1>5. MarkPhoto(c, u).tasks = c.tasks
  BY DEF Controls
<1>6. MarkPhoto(c, u).photos = Marked(c.photos, u)
  BY DEF Controls
<1>7. MarkPhoto(c, u).shown = c.shown
  BY DEF Controls
<1>8. MarkPhoto(c, u).batch = c.batch
  BY DEF Controls
<1>9. MarkPhoto(c, u).paged = c.paged
  BY DEF Controls
<1> QED
  BY <1>1, <1>2, <1>3, <1>4, <1>5, <1>6, <1>7, <1>8, <1>9

LEMMA PassedFact ==
  ASSUME NEW c \in Controls, NEW u \in Ids
  PROVE  /\ Passed(c, u) \in Controls
         /\ Passed(c, u).last = Larger(c.last, u)
         /\ Passed(c, u).pending = c.pending /\ Passed(c, u).note = c.note
         /\ Passed(c, u).tasks = c.tasks /\ Passed(c, u).photos = c.photos
         /\ Passed(c, u).shown = c.shown /\ Passed(c, u).batch = c.batch
         /\ Passed(c, u).paged = c.paged
<1>0. Larger(c.last, u) \in 0..MaxUpdates
  <2>1. c.last \in 0..MaxUpdates /\ u \in 0..MaxUpdates
    BY DEF Controls, Ids
  <2> QED  BY <2>1 DEF Larger
<1> USE DEF Passed
<1>1. Passed(c, u) \in Controls
  BY <1>0 DEF Controls
<1>2. Passed(c, u).last = Larger(c.last, u)
  BY DEF Controls
<1>3. Passed(c, u).pending = c.pending
  BY DEF Controls
<1>4. Passed(c, u).note = c.note
  BY DEF Controls
<1>5. Passed(c, u).tasks = c.tasks
  BY DEF Controls
<1>6. Passed(c, u).photos = c.photos
  BY DEF Controls
<1>7. Passed(c, u).shown = c.shown
  BY DEF Controls
<1>8. Passed(c, u).batch = c.batch
  BY DEF Controls
<1>9. Passed(c, u).paged = c.paged
  BY DEF Controls
<1> QED
  BY <1>1, <1>2, <1>3, <1>4, <1>5, <1>6, <1>7, <1>8, <1>9

LEMMA PageFact ==
  ASSUME NEW c \in Controls, NEW k \in Paging
  PROVE  /\ Start(c, k) \in 0..Blocks /\ Reach(c, k) \in 0..Blocks
         /\ Source(c, k) \in 0..MaxDeliveries
<1>1. /\ c.shown \in 0..Blocks /\ c.paged \in 0..Blocks /\ c.batch \in 0..MaxDeliveries
      /\ Blocks \in Nat /\ PageSize \in Nat
  BY DEF Controls
<1>2. From(c, k) \in 0..Blocks
  BY <1>1 DEF From
<1>3. Start(c, k) \in 0..Blocks
  BY <1>1, <1>2 DEF Start
<1>4. Reach(c, k) \in 0..Blocks
  BY <1>1, <1>3 DEF Reach, Smaller
<1>5. Source(c, k) \in 0..MaxDeliveries
  BY <1>1 DEF Source
<1> QED
  BY <1>3, <1>4, <1>5

(* Turning a page touches the counts only. *)
LEMMA TurnedFact ==
  ASSUME NEW c \in Controls, NEW k \in Paging
  PROVE  /\ Turned(c, k) \in Controls
         /\ Turned(c, k).last = c.last /\ Turned(c, k).pending = c.pending
         /\ Turned(c, k).note = c.note
         /\ Turned(c, k).tasks = c.tasks /\ Turned(c, k).photos = c.photos
<1>0. Reach(c, k) \in 0..Blocks
  BY PageFact
<1>1. 0 \in 0..MaxDeliveries /\ 0 \in 0..Blocks /\ c.batch \in 0..MaxDeliveries
  BY DEF Controls
<1>2. \/ Turned(c, k) = SetIntraday(c, 0, 0)
      \/ Turned(c, k) = SetIntraday(c, c.batch, Reach(c, k))
      \/ Turned(c, k) = SetDelivered(c, Reach(c, k))
  BY DEF Turned, ClearIntraday
<1>3. CASE Turned(c, k) = SetIntraday(c, 0, 0)
  BY <1>1, <1>3, SetIntradayFact
<1>4. CASE Turned(c, k) = SetIntraday(c, c.batch, Reach(c, k))
  <2>1. PICK b \in 0..MaxDeliveries, r \in 0..Blocks : b = c.batch /\ r = Reach(c, k)
    BY <1>0, <1>1
  <2>2. Turned(c, k) = SetIntraday(c, b, r)
    BY <1>4, <2>1
  <2> QED  BY <2>2, SetIntradayFact
<1>5. CASE Turned(c, k) = SetDelivered(c, Reach(c, k))
  BY <1>0, <1>5, SetDeliveredFact
<1> QED
  BY <1>2, <1>3, <1>4, <1>5
-----------------------------------------------------------------------------
(* Types, and what a processor has in hand.                                *)

USE DEF server, process, history, bounds

LEMMA LeaveFact ==
  ASSUME TypeOK, NEW a \in Actors, Leave(a)
  PROVE  /\ pc' \in [Actors -> Pcs] /\ mem' \in [Actors -> Controls]
         /\ next' \in [Processors -> 0..MaxUpdates] /\ upto' \in [Processors -> 0..MaxUpdates]
         /\ result' \in [Processors -> {"done", "failed"}]
         /\ pc'[a] = "idle" /\ mem'[a] = NewControl
         /\ \A b \in Actors \ {a} : pc'[b] = pc[b] /\ mem'[b] = mem[b]
         /\ \A q \in Processors \ {a} :
               next'[q] = next[q] /\ upto'[q] = upto[q] /\ result'[q] = result[q]
<1>1. NewControl \in Controls
  BY DEF NewControl, Controls, Ids
<1>2. /\ pc' = [pc EXCEPT ![a] = "idle"] /\ mem' = [mem EXCEPT ![a] = NewControl]
      /\ a \in Processors =>
           /\ next' = [next EXCEPT ![a] = 0] /\ upto' = [upto EXCEPT ![a] = 0]
           /\ result' = [result EXCEPT ![a] = "done"]
      /\ a \notin Processors => next' = next /\ upto' = upto /\ result' = result
  BY DEF Leave, Goto
<1>3. /\ pc' \in [Actors -> Pcs] /\ mem' \in [Actors -> Controls]
  BY <1>1, <1>2 DEF TypeOK, Pcs
<1>4. /\ next' \in [Processors -> 0..MaxUpdates] /\ upto' \in [Processors -> 0..MaxUpdates]
      /\ result' \in [Processors -> {"done", "failed"}]
  <2>1. CASE a \in Processors
    <3>1. 0 \in 0..MaxUpdates
      OBVIOUS
    <3>2. /\ [next EXCEPT ![a] = 0] \in [Processors -> 0..MaxUpdates]
          /\ [upto EXCEPT ![a] = 0] \in [Processors -> 0..MaxUpdates]
      BY <3>1 DEF TypeOK
    <3>3. [result EXCEPT ![a] = "done"] \in [Processors -> {"done", "failed"}]
      BY DEF TypeOK
    <3> QED  BY <1>2, <2>1, <3>2, <3>3
  <2>2. CASE a \notin Processors
    BY <1>2, <2>2 DEF TypeOK
  <2> QED  BY <2>1, <2>2
<1>5. /\ pc'[a] = "idle" /\ mem'[a] = NewControl
      /\ \A b \in Actors \ {a} : pc'[b] = pc[b] /\ mem'[b] = mem[b]
  BY <1>2 DEF TypeOK
<1>6. \A q \in Processors \ {a} :
         next'[q] = next[q] /\ upto'[q] = upto[q] /\ result'[q] = result[q]
  BY <1>2 DEF TypeOK
<1> QED  BY <1>3, <1>4, <1>5, <1>6

(* What an update in hand is. *)
LEMMA InHandFact ==
  ASSUME TInv, NEW p \in Processors, pc[p] \in InHandPcs
  PROVE  /\ next[p] \in 1..Len(inbox) /\ next[p] \in Ids /\ Kind(p) \in AllKinds
         /\ mem[p] \in Controls /\ p \in Actors
<1>1. /\ next[p] \in 1..upto[p] /\ upto[p] <= Len(inbox) /\ upto[p] \in 0..MaxUpdates
      /\ Len(inbox) \in Nat /\ Len(inbox) <= MaxUpdates
  BY DEF TInv, InHand, TypeOK
<1>2. next[p] \in 1..Len(inbox) /\ next[p] \in 1..MaxUpdates
  BY <1>1
<1>3. inbox[next[p]] \in AllKinds
  BY <1>2 DEF TInv, TypeOK
<1> QED  BY <1>2, <1>3 DEF Kind, Ids, TInv, TypeOK, Actors

-----------------------------------------------------------------------------
(* The steps by what they do.                                              *)

(* An update in hand is handled: the copy c, the result r, then to w. *)
Answers(p, c, w, r) ==
    /\ pc[p] = "handle" /\ w \in {"save", "send"} /\ r \in {"done", "failed"}
    /\ pc' = [pc EXCEPT ![p] = w] /\ mem' = [mem EXCEPT ![p] = c]
    /\ result' = [result EXCEPT ![p] = r]
    /\ c \in Controls /\ c.last = mem[p].last
    /\ c.shown = mem[p].shown /\ c.batch = mem[p].batch /\ c.paged = mem[p].paged
    /\ effects' \in [Ids -> Nat] /\ \A u \in Ids : effects'[u] >= effects[u]
    /\ inbox' = inbox /\ confirmed' = confirmed /\ control' = control
    /\ next' = next /\ upto' = upto /\ told' = told /\ seen' = seen
    /\ torn' = torn /\ overlap' = overlap /\ failures' = failures /\ deliveries' = deliveries

(* With the id of the update in the marks, or without. *)
MarkedIn(c, u) == u \in ToSet(IF inbox[u] = "task" THEN c.tasks ELSE c.photos)

SameMarks(c, d) == c.tasks = d.tasks /\ c.photos = d.photos

LEMMA ApplyFact ==
  ASSUME TInv, NEW p \in Processors, Apply(p)
  PROVE  \E c \in Controls :
            /\ Answers(p, c, "save", "done")
            /\ Kind(p) = "task" \/ Kind(p) \in {"image", "captioned"}
            /\ ~MarkedIn(mem[p], next[p]) /\ MarkedIn(c, next[p])
            /\ ToSet(c.tasks) \subseteq ToSet(mem[p].tasks) \cup {next[p]}
            /\ ToSet(c.photos) \subseteq ToSet(mem[p].photos) \cup {next[p]}
            /\ Kind(p) = "task" => c.note = mem[p].note
            /\ effects' = [effects EXCEPT ![next[p]] = @ + 1]
<1>1. pc[p] = "handle" /\ (Kind(p) = "task" \/ IsPhoto(p)) /\ ~Applied(p)
  BY DEF Apply
<1>2. /\ next[p] \in Ids /\ mem[p] \in Controls
      /\ mem[p].tasks \in Seq(Ids) /\ mem[p].photos \in Seq(Ids)
  BY <1>1, InHandFact DEF InHandPcs, Controls
<1> DEFINE d == ClearSearch(mem[p])
<1>3. /\ d \in Controls /\ d.last = mem[p].last /\ d.note = mem[p].note
      /\ d.tasks = mem[p].tasks /\ d.photos = mem[p].photos
      /\ d.shown = mem[p].shown /\ d.batch = mem[p].batch /\ d.paged = mem[p].paged
  BY <1>2, ClearSearchFact
<1> HIDE DEF d
<1> DEFINE c == IF Kind(p) = "task" THEN MarkTask(d, next[p]) ELSE MarkPhoto(d, next[p])
<1>4. /\ c \in Controls /\ c.last = d.last /\ c.shown = d.shown /\ c.batch = d.batch
      /\ c.paged = d.paged
      /\ Kind(p) = "task" => /\ c.tasks = Marked(d.tasks, next[p])
                              /\ c.photos = d.photos /\ c.note = d.note
      /\ Kind(p) # "task" => c.photos = Marked(d.photos, next[p]) /\ c.tasks = d.tasks
  BY <1>2, <1>3, MarkTaskFact, MarkPhotoFact
<1>5. mem' = [mem EXCEPT ![p] = c]
  BY DEF Apply, c, d
<1> HIDE DEF c
<1>6. effects' \in [Ids -> Nat] /\ \A u \in Ids : effects'[u] >= effects[u]
  BY <1>2 DEF Apply, TInv, TypeOK
<1>7. Answers(p, c, "save", "done")
  BY <1>1, <1>3, <1>4, <1>5, <1>6 DEF Answers, Apply, Goto
<1>8. ~MarkedIn(mem[p], next[p])
  BY <1>1 DEF Applied, MarkedIn, Kind
<1>9. MarkedIn(c, next[p])
  BY <1>2, <1>3, <1>4, <1>8, MarkedFact DEF MarkedIn, Kind
<1>10. /\ ToSet(c.tasks) \subseteq ToSet(mem[p].tasks) \cup {next[p]}
       /\ ToSet(c.photos) \subseteq ToSet(mem[p].photos) \cup {next[p]}
  BY <1>2, <1>3, <1>4, MarkedFact
<1>11. /\ Kind(p) = "task" \/ Kind(p) \in {"image", "captioned"}
       /\ effects' = [effects EXCEPT ![next[p]] = @ + 1]
  BY <1>1 DEF IsPhoto, Apply
<1> QED  BY <1>3, <1>4, <1>7, <1>8, <1>9, <1>10, <1>11

(* The other ways to handle an update store nothing. *)
Storing(p) == ApplyAgain(p) \/ Decline(p) \/ Note(p)
Telling(p) == Lookup(p) \/ Pick(p) \/ Answer(p)

LEMMA AnsweringFact ==
  ASSUME TInv, NEW p \in Processors, Storing(p) \/ Telling(p)
  PROVE  \E c \in Controls, w \in {"save", "send"}, r \in {"done", "failed"} :
            /\ Answers(p, c, w, r) /\ effects' = effects
            /\ SameMarks(c, mem[p])
            /\ c.note = mem[p].note \/ (Kind(p) = "note" /\ w = "save")
            /\ Kind(p) = "note" => c.note = TRUE /\ w = "save"
            /\ Kind(p) = "task" /\ r = "done" => MarkedIn(mem[p], next[p])
            /\ Kind(p) \in {"image", "captioned"} => MarkedIn(mem[p], next[p])
            /\ Kind(p) # "other" /\ (w = "send" => Telling(p))
<1>1. /\ pc[p] = "handle" /\ inbox' = inbox /\ confirmed' = confirmed /\ control' = control
      /\ next' = next /\ upto' = upto /\ told' = told /\ seen' = seen /\ effects' = effects
      /\ torn' = torn /\ overlap' = overlap /\ failures' = failures /\ deliveries' = deliveries
  BY DEF Storing, Telling, ApplyAgain, Decline, Note, Lookup, Pick, Answer
<1>2. next[p] \in Ids /\ mem[p] \in Controls /\ effects \in [Ids -> Nat]
  BY <1>1, InHandFact DEF InHandPcs, TInv, TypeOK
<1>3. \A u \in Ids : effects[u] >= effects[u]
  BY <1>2
<1>4. /\ ClearSearch(mem[p]) \in Controls /\ ClearSearch(mem[p]).last = mem[p].last
      /\ ClearSearch(mem[p]).note = mem[p].note /\ SameMarks(ClearSearch(mem[p]), mem[p])
      /\ ClearSearch(mem[p]).shown = mem[p].shown /\ ClearSearch(mem[p]).batch = mem[p].batch
      /\ ClearSearch(mem[p]).paged = mem[p].paged
  BY <1>2, ClearSearchFact DEF SameMarks
<1>5. CASE ApplyAgain(p)
  <2>1. Kind(p) = "task" \/ Kind(p) \in {"image", "captioned"}
    BY <1>5 DEF ApplyAgain, IsPhoto
  <2>2. MarkedIn(mem[p], next[p])
    BY <1>5 DEF ApplyAgain, Applied, MarkedIn, Kind
  <2>3. Answers(p, ClearSearch(mem[p]), "save", "done")
    BY <1>1, <1>2, <1>3, <1>4, <1>5 DEF Answers, ApplyAgain, Goto
  <2> QED  BY <1>1, <1>4, <2>1, <2>2, <2>3
<1>6. CASE Decline(p)
  <2>1. Answers(p, ClearSearch(mem[p]), "save", "failed") /\ Kind(p) = "task"
    BY <1>1, <1>2, <1>3, <1>4, <1>6 DEF Answers, Decline, Goto
  <2> QED  BY <1>1, <1>4, <2>1
<1>7. CASE Note(p)
  <2> DEFINE c == SetNote(ClearSearch(mem[p]))
  <2>1. /\ c \in Controls /\ c.last = mem[p].last /\ c.note = TRUE /\ SameMarks(c, mem[p])
        /\ c.shown = mem[p].shown /\ c.batch = mem[p].batch /\ c.paged = mem[p].paged
    BY <1>4, SetNoteFact DEF SameMarks
  <2>2. mem' = [mem EXCEPT ![p] = c]
    BY <1>7 DEF Note
  <2> HIDE DEF c
  <2>3. Answers(p, c, "save", "done") /\ Kind(p) = "note"
    BY <1>1, <1>2, <1>3, <1>7, <2>1, <2>2 DEF Answers, Note, Goto
  <2> QED  BY <1>1, <2>1, <2>3
<1>8. CASE Lookup(p)
  <2>1. PICK found \in BOOLEAN : mem' = [mem EXCEPT ![p].pending = found]
    BY <1>8 DEF Lookup
  <2> DEFINE c == [mem[p] EXCEPT !.pending = found]
  <2>2. c \in Controls
    BY <1>2 DEF Controls
  <2>3. c.last = mem[p].last /\ c.note = mem[p].note /\ c.tasks = mem[p].tasks
    BY <1>2 DEF Controls
  <2>4. c.photos = mem[p].photos /\ c.shown = mem[p].shown
    BY <1>2 DEF Controls
  <2>5. c.batch = mem[p].batch /\ c.paged = mem[p].paged
    BY <1>2 DEF Controls
  <2>6. mem' = [mem EXCEPT ![p] = c]
    BY <2>1
  <2> HIDE DEF c
  <2>7. Answers(p, c, "send", "done") /\ Kind(p) = "lookup"
    BY <1>1, <1>2, <1>3, <1>8, <2>2, <2>3, <2>4, <2>5, <2>6 DEF Answers, Lookup, Goto
  <2> QED  BY <1>1, <1>8, <2>2, <2>3, <2>4, <2>7 DEF SameMarks, Telling
<1>9. CASE Pick(p)
  <2>1. CASE mem' = mem
    <3>1. Answers(p, mem[p], "send", "done") /\ Kind(p) = "pick"
      BY <1>1, <1>2, <1>3, <1>9, <2>1 DEF Answers, Pick, Goto, TInv, TypeOK
    <3> QED  BY <1>1, <1>2, <1>9, <3>1 DEF SameMarks, Telling
  <2>2. CASE mem' = [mem EXCEPT ![p] = ClearSearch(@)]
    <3>1. Answers(p, ClearSearch(mem[p]), "send", "done") /\ Kind(p) = "pick"
      BY <1>1, <1>2, <1>3, <1>4, <1>9, <2>2 DEF Answers, Pick, Goto
    <3> QED  BY <1>1, <1>4, <1>9, <3>1 DEF Telling
  <2> QED  BY <1>9, <2>1, <2>2 DEF Pick
<1>10. CASE Answer(p)
  <2>1. Answers(p, ClearSearch(mem[p]), "send", "done") /\ Kind(p) \in {"status"} \cup Paging
    BY <1>1, <1>2, <1>3, <1>4, <1>10 DEF Answers, Answer, Goto
  <2> QED  BY <1>1, <1>4, <1>10, <2>1 DEF Paging, Telling
<1> QED  BY <1>5, <1>6, <1>7, <1>8, <1>9, <1>10 DEF Storing, Telling

(* The update in hand is passed: the copy c replaces the file, and the loop *)
(* goes on to the next update or to its end.                               *)
Moves(p, c) ==
    /\ pc[p] \in {"handle", "commit"}
    /\ mem' = [mem EXCEPT ![p] = c] /\ control' = c
    /\ c \in Controls /\ c.last = Larger(mem[p].last, next[p])
    /\ c.note = mem[p].note /\ SameMarks(c, mem[p])
    /\ \/ /\ next[p] < upto[p] /\ next' = [next EXCEPT ![p] = next[p] + 1]
          /\ pc' = [pc EXCEPT ![p] = "handle"]
       \/ next' = next /\ pc' = [pc EXCEPT ![p] = "finish"]
    /\ inbox' = inbox /\ confirmed' = confirmed /\ upto' = upto /\ result' = result
    /\ effects' = effects /\ told' = told /\ seen' = seen /\ torn' = torn /\ overlap' = overlap
    /\ failures' = failures /\ deliveries' = deliveries

LEMMA AdvanceFact ==
  ASSUME NEW p \in Processors, Advance(p)
  PROVE  \/ /\ next[p] < upto[p] /\ next' = [next EXCEPT ![p] = next[p] + 1]
            /\ pc' = [pc EXCEPT ![p] = "handle"]
         \/ next' = next /\ pc' = [pc EXCEPT ![p] = "finish"]
BY DEF Advance, Goto

LEMMA SkipFact ==
  ASSUME TInv, NEW p \in Processors, Skip(p)
  PROVE  \E c \in Controls :
            /\ Moves(p, c)
            /\ c.shown = mem[p].shown /\ c.batch = mem[p].batch /\ c.paged = mem[p].paged
            /\ Kind(p) = "other" \/ (Kind(p) = "image" /\ ~mem[p].note)
<1>1. pc[p] = "handle" /\ next[p] \in Ids /\ mem[p] \in Controls /\ p \in Actors
  BY InHandFact DEF Skip, InHandPcs
<1> DEFINE c == Passed(mem[p], next[p])
<1>2. /\ c \in Controls /\ c.last = Larger(mem[p].last, next[p])
      /\ c.note = mem[p].note /\ SameMarks(c, mem[p])
      /\ c.shown = mem[p].shown /\ c.batch = mem[p].batch /\ c.paged = mem[p].paged
  BY <1>1, PassedFact DEF SameMarks
<1>3. mem' = [mem EXCEPT ![p] = c]
  BY DEF Skip
<1>4. control' = c
  BY <1>1, <1>3 DEF Skip, TInv, TypeOK
<1> HIDE DEF c
<1>5. Moves(p, c)
  BY <1>1, <1>2, <1>3, <1>4, AdvanceFact DEF Moves, Skip
<1>6. Kind(p) = "other" \/ (Kind(p) = "image" /\ ~mem[p].note)
  BY DEF Skip, IsPhoto
<1> QED  BY <1>2, <1>5, <1>6

LEMMA CommitFact ==
  ASSUME TInv, NEW p \in Processors, Commit(p)
  PROVE  \E c, d \in Controls :
            /\ Moves(p, c) /\ pc[p] = "commit"
            /\ d = IF Kind(p) \in Paging THEN Turned(mem[p], Kind(p)) ELSE mem[p]
            /\ c.shown = d.shown /\ c.batch = d.batch /\ c.paged = d.paged
<1>1. pc[p] = "commit" /\ next[p] \in Ids /\ mem[p] \in Controls /\ p \in Actors
  BY InHandFact DEF Commit, InHandPcs
<1> DEFINE d == IF Kind(p) \in Paging THEN Turned(mem[p], Kind(p)) ELSE mem[p]
<1>2. /\ d \in Controls /\ d.last = mem[p].last /\ d.note = mem[p].note
      /\ SameMarks(d, mem[p])
  BY <1>1, TurnedFact DEF SameMarks
<1>3. mem' = [mem EXCEPT ![p] = Passed(d, next[p])]
  BY DEF Commit
<1>4. control' = Passed(d, next[p])
  BY <1>1, <1>3 DEF Commit, TInv, TypeOK
<1>5. PICK e \in Controls : e = d
  BY <1>2
<1>6. PICK c \in Controls : c = Passed(e, next[p])
  BY <1>1, PassedFact
<1>7. /\ c.last = Larger(e.last, next[p]) /\ c.note = e.note /\ SameMarks(c, e)
      /\ c.shown = e.shown /\ c.batch = e.batch /\ c.paged = e.paged
  BY <1>1, <1>6, PassedFact DEF SameMarks
<1>8. mem' = [mem EXCEPT ![p] = c] /\ control' = c
  BY <1>3, <1>4, <1>5, <1>6
<1>9. c.last = Larger(mem[p].last, next[p]) /\ c.note = mem[p].note /\ SameMarks(c, mem[p])
  BY <1>2, <1>5, <1>7 DEF SameMarks
<1>10. Moves(p, c)
  BY <1>1, <1>8, <1>9, AdvanceFact DEF Moves, Commit
<1> QED  BY <1>1, <1>5, <1>7, <1>10

(* A delivery ends: its copy, with other counts, replaces the file. *)
Closes(w, c) ==
    /\ pc[w] = "loaded" /\ Leave(w) /\ control' = c
    /\ c \in Controls /\ c.last = mem[w].last /\ c.note = mem[w].note
    /\ SameMarks(c, mem[w])
    /\ seen' \in [0..MaxDeliveries -> SUBSET (1..Blocks)]
    /\ \A b \in 0..MaxDeliveries : seen[b] \subseteq seen'[b]
    /\ inbox' = inbox /\ confirmed' = confirmed /\ effects' = effects /\ told' = told
    /\ torn' = torn /\ overlap' = overlap /\ failures' = failures /\ deliveries' = deliveries

(* What a control state counts as shown was shown. *)
Backed(c) ==
    /\ 1..c.shown \subseteq seen[0]
    /\ c.batch # 0 => 1..c.paged \subseteq seen[c.batch]

LEMMA CloseIntradayFact ==
  ASSUME TInv, NEW w \in Writers, CloseIntraday(w)
  PROVE  \E c \in Controls : Closes(w, c) /\ (Backed(mem[w]) => Backed(c)')
<1>1. /\ pc[w] = "loaded" /\ Leave(w) /\ inbox' = inbox /\ confirmed' = confirmed
      /\ effects' = effects /\ told' = told /\ torn' = torn /\ overlap' = overlap
      /\ failures' = failures /\ deliveries' = deliveries
  BY DEF CloseIntraday
<1>2. /\ mem[w] \in Controls /\ seen \in [0..MaxDeliveries -> SUBSET (1..Blocks)]
      /\ mem[w].batch \in 0..MaxDeliveries /\ mem[w].shown \in 0..Blocks
      /\ mem[w].paged \in 0..Blocks
  BY DEF TInv, TypeOK, Actors, Controls
<1>3. CASE /\ PageSize < Blocks
           /\ \E b \in 1..MaxDeliveries :
                /\ seen[b] = {}
                /\ seen' = [seen EXCEPT ![b] = 1..PageSize]
                /\ control' = SetIntraday(mem[w], b, PageSize)
  <2>1. PICK b \in 1..MaxDeliveries :
            /\ seen[b] = {} /\ seen' = [seen EXCEPT ![b] = 1..PageSize]
            /\ control' = SetIntraday(mem[w], b, PageSize)
    BY <1>3
  <2>2. b \in 0..MaxDeliveries /\ b # 0 /\ PageSize \in 0..Blocks
    BY <1>3
  <2>3. PICK c \in Controls : c = SetIntraday(mem[w], b, PageSize)
    BY <1>2, <2>2, SetIntradayFact
  <2>4. /\ c.last = mem[w].last /\ c.note = mem[w].note /\ SameMarks(c, mem[w])
        /\ c.shown = mem[w].shown /\ c.batch = b /\ c.paged = PageSize
    <3>1. PICK e \in Controls, k \in 0..MaxDeliveries, n \in 0..Blocks : e = mem[w] /\ k = b /\ n = PageSize
      BY <1>2, <2>2
    <3>2. c = SetIntraday(e, k, n)
      BY <2>3, <3>1
    <3>3. c.last = e.last /\ c.note = e.note /\ c.tasks = e.tasks /\ c.photos = e.photos /\ c.shown = e.shown
      BY <3>2, SetIntradayFact
    <3>4. c.batch = k /\ c.paged = n
      BY <3>2, SetIntradayFact
    <3> QED  BY <3>1, <3>3, <3>4 DEF SameMarks
  <2>5. /\ seen' \in [0..MaxDeliveries -> SUBSET (1..Blocks)]
        /\ \A e \in 0..MaxDeliveries : seen[e] \subseteq seen'[e]
        /\ seen'[b] = 1..PageSize /\ seen'[0] = seen[0]
    <3>1. 1..PageSize \in SUBSET (1..Blocks)
      BY <2>2
    <3> QED  BY <1>2, <2>1, <2>2, <3>1
  <2>6. Closes(w, c)
    BY <1>1, <2>1, <2>3, <2>4, <2>5 DEF Closes
  <2>7. Backed(mem[w]) => Backed(c)'
    BY <2>4, <2>5 DEF Backed
  <2> QED  BY <2>6, <2>7
<1>4. CASE seen' = seen /\ control' = ClearIntraday(mem[w])
  <2>1. 0 \in 0..MaxDeliveries /\ 0 \in 0..Blocks
    OBVIOUS
  <2>2. PICK c \in Controls : c = SetIntraday(mem[w], 0, 0)
    BY <1>2, <2>1, SetIntradayFact
  <2>3. /\ c.last = mem[w].last /\ c.note = mem[w].note /\ SameMarks(c, mem[w])
        /\ c.shown = mem[w].shown /\ c.batch = 0
    <3>1. PICK e \in Controls, k \in 0..MaxDeliveries, n \in 0..Blocks : e = mem[w] /\ k = 0 /\ n = 0
      BY <1>2, <2>1
    <3>2. c = SetIntraday(e, k, n)
      BY <2>2, <3>1
    <3>3. c.last = e.last /\ c.note = e.note /\ c.tasks = e.tasks /\ c.photos = e.photos /\ c.shown = e.shown
      BY <3>2, SetIntradayFact
    <3>4. c.batch = k
      BY <3>2, SetIntradayFact
    <3> QED  BY <3>1, <3>3, <3>4 DEF SameMarks
  <2>4. Closes(w, c)
    BY <1>1, <1>2, <1>4, <2>2, <2>3 DEF Closes, ClearIntraday
  <2>5. Backed(mem[w]) => Backed(c)'
    BY <1>4, <2>3 DEF Backed
  <2> QED  BY <2>4, <2>5
<1>5. CASE seen' = seen /\ control' = mem[w]
  <2>1. PICK c \in Controls : c = mem[w]
    BY <1>2
  <2>2. Closes(w, c)
    BY <1>1, <1>2, <1>5, <2>1 DEF Closes, SameMarks
  <2>3. Backed(mem[w]) => Backed(c)'
    BY <1>5, <2>1 DEF Backed
  <2> QED  BY <2>2, <2>3
<1> QED  BY <1>3, <1>4, <1>5 DEF CloseIntraday

LEMMA CloseDailyFact ==
  ASSUME TInv, NEW w \in Writers, CloseDaily(w)
  PROVE  \E c \in Controls : Closes(w, c) /\ (Backed(mem[w]) => Backed(c)')
<1>1. /\ pc[w] = "loaded" /\ Leave(w) /\ inbox' = inbox /\ confirmed' = confirmed
      /\ effects' = effects /\ told' = told /\ torn' = torn /\ overlap' = overlap
      /\ failures' = failures /\ deliveries' = deliveries
  BY DEF CloseDaily
<1>2. mem[w] \in Controls /\ seen \in [0..MaxDeliveries -> SUBSET (1..Blocks)]
  BY DEF TInv, TypeOK, Actors
<1>3. PICK n \in {Blocks, Smaller(Blocks, PageSize)} :
          /\ seen' = [seen EXCEPT ![0] = @ \cup 1..n]
          /\ control' = SetDelivered(mem[w], n)
  BY DEF CloseDaily
<1>4. n \in 0..Blocks
  BY SmallerFact
<1>5. PICK c \in Controls : c = SetDelivered(mem[w], n)
  BY <1>2, <1>4, SetDeliveredFact
<1>6. /\ c.last = mem[w].last /\ c.note = mem[w].note /\ SameMarks(c, mem[w])
      /\ c.shown = n /\ c.batch = 0
  BY <1>2, <1>4, <1>5, SetDeliveredFact DEF SameMarks
<1>7. /\ seen' \in [0..MaxDeliveries -> SUBSET (1..Blocks)]
      /\ \A e \in 0..MaxDeliveries : seen[e] \subseteq seen'[e]
      /\ 1..n \subseteq seen'[0]
  <2>1. seen[0] \cup 1..n \in SUBSET (1..Blocks) /\ 0 \in 0..MaxDeliveries
    BY <1>2, <1>4
  <2> QED  BY <1>2, <1>3, <2>1
<1>8. Closes(w, c)
  BY <1>1, <1>3, <1>5, <1>6, <1>7 DEF Closes
<1>9. Backed(c)'
  BY <1>6, <1>7 DEF Backed
<1> QED  BY <1>8, <1>9
-----------------------------------------------------------------------------
(* Types.                                                                  *)

LEMMA InitType == Init => TInv
<1> SUFFICES ASSUME Init PROVE TInv
  OBVIOUS
<1>1. NewControl \in Controls /\ NewControl.last = 0
  BY DEF NewControl, Controls, Ids
<1>2. TypeOK
  <2>1. /\ 0 \in 0..MaxUpdates /\ 0 \in 0..MaxFailures /\ 0 \in 0..MaxDeliveries
        /\ 0 \in Nat /\ {} \in SUBSET (1..Blocks) /\ {} \in SUBSET {"done", "failed"}
    OBVIOUS
  <2>2. inbox \in Seq(AllKinds) /\ Len(inbox) = 0
    BY DEF Init
  <2>3. /\ next \in [Processors -> 0..MaxUpdates] /\ upto \in [Processors -> 0..MaxUpdates]
        /\ result \in [Processors -> {"done", "failed"}]
    BY <2>1 DEF Init
  <2>4. pc \in [Actors -> Pcs] /\ mem \in [Actors -> Controls]
    BY <1>1 DEF Init, Pcs
  <2>5. /\ effects \in [Ids -> Nat] /\ told \in [Ids -> SUBSET {"done", "failed"}]
        /\ seen \in [0..MaxDeliveries -> SUBSET (1..Blocks)]
    BY <2>1 DEF Init
  <2>6. /\ confirmed \in 0..MaxUpdates /\ control \in Controls /\ torn \subseteq Ids
        /\ overlap \in BOOLEAN /\ failures \in 0..MaxFailures
        /\ deliveries \in 0..MaxDeliveries
    BY <1>1, <2>1 DEF Init
  <2>7. Len(inbox) <= MaxUpdates
    BY <2>2
  <2> QED  BY <2>2, <2>3, <2>4, <2>5, <2>6, <2>7 DEF TypeOK
<1>3. InHand
  BY <1>1 DEF Init, InHand, InHandPcs, Actors
<1> QED  BY <1>2, <1>3 DEF TInv

(* Who has an update in hand keeps it while another actor steps. *)
LEMMA HandFact ==
  ASSUME TInv, NEW a \in Actors, inbox' = inbox,
         \A b \in Actors \ {a} : pc'[b] = pc[b] /\ mem'[b] = mem[b],
         \A q \in Processors \ {a} : next'[q] = next[q] /\ upto'[q] = upto[q],
         a \in Processors /\ pc'[a] \in InHandPcs =>
            next'[a] \in 1..upto'[a] /\ upto'[a] <= Len(inbox),
         mem'[a].last <= Len(inbox), confirmed' <= Len(inbox), control'.last <= Len(inbox),
         \A u \in Ids : u > Len(inbox) => told'[u] = told[u]
  PROVE  InHand'
<1>1. ASSUME NEW q \in Processors, pc'[q] \in InHandPcs
      PROVE  next'[q] \in 1..upto'[q] /\ upto'[q] <= Len(inbox)
  <2>1. CASE q = a
    BY <1>1, <2>1
  <2>2. CASE q # a
    <3>1. pc'[q] = pc[q] /\ next'[q] = next[q] /\ upto'[q] = upto[q]
      BY <2>2 DEF Actors
    <3> QED  BY <1>1, <3>1 DEF TInv, InHand
  <2> QED  BY <2>1, <2>2
<1>2. \A b \in Actors : mem'[b].last <= Len(inbox)
  <2> SUFFICES ASSUME NEW b \in Actors PROVE mem'[b].last <= Len(inbox)
    OBVIOUS
  <2>1. b # a => mem'[b] = mem[b] /\ mem[b].last <= Len(inbox)
    BY DEF TInv, InHand
  <2> QED  BY <2>1
<1>3. \A u \in Ids : u > Len(inbox) => told'[u] = {}
  BY DEF TInv, InHand
<1>4. Len(inbox') = Len(inbox)
  OBVIOUS
<1> QED  BY <1>1, <1>2, <1>3, <1>4 DEF InHand

LEMMA AnswersType ==
  ASSUME TInv, NEW p \in Processors, NEW c, NEW w, NEW r, Answers(p, c, w, r) PROVE TInv'
<1>1. TypeOK'
  BY DEF TInv, TypeOK, Answers, Pcs
<1>2. InHand'
  BY DEF TInv, TypeOK, InHand, InHandPcs, Answers, Actors
<1> QED  BY <1>1, <1>2 DEF TInv

LEMMA MovesType ==
  ASSUME TInv, NEW p \in Processors, NEW c, Moves(p, c) PROVE TInv'
<1>1. /\ next[p] \in 1..upto[p] /\ upto[p] <= Len(inbox)
      /\ mem[p] \in Controls /\ mem[p].last <= Len(inbox) /\ p \in Actors
  BY DEF TInv, TypeOK, InHand, InHandPcs, Moves, Actors
<1>2. upto[p] \in 0..MaxUpdates /\ Len(inbox) \in Nat /\ confirmed <= Len(inbox)
  BY DEF TInv, TypeOK, InHand
<1>3. mem[p].last \in Nat
  BY <1>1 DEF Controls
<1>4. c.last <= Len(inbox)
  BY <1>1, <1>2, <1>3 DEF Moves, Larger
<1>5. next' \in [Processors -> 0..MaxUpdates]
  <2>1. next[p] < upto[p] => next[p] + 1 \in 0..MaxUpdates
    BY <1>1, <1>2
  <2> QED  BY <2>1 DEF Moves, TInv, TypeOK
<1>6. TypeOK'
  BY <1>5 DEF TInv, TypeOK, Moves, Pcs
<1>7. pc'[p] \in InHandPcs => next'[p] \in 1..upto'[p] /\ upto'[p] <= Len(inbox)
  <2>1. CASE next[p] < upto[p] /\ next' = [next EXCEPT ![p] = next[p] + 1]
    BY <1>1, <1>2, <2>1 DEF Moves, TInv, TypeOK
  <2>2. CASE next' = next /\ pc' = [pc EXCEPT ![p] = "finish"]
    BY <1>1, <2>2 DEF InHandPcs, TInv, TypeOK
  <2> QED  BY <2>1, <2>2 DEF Moves
<1>8. /\ \A b \in Actors \ {p} : pc'[b] = pc[b] /\ mem'[b] = mem[b]
      /\ \A q \in Processors \ {p} : next'[q] = next[q] /\ upto'[q] = upto[q]
      /\ mem'[p] = c
  BY <1>1 DEF Moves, TInv, TypeOK
<1>9. InHand'
  BY <1>1, <1>2, <1>4, <1>7, <1>8, HandFact DEF Moves
<1> QED  BY <1>6, <1>9 DEF TInv

LEMMA ClosesType ==
  ASSUME TInv, NEW w \in Writers, NEW c, Closes(w, c) PROVE TInv'
<1>1. w \in Actors /\ Leave(w) /\ w \notin Processors
  BY DEF Closes, Actors
<1>2. TypeOK'
  BY <1>1, LeaveFact DEF Closes, TInv, TypeOK
<1>3. mem'[w].last <= Len(inbox) /\ control'.last <= Len(inbox) /\ confirmed' <= Len(inbox)
  <2>1. NewControl.last = 0 /\ Len(inbox) \in Nat
    BY DEF NewControl, TInv, TypeOK
  <2>2. mem'[w] = NewControl
    BY <1>1, LeaveFact DEF TInv
  <2> QED  BY <1>1, <2>1, <2>2 DEF Closes, TInv, InHand
<1>4. InHand'
  BY <1>1, <1>3, LeaveFact, HandFact DEF Closes, TInv
<1> QED  BY <1>2, <1>4 DEF TInv

(* Someone takes a copy of the file. *)
LEMMA LoadType ==
  ASSUME TInv, NEW a \in Actors, Load(a), UNCHANGED <<inbox, confirmed, control, next, upto,
         result, effects, told, seen, torn, failures>>, deliveries' \in 0..MaxDeliveries
  PROVE  TInv'
<1>1. TypeOK'
  BY DEF TInv, TypeOK, Load, Goto, Pcs
<1>2. InHand'
  BY DEF TInv, TypeOK, InHand, InHandPcs, Load, Goto, Actors
<1> QED  BY <1>1, <1>2 DEF TInv

LEMMA FetchType ==
  ASSUME TInv, NEW p \in Processors, Fetch(p) PROVE TInv'
<1>1. /\ mem[p] \in Controls /\ mem[p].last \in 0..MaxUpdates /\ p \in Actors
      /\ Len(inbox) \in 0..MaxUpdates /\ confirmed \in 0..MaxUpdates
      /\ mem[p].last <= Len(inbox) /\ confirmed <= Len(inbox)
  BY DEF TInv, TypeOK, InHand, Actors, Controls
<1>2. confirmed' \in 0..MaxUpdates /\ confirmed' <= Len(inbox)
  BY <1>1 DEF Fetch, Larger
<1>3. /\ inbox' = inbox /\ control' = control /\ effects' = effects /\ told' = told
      /\ seen' = seen /\ torn' = torn /\ overlap' = overlap /\ failures' = failures
      /\ deliveries' = deliveries
  BY DEF Fetch
<1>4. CASE confirmed' < Len(inbox)
  <2>1. /\ next' = [next EXCEPT ![p] = confirmed' + 1] /\ upto' = [upto EXCEPT ![p] = Len(inbox)]
        /\ pc' = [pc EXCEPT ![p] = "handle"] /\ mem' = mem /\ result' = result
    BY <1>4 DEF Fetch, Goto
  <2>2. confirmed' + 1 \in 0..MaxUpdates /\ confirmed' + 1 \in 1..Len(inbox)
    BY <1>1, <1>2, <1>4
  <2>3. TypeOK'
    BY <1>1, <1>2, <1>3, <2>1, <2>2 DEF TInv, TypeOK, Pcs
  <2>4. /\ next'[p] \in 1..upto'[p] /\ upto'[p] <= Len(inbox) /\ mem'[p].last <= Len(inbox)
        /\ \A b \in Actors \ {p} : pc'[b] = pc[b] /\ mem'[b] = mem[b]
        /\ \A q \in Processors \ {p} : next'[q] = next[q] /\ upto'[q] = upto[q]
    BY <1>1, <2>1, <2>2 DEF TInv, TypeOK
  <2>5. control'.last <= Len(inbox)
    BY <1>3 DEF TInv, InHand
  <2>6. InHand'
    BY <1>1, <1>2, <1>3, <2>4, <2>5, HandFact
  <2> QED  BY <2>3, <2>6 DEF TInv
<1>5. CASE ~(confirmed' < Len(inbox))
  <2>1. Leave(p)
    BY <1>5 DEF Fetch
  <2>2. TypeOK'
    BY <1>1, <1>2, <1>3, <2>1, LeaveFact DEF TInv, TypeOK
  <2>3. NewControl.last = 0
    BY DEF NewControl
  <2>4. control'.last <= Len(inbox) /\ mem'[p].last <= Len(inbox) /\ pc'[p] \notin InHandPcs
    BY <1>1, <1>3, <2>1, <2>3, LeaveFact DEF TInv, InHand, InHandPcs
  <2>5. InHand'
    BY <1>1, <1>2, <1>3, <2>1, <2>4, LeaveFact, HandFact DEF TInv
  <2> QED  BY <2>2, <2>5 DEF TInv
<1> QED  BY <1>4, <1>5

LEMMA SaveType ==
  ASSUME TInv, NEW p \in Processors, Save(p) PROVE TInv'
<1>1. TypeOK'
  BY DEF TInv, TypeOK, Save, Goto, Pcs, Actors
<1>2. InHand'
  BY DEF TInv, TypeOK, InHand, InHandPcs, Save, Goto, Actors
<1> QED  BY <1>1, <1>2 DEF TInv

(* The operator reads the answer to the update in hand. *)
LEMMA ReceiveFact ==
  ASSUME TInv, NEW p \in Processors, pc[p] = "send", Receive(p)
  PROVE  /\ told' = [told EXCEPT ![next[p]] = @ \cup {result[p]}]
         /\ told' \in [Ids -> SUBSET {"done", "failed"}]
         /\ seen' \in [0..MaxDeliveries -> SUBSET (1..Blocks)]
         /\ \A b \in 0..MaxDeliveries : seen[b] \subseteq seen'[b]
         /\ Kind(p) \in Paging =>
               (Start(mem[p], Kind(p)) + 1)..Reach(mem[p], Kind(p))
                 \subseteq seen'[Source(mem[p], Kind(p))]
         /\ \A u \in Ids : u > Len(inbox) => told'[u] = told[u]
<1>1. /\ next[p] \in 1..Len(inbox) /\ next[p] \in Ids /\ mem[p] \in Controls
      /\ Len(inbox) \in Nat
  BY InHandFact DEF InHandPcs, TInv, TypeOK
<1>2. told' = [told EXCEPT ![next[p]] = @ \cup {result[p]}]
  BY DEF Receive
<1>3. /\ told' \in [Ids -> SUBSET {"done", "failed"}]
      /\ \A u \in Ids : u > Len(inbox) => told'[u] = told[u]
  BY <1>1, <1>2 DEF TInv, TypeOK
<1>4. CASE Kind(p) \notin Paging
  BY <1>2, <1>3, <1>4 DEF Receive, TInv, TypeOK
<1>5. CASE Kind(p) \in Paging
  <2>1. PICK s \in 0..Blocks, r \in 0..Blocks, b \in 0..MaxDeliveries :
           /\ s = Start(mem[p], Kind(p)) /\ r = Reach(mem[p], Kind(p))
           /\ b = Source(mem[p], Kind(p))
    BY <1>1, <1>5, PageFact
  <2>2. seen' = [seen EXCEPT ![b] = @ \cup (s + 1)..r]
    BY <1>5, <2>1 DEF Receive
  <2>3. (s + 1)..r \in SUBSET (1..Blocks)
    OBVIOUS
  <2>4. /\ seen' \in [0..MaxDeliveries -> SUBSET (1..Blocks)]
        /\ \A e \in 0..MaxDeliveries : seen[e] \subseteq seen'[e]
        /\ (s + 1)..r \subseteq seen'[b]
    BY <2>2, <2>3 DEF TInv, TypeOK
  <2> QED  BY <1>2, <1>3, <2>1, <2>4
<1> QED  BY <1>4, <1>5

LEMMA SendType ==
  ASSUME TInv, NEW p \in Processors, Send(p) PROVE TInv'
<1>1. /\ pc[p] = "send" /\ Receive(p) /\ pc' = [pc EXCEPT ![p] = "commit"]
      /\ inbox' = inbox /\ confirmed' = confirmed /\ control' = control /\ mem' = mem
      /\ next' = next /\ upto' = upto /\ result' = result /\ effects' = effects
      /\ torn' = torn /\ overlap' = overlap /\ failures' = failures /\ deliveries' = deliveries
  BY DEF Send, Goto
<1>2. TypeOK'
  BY <1>1, ReceiveFact DEF TInv, TypeOK, Pcs
<1>3. InHand'
  BY <1>1, ReceiveFact DEF TInv, TypeOK, InHand, InHandPcs
<1> QED  BY <1>2, <1>3 DEF TInv

(* A processor ends an iteration: at its end, or because of a failure. *)
LEMMA LeavesType ==
  ASSUME TInv, NEW p \in Processors, Leave(p),
         inbox' = inbox, confirmed' = confirmed, effects' = effects, overlap' = overlap,
         control' \in {control, mem[p]}, torn' \subseteq Ids,
         deliveries' = deliveries, failures' \in 0..MaxFailures,
         told' \in [Ids -> SUBSET {"done", "failed"}],
         seen' \in [0..MaxDeliveries -> SUBSET (1..Blocks)],
         \A u \in Ids : u > Len(inbox) => told'[u] = told[u]
  PROVE  TInv'
<1>1. p \in Actors /\ mem[p] \in Controls /\ mem[p].last <= Len(inbox)
  BY DEF TInv, TypeOK, InHand, Actors
<1>2. TypeOK'
  BY <1>1, LeaveFact DEF TInv, TypeOK
<1>3. NewControl.last = 0
  BY DEF NewControl
<1>4. /\ control'.last <= Len(inbox) /\ mem'[p].last <= Len(inbox) /\ pc'[p] \notin InHandPcs
      /\ confirmed' <= Len(inbox)
  <2>1. control.last <= Len(inbox) /\ confirmed <= Len(inbox) /\ Len(inbox) \in Nat
    BY DEF TInv, TypeOK, InHand
  <2>2. mem'[p] = NewControl /\ pc'[p] = "idle"
    BY <1>1, LeaveFact DEF TInv
  <2> QED  BY <1>1, <1>3, <2>1, <2>2 DEF InHandPcs
<1>5. InHand'
  BY <1>1, <1>4, LeaveFact, HandFact DEF TInv
<1> QED  BY <1>2, <1>5 DEF TInv

(* What a failure leaves behind. *)
LEMMA RaiseFact ==
  ASSUME TInv, NEW p \in Processors, Raise(p)
  PROVE  /\ Leave(p) /\ pc[p] # "idle"
         /\ inbox' = inbox /\ confirmed' = confirmed /\ effects' = effects
         /\ overlap' = overlap /\ control' = control /\ deliveries' = deliveries
         /\ failures' \in 0..MaxFailures
         /\ torn' = IF pc[p] = "save" THEN torn \cup {next[p]} ELSE torn
         /\ torn' \subseteq Ids
         /\ (told' = told /\ seen' = seen) \/ (pc[p] = "send" /\ Receive(p))
<1>1. torn' = IF pc[p] = "save" THEN torn \cup {next[p]} ELSE torn
  BY DEF Raise
<1>2. torn' \subseteq Ids
  BY <1>1, InHandFact DEF InHandPcs, TInv, TypeOK
<1>3. failures' \in 0..MaxFailures
  BY DEF Raise, TInv, TypeOK
<1> QED  BY <1>1, <1>2, <1>3 DEF Raise

LEMMA RaiseType ==
  ASSUME TInv, NEW p \in Processors, Raise(p) PROVE TInv'
<1>1. /\ told' \in [Ids -> SUBSET {"done", "failed"}]
      /\ seen' \in [0..MaxDeliveries -> SUBSET (1..Blocks)]
      /\ \A u \in Ids : u > Len(inbox) => told'[u] = told[u]
  BY RaiseFact, ReceiveFact DEF TInv, TypeOK
<1> QED  BY <1>1, RaiseFact, LeavesType

LEMMA ArriveType ==
  ASSUME TInv, Arrive PROVE TInv'
<1>1. PICK k \in Kinds : inbox' = Append(inbox, k)
  BY DEF Arrive
<1>2. /\ inbox' \in Seq(AllKinds) /\ Len(inbox') = Len(inbox) + 1 /\ Len(inbox) \in Nat
      /\ Len(inbox') <= MaxUpdates
  BY <1>1 DEF Arrive, TInv, TypeOK
<1>3. TypeOK'
  BY <1>2 DEF Arrive, TInv, TypeOK
<1>4. /\ UNCHANGED <<confirmed, control, pc, mem, next, upto, told>>
      /\ confirmed \in Nat /\ control.last \in Nat /\ \A a \in Actors : mem[a].last \in Nat
      /\ \A p \in Processors : upto[p] \in Nat
  BY DEF Arrive, TInv, TypeOK, Controls
<1>5. \A n \in Nat : n <= Len(inbox) => n <= Len(inbox')
  BY <1>2
<1>6. \A p \in Processors : pc'[p] \in InHandPcs =>
         next'[p] \in 1..upto'[p] /\ upto'[p] <= Len(inbox')
  BY <1>4, <1>5 DEF TInv, InHand
<1>7. \A u \in Ids : u > Len(inbox') => told'[u] = {}
  <2>1. \A u \in Ids : u > Len(inbox') => u > Len(inbox)
    BY <1>2 DEF Ids
  <2> QED  BY <1>4, <2>1 DEF TInv, InHand
<1>8. InHand'
  BY <1>4, <1>5, <1>6, <1>7 DEF TInv, InHand
<1> QED  BY <1>3, <1>8 DEF TInv

LEMMA NextType == TInv /\ [Next]_vars => TInv'
<1> SUFFICES ASSUME TInv, [Next]_vars PROVE TInv'
  OBVIOUS
<1>1. CASE UNCHANGED vars
  BY <1>1 DEF vars, TInv, TypeOK, InHand
<1>2. CASE Arrive
  BY <1>2, ArriveType
<1>3. ASSUME NEW p \in Processors, Begin(p) PROVE TInv'
  <2>1. deliveries' \in 0..MaxDeliveries
    BY <1>3 DEF Begin, TInv, TypeOK
  <2> QED  BY <1>3, <2>1, LoadType DEF Begin, Actors
<1>4. ASSUME NEW p \in Processors, Fetch(p) \/ Save(p) \/ Send(p) \/ Raise(p) PROVE TInv'
  BY <1>4, FetchType, SaveType, SendType, RaiseType
<1>5. ASSUME NEW p \in Processors, Apply(p) PROVE TInv'
  BY <1>5, ApplyFact, AnswersType
<1>6. ASSUME NEW p \in Processors, Storing(p) \/ Telling(p) PROVE TInv'
  <2>1. \E c, w, r : Answers(p, c, w, r)
    BY <1>6, AnsweringFact
  <2> QED  BY <2>1, AnswersType
<1>7. ASSUME NEW p \in Processors, Skip(p) \/ Commit(p) PROVE TInv'
  <2>1. \E c : Moves(p, c)
    BY <1>7, SkipFact, CommitFact
  <2> QED  BY <2>1, MovesType
<1>8. ASSUME NEW p \in Processors, Finish(p) \/ Refuse(p) PROVE TInv'
  <2>1. /\ Leave(p) /\ inbox' = inbox /\ confirmed' = confirmed /\ effects' = effects
        /\ overlap' = overlap /\ control' \in {control, mem[p]} /\ torn' = torn
        /\ deliveries' = deliveries /\ failures' = failures /\ told' = told /\ seen' = seen
    BY <1>8 DEF Finish, Refuse
  <2>2. /\ torn' \subseteq Ids /\ failures' \in 0..MaxFailures
        /\ told' \in [Ids -> SUBSET {"done", "failed"}]
        /\ seen' \in [0..MaxDeliveries -> SUBSET (1..Blocks)]
        /\ \A u \in Ids : u > Len(inbox) => told'[u] = told[u]
    BY <2>1 DEF TInv, TypeOK
  <2> QED  BY <2>1, <2>2, LeavesType
<1>9. ASSUME NEW w \in Writers, Open(w) PROVE TInv'
  <2>1. deliveries' \in 0..MaxDeliveries
    BY <1>9 DEF Open, TInv, TypeOK
  <2> QED  BY <1>9, <2>1, LoadType DEF Open, Actors
<1>10. ASSUME NEW w \in Writers, CloseIntraday(w) \/ CloseDaily(w) PROVE TInv'
  <2>1. \E c : Closes(w, c)
    BY <1>10, CloseIntradayFact, CloseDailyFact
  <2> QED  BY <2>1, ClosesType
<1> QED  BY <1>1, <1>2, <1>3, <1>4, <1>5, <1>6, <1>7, <1>8, <1>9, <1>10
            DEF Next, Step, Storing, Telling

(* Every reachable state is well typed, and no bound is exceeded. *)
THEOREM TypeCorrect == Spec => []TypeOK
<1>1. TInv => TypeOK
  BY DEF TInv
<1> QED  BY <1>1, InitType, NextType, PTL DEF Spec

-----------------------------------------------------------------------------
(* Pages.                                                                  *)

(* The page in hand, once it was sent, was shown. *)
Shown(p) ==
    Kind(p) \in Paging =>
        (Start(mem[p], Kind(p)) + 1)..Reach(mem[p], Kind(p)) \subseteq seen[Source(mem[p], Kind(p))]

(* Every copy of the control state counts only stocks that were shown. *)
PInv ==
    /\ Backed(control) /\ \A a \in Actors : Backed(mem[a])
    /\ \A p \in Processors : pc[p] = "commit" => Shown(p)

LEMMA BackedLater ==
  ASSUME NEW c \in Controls, Backed(c),
         \A b \in 0..MaxDeliveries : seen[b] \subseteq seen'[b]
  PROVE  Backed(c)'
<1>1. c.batch \in 0..MaxDeliveries /\ 0 \in 0..MaxDeliveries
  BY DEF Controls
<1> QED  BY <1>1 DEF Backed

LEMMA BackedNew == Backed(NewControl)
<1>1. NewControl.shown = 0 /\ NewControl.batch = 0
  BY DEF NewControl
<1> QED  BY <1>1 DEF Backed

(* The counts after a page are those of stocks shown before and in it. *)
LEMMA TurnedBacked ==
  ASSUME NEW c \in Controls, NEW k \in Paging, Backed(c),
         (Start(c, k) + 1)..Reach(c, k) \subseteq seen[Source(c, k)]
  PROVE  Backed(Turned(c, k))
<1>1. /\ c.shown \in 0..Blocks /\ c.paged \in 0..Blocks /\ c.batch \in 0..MaxDeliveries
      /\ 0 \in 0..Blocks /\ 0 \in 0..MaxDeliveries
  BY DEF Controls
<1>2. Start(c, k) \in 0..Blocks /\ Reach(c, k) \in 0..Blocks
  BY PageFact
<1>3. PICK r \in 0..Blocks, s \in 0..Blocks : r = Reach(c, k) /\ s = Start(c, k)
  BY <1>2
<1>4. CASE Turned(c, k) = ClearIntraday(c)
  <2>1. PICK b \in 0..MaxDeliveries, n \in 0..Blocks : b = 0 /\ n = 0
    BY <1>1
  <2>2. Turned(c, k) = SetIntraday(c, b, n)
    BY <1>4, <2>1 DEF ClearIntraday
  <2>3. Turned(c, k).shown = c.shown /\ Turned(c, k).batch = 0
    BY <2>1, <2>2, SetIntradayFact
  <2> QED  BY <2>3 DEF Backed
<1>5. CASE OnBatch(c, k) /\ Turned(c, k) = SetIntraday(c, c.batch, Reach(c, k))
  <2>1. c.batch # 0 /\ Source(c, k) = c.batch /\ (s = 0 \/ s = c.paged)
    BY <1>3, <1>5 DEF OnBatch, Source, Start, From
  <2>2. PICK b \in 0..MaxDeliveries : b = c.batch
    BY <1>1
  <2>3. /\ Turned(c, k).shown = c.shown /\ Turned(c, k).batch = b /\ Turned(c, k).paged = r
    <3>1. Turned(c, k) = SetIntraday(c, b, r) /\ b \in 0..MaxDeliveries /\ r \in 0..Blocks
      BY <1>3, <1>5, <2>2
    <3>2. /\ SetIntraday(c, b, r).shown = c.shown /\ SetIntraday(c, b, r).batch = b
          /\ SetIntraday(c, b, r).paged = r
      BY <3>1, SetIntradayFact
    <3> QED  BY <3>1, <3>2
  <2>4. 1..s \subseteq seen[b] /\ (s + 1)..r \subseteq seen[b]
    BY <1>3, <2>1, <2>2 DEF Backed
  <2>5. 1..r \subseteq seen[b]
    BY <2>4
  <2> QED  BY <2>3, <2>5 DEF Backed
<1>6. CASE ~OnBatch(c, k) /\ Turned(c, k) = SetDelivered(c, Reach(c, k))
  <2>1. Source(c, k) = 0 /\ (s = 0 \/ s = c.shown)
    BY <1>3, <1>6 DEF Source, Start, From
  <2>2. Turned(c, k).shown = r /\ Turned(c, k).batch = 0
    <3>1. Turned(c, k) = SetDelivered(c, r) /\ r \in 0..Blocks
      BY <1>3, <1>6
    <3>2. SetDelivered(c, r).shown = r /\ SetDelivered(c, r).batch = 0
      BY <3>1, SetDeliveredFact
    <3> QED  BY <3>1, <3>2
  <2>3. 1..s \subseteq seen[0] /\ (s + 1)..r \subseteq seen[0]
    BY <1>3, <2>1 DEF Backed
  <2>4. 1..r \subseteq seen[0]
    BY <2>3
  <2> QED  BY <2>2, <2>4 DEF Backed
<1> QED  BY <1>4, <1>5, <1>6 DEF Turned

(* An actor steps, and leaves backed copies behind. *)
LEMMA PagesKept ==
  ASSUME TInv, PInv, NEW a \in Actors, inbox' = inbox,
         \A b \in Actors \ {a} : pc'[b] = pc[b] /\ mem'[b] = mem[b],
         \A q \in Processors \ {a} : next'[q] = next[q],
         \A b \in 0..MaxDeliveries : seen[b] \subseteq seen'[b],
         NEW c \in Controls, control' = c, Backed(c)',
         NEW d \in Controls, mem'[a] = d, Backed(d)',
         a \in Processors /\ pc'[a] = "commit" => Shown(a)'
  PROVE  PInv'
<1>1. Backed(control)'
  BY DEF Backed
<1>2. ASSUME NEW b \in Actors PROVE Backed(mem[b])'
  <2>1. CASE b = a
    BY <2>1 DEF Backed
  <2>2. CASE b # a
    <3>1. PICK e \in Controls : e = mem[b] /\ e = mem'[b]
      BY <2>2 DEF TInv, TypeOK
    <3>2. Backed(e)
      BY <3>1 DEF PInv
    <3>3. Backed(e)'
      BY <3>2, BackedLater
    <3> QED  BY <3>1, <3>3 DEF Backed
  <2> QED  BY <2>1, <2>2
<1>3. ASSUME NEW q \in Processors, pc'[q] = "commit" PROVE Shown(q)'
  <2>1. CASE q = a
    BY <1>3, <2>1
  <2>2. CASE q # a
    <3>1. q \in Actors \ {a}
      BY <2>2 DEF Actors
    <3>2. pc[q] = "commit" /\ mem'[q] = mem[q] /\ next'[q] = next[q]
      BY <1>3, <2>2, <3>1
    <3>3. PICK k \in AllKinds, e \in Controls : k = inbox[next[q]] /\ e = mem[q]
      BY <3>2, InHandFact DEF InHandPcs, Kind
    <3>4. k = inbox'[next'[q]] /\ e = mem'[q]
      BY <3>2, <3>3
    <3>5. k \in Paging => (Start(e, k) + 1)..Reach(e, k) \subseteq seen[Source(e, k)]
      BY <3>2, <3>3 DEF PInv, Shown, Kind
    <3>6. k \in Paging => Source(e, k) \in 0..MaxDeliveries
      BY PageFact
    <3>7. k \in Paging => (Start(e, k) + 1)..Reach(e, k) \subseteq seen'[Source(e, k)]
      BY <3>5, <3>6
    <3> QED  BY <3>4, <3>7 DEF Shown, Kind
  <2> QED  BY <2>1, <2>2
<1> QED  BY <1>1, <1>2, <1>3 DEF PInv

LEMMA InitPages == Init => PInv
<1> SUFFICES ASSUME Init PROVE PInv
  OBVIOUS
<1>1. control = NewControl /\ \A a \in Actors : mem[a] = NewControl
  BY DEF Init
<1>2. \A p \in Processors : pc[p] # "commit"
  BY DEF Init, Actors
<1> QED  BY <1>1, <1>2, BackedNew DEF PInv

(* The processor or writer is done: its copy is empty. *)
LEMMA LeavePages ==
  ASSUME TInv, PInv, NEW a \in Actors, Leave(a), inbox' = inbox,
         \A b \in 0..MaxDeliveries : seen[b] \subseteq seen'[b],
         NEW c \in Controls, control' = c, Backed(c)'
  PROVE  PInv'
<1>1. /\ \A b \in Actors \ {a} : pc'[b] = pc[b] /\ mem'[b] = mem[b]
      /\ \A q \in Processors \ {a} : next'[q] = next[q]
      /\ pc'[a] = "idle" /\ mem'[a] = NewControl
  BY LeaveFact DEF TInv
<1>2. PICK d \in Controls : d = NewControl
  <2>1. NewControl \in Controls
    BY DEF NewControl, Controls, Ids
  <2> QED  BY <2>1
<1>3. Backed(d)'
  BY <1>2, BackedNew DEF Backed, NewControl
<1> QED  BY <1>1, <1>2, <1>3, PagesKept

LEMMA LoadPages ==
  ASSUME TInv, PInv, NEW a \in Actors, Load(a),
         UNCHANGED <<inbox, control, next, seen>>
  PROVE  PInv'
<1>1. PICK c \in Controls : c = control
  BY DEF TInv, TypeOK
<1>2. Backed(c)'
  BY <1>1 DEF PInv, Backed
<1>3. /\ mem'[a] = c /\ pc'[a] = "loaded"
      /\ \A b \in Actors \ {a} : pc'[b] = pc[b] /\ mem'[b] = mem[b]
  BY <1>1 DEF Load, Goto, TInv, TypeOK
<1> QED  BY <1>1, <1>2, <1>3, PagesKept

LEMMA AnswersPages ==
  ASSUME TInv, PInv, NEW p \in Processors, NEW c, NEW w, NEW r, Answers(p, c, w, r)
  PROVE  PInv'
<1>1. p \in Actors /\ c \in Controls /\ Backed(mem[p]) /\ Backed(control)
  BY DEF Answers, PInv, Actors
<1>2. PICK d \in Controls : d = control
  BY DEF TInv, TypeOK
<1>3. Backed(c)' /\ Backed(d)' /\ control' = d
  BY <1>1, <1>2 DEF Answers, Backed
<1>4. /\ mem'[p] = c /\ pc'[p] # "commit"
      /\ \A b \in Actors \ {p} : pc'[b] = pc[b] /\ mem'[b] = mem[b]
      /\ inbox' = inbox /\ next' = next /\ seen' = seen
  BY <1>1 DEF Answers, TInv, TypeOK
<1> QED  BY <1>1, <1>2, <1>3, <1>4, PagesKept

LEMMA MovesPages ==
  ASSUME TInv, PInv, NEW p \in Processors, NEW c, Moves(p, c), Backed(c)
  PROVE  PInv'
<1>1. p \in Actors /\ c \in Controls
  BY DEF Moves, Actors
<1>2. Backed(c)' /\ control' = c
  BY DEF Moves, Backed
<1>3. /\ mem'[p] = c /\ pc'[p] # "commit"
      /\ \A b \in Actors \ {p} : pc'[b] = pc[b] /\ mem'[b] = mem[b]
      /\ inbox' = inbox /\ seen' = seen
      /\ \A q \in Processors \ {p} : next'[q] = next[q]
  BY <1>1 DEF Moves, TInv, TypeOK
<1> QED  BY <1>1, <1>2, <1>3, PagesKept

LEMMA SkipPages ==
  ASSUME TInv, PInv, NEW p \in Processors, Skip(p) PROVE PInv'
<1>1. PICK c \in Controls :
         Moves(p, c) /\ c.shown = mem[p].shown /\ c.batch = mem[p].batch
                     /\ c.paged = mem[p].paged
  BY SkipFact
<1>2. Backed(c)
  BY <1>1 DEF PInv, Backed, Actors
<1> QED  BY <1>1, <1>2, MovesPages

LEMMA CommitPages ==
  ASSUME TInv, PInv, NEW p \in Processors, Commit(p) PROVE PInv'
<1>1. PICK c \in Controls, d \in Controls :
         /\ Moves(p, c) /\ pc[p] = "commit"
         /\ d = IF Kind(p) \in Paging THEN Turned(mem[p], Kind(p)) ELSE mem[p]
         /\ c.shown = d.shown /\ c.batch = d.batch /\ c.paged = d.paged
  BY CommitFact
<1>2. Backed(mem[p]) /\ Shown(p) /\ mem[p] \in Controls
  BY <1>1, InHandFact DEF PInv, Actors, InHandPcs
<1>3. Backed(d)
  <2>1. CASE Kind(p) \in Paging
    BY <1>1, <1>2, <2>1, TurnedBacked DEF Shown
  <2>2. CASE Kind(p) \notin Paging
    BY <1>1, <1>2, <2>2
  <2> QED  BY <2>1, <2>2
<1>4. Backed(c)
  BY <1>1, <1>3 DEF Backed
<1> QED  BY <1>1, <1>4, MovesPages

LEMMA FetchPages ==
  ASSUME TInv, PInv, NEW p \in Processors, Fetch(p) PROVE PInv'
<1>1. p \in Actors /\ inbox' = inbox /\ control' = control /\ seen' = seen
  BY DEF Fetch, Actors
<1>2. PICK c \in Controls : c = control /\ c = control'
  BY <1>1 DEF TInv, TypeOK
<1>3. Backed(c)'
  BY <1>1, <1>2 DEF PInv, Backed
<1>4. CASE confirmed' < Len(inbox)
  <2>1. PICK d \in Controls : d = mem[p]
    BY <1>1 DEF TInv, TypeOK
  <2>2. /\ mem'[p] = d /\ pc'[p] = "handle"
        /\ \A b \in Actors \ {p} : pc'[b] = pc[b] /\ mem'[b] = mem[b]
        /\ \A q \in Processors \ {p} : next'[q] = next[q]
    BY <1>1, <1>4, <2>1 DEF Fetch, Goto, TInv, TypeOK
  <2>3. Backed(d)'
    BY <1>1, <2>1 DEF PInv, Backed
  <2> QED  BY <1>1, <1>2, <1>3, <2>2, <2>3, PagesKept
<1>5. CASE ~(confirmed' < Len(inbox))
  BY <1>1, <1>2, <1>3, <1>5, LeavePages DEF Fetch
<1> QED  BY <1>4, <1>5

LEMMA SavePages ==
  ASSUME TInv, PInv, NEW p \in Processors, Save(p) PROVE PInv'
<1>1. p \in Actors /\ inbox' = inbox /\ seen' = seen /\ next' = next /\ mem' = mem
  BY DEF Save, Actors
<1>2. PICK c \in Controls : c = mem[p]
  BY <1>1 DEF TInv, TypeOK
<1>3. Backed(c)'
  BY <1>1, <1>2 DEF PInv, Backed
<1>4. /\ control' = c /\ pc'[p] = "send" /\ \A b \in Actors \ {p} : pc'[b] = pc[b]
  BY <1>1, <1>2 DEF Save, Goto, TInv, TypeOK
<1> QED  BY <1>1, <1>2, <1>3, <1>4, PagesKept

LEMMA SendPages ==
  ASSUME TInv, PInv, NEW p \in Processors, Send(p) PROVE PInv'
<1>1. /\ p \in Actors /\ pc[p] = "send" /\ Receive(p)
      /\ inbox' = inbox /\ control' = control /\ mem' = mem /\ next' = next
  BY DEF Send, Actors
<1>2. PICK c \in Controls, d \in Controls : c = control /\ d = mem[p]
  BY <1>1 DEF TInv, TypeOK
<1>3. \A b \in 0..MaxDeliveries : seen[b] \subseteq seen'[b]
  BY <1>1, ReceiveFact
<1>4. Backed(c)' /\ Backed(d)'
  <2>1. Backed(c) /\ Backed(d)
    BY <1>1, <1>2 DEF PInv
  <2> QED  BY <1>3, <2>1, BackedLater
<1>5. \A b \in Actors \ {p} : pc'[b] = pc[b] /\ mem'[b] = mem[b]
  BY <1>1 DEF Send, Goto, TInv, TypeOK
<1>6. Shown(p)'
  BY <1>1, ReceiveFact DEF Shown, Kind
<1> QED  BY <1>1, <1>2, <1>3, <1>4, <1>5, <1>6, PagesKept

LEMMA RaisePages ==
  ASSUME TInv, PInv, NEW p \in Processors, Raise(p) PROVE PInv'
<1>1. /\ p \in Actors /\ Leave(p) /\ inbox' = inbox /\ control' = control
      /\ (seen' = seen \/ (pc[p] = "send" /\ Receive(p)))
  BY RaiseFact DEF Actors
<1>2. \A b \in 0..MaxDeliveries : seen[b] \subseteq seen'[b]
  BY <1>1, ReceiveFact
<1>3. PICK c \in Controls : c = control
  BY DEF TInv, TypeOK
<1>4. Backed(c)'
  BY <1>2, <1>3, BackedLater DEF PInv
<1> QED  BY <1>1, <1>2, <1>3, <1>4, LeavePages

LEMMA EndPages ==
  ASSUME TInv, PInv, NEW p \in Processors, Finish(p) \/ Refuse(p) PROVE PInv'
<1>1. /\ p \in Actors /\ Leave(p) /\ inbox' = inbox /\ seen' = seen
      /\ (control' = control \/ control' = mem[p])
  BY DEF Finish, Refuse, Actors
<1>2. PICK c \in Controls : c = control' /\ (c = control \/ c = mem[p])
  BY <1>1 DEF TInv, TypeOK
<1>3. Backed(c)'
  BY <1>1, <1>2 DEF PInv, Backed
<1> QED  BY <1>1, <1>2, <1>3, LeavePages

LEMMA ClosePages ==
  ASSUME TInv, PInv, NEW w \in Writers, CloseIntraday(w) \/ CloseDaily(w) PROVE PInv'
<1>1. w \in Actors /\ Backed(mem[w])
  BY DEF PInv, Actors
<1>2. PICK c \in Controls : Closes(w, c) /\ (Backed(mem[w]) => Backed(c)')
  BY CloseIntradayFact, CloseDailyFact
<1>3. /\ Leave(w) /\ inbox' = inbox /\ control' = c
      /\ \A b \in 0..MaxDeliveries : seen[b] \subseteq seen'[b]
  BY <1>2 DEF Closes
<1> QED  BY <1>1, <1>2, <1>3, LeavePages

LEMMA ArrivePages ==
  ASSUME TInv, PInv, Arrive PROVE PInv'
<1>1. UNCHANGED <<control, pc, mem, next, seen>>
  BY DEF Arrive
<1>2. ASSUME NEW p \in Processors, pc[p] = "commit" PROVE Kind(p)' = Kind(p)
  <2>1. next[p] \in 1..Len(inbox)
    BY <1>2, InHandFact DEF InHandPcs
  <2>2. PICK k \in Kinds : inbox' = Append(inbox, k)
    BY DEF Arrive
  <2>3. inbox'[next[p]] = inbox[next[p]]
    BY <2>1, <2>2 DEF TInv, TypeOK
  <2> QED  BY <1>1, <2>3 DEF Kind
<1> QED  BY <1>1, <1>2 DEF PInv, Backed, Shown

LEMMA NextPages == TInv /\ PInv /\ [Next]_vars => PInv'
<1> SUFFICES ASSUME TInv, PInv, [Next]_vars PROVE PInv'
  OBVIOUS
<1>1. CASE UNCHANGED vars
  BY <1>1 DEF vars, PInv, Backed, Shown, Kind
<1>2. CASE Arrive
  BY <1>2, ArrivePages
<1>3. ASSUME NEW p \in Processors, Begin(p) PROVE PInv'
  BY <1>3, LoadPages DEF Begin, Actors
<1>4. ASSUME NEW p \in Processors, Fetch(p) \/ Save(p) \/ Send(p) \/ Raise(p) PROVE PInv'
  BY <1>4, FetchPages, SavePages, SendPages, RaisePages
<1>5. ASSUME NEW p \in Processors, Apply(p) PROVE PInv'
  BY <1>5, ApplyFact, AnswersPages
<1>6. ASSUME NEW p \in Processors, Storing(p) \/ Telling(p) PROVE PInv'
  <2>1. \E c, w, r : Answers(p, c, w, r)
    BY <1>6, AnsweringFact
  <2> QED  BY <2>1, AnswersPages
<1>7. ASSUME NEW p \in Processors, Skip(p) \/ Commit(p) PROVE PInv'
  BY <1>7, SkipPages, CommitPages
<1>8. ASSUME NEW p \in Processors, Finish(p) \/ Refuse(p) PROVE PInv'
  BY <1>8, EndPages
<1>9. ASSUME NEW w \in Writers, Open(w) PROVE PInv'
  BY <1>9, LoadPages DEF Open, Actors
<1>10. ASSUME NEW w \in Writers, CloseIntraday(w) \/ CloseDaily(w) PROVE PInv'
  BY <1>10, ClosePages
<1> QED  BY <1>1, <1>2, <1>3, <1>4, <1>5, <1>6, <1>7, <1>8, <1>9, <1>10
            DEF Next, Step, Storing, Telling

(* /next leaves no stock out, whatever writes the control file, and in     *)
(* whatever order deliveries and the processor overwrite each other.       *)
THEOREM NoPageIsSkippedAlways == Spec => []NoPageIsSkipped
<1>1. TInv /\ PInv => NoPageIsSkipped
  BY DEF PInv, Backed, NoPageIsSkipped
<1> QED  BY <1>1, InitType, NextType, InitPages, NextPages, PTL DEF Spec

-----------------------------------------------------------------------------
(* The updates that are passed.                                            *)

Handled(u) == inbox[u] \in {"other", "image"} \/ told[u] # {}

(* A control state passes handled updates only, and marks stored ones only. *)
Fine(c) ==
    /\ \A u \in 1..Len(inbox) : u <= c.last => Handled(u)
    /\ \A u \in ToSet(c.tasks) \cup ToSet(c.photos) : effects[u] > 0

(* So does a processor, which says done of what is stored only. *)
Held(p) ==
    /\ pc[p] \in InHandPcs => \A u \in 1..Len(inbox) : u < next[p] => Handled(u)
    /\ pc[p] = "commit" => told[next[p]] # {}
    /\ pc[p] \in {"save", "send", "commit"} =>
          (Kind(p) \in {"task", "captioned"} /\ result[p] = "done" => effects[next[p]] > 0)

Truthful ==
    \A u \in 1..Len(inbox) :
        inbox[u] \in {"task", "captioned"} /\ "done" \in told[u] => effects[u] > 0

HInv ==
    /\ \A u \in 1..Len(inbox) : u <= confirmed => Handled(u)
    /\ Fine(control) /\ \A a \in Actors : Fine(mem[a])
    /\ \A p \in Processors : Held(p)
    /\ Truthful

(* What happened stays so. *)
Grows ==
    /\ inbox' = inbox
    /\ \A u \in Ids : told[u] \subseteq told'[u]
    /\ \A u \in Ids : effects'[u] \in Nat /\ effects'[u] >= effects[u]

LEMMA InboxFact ==
  ASSUME TInv
  PROVE  /\ Len(inbox) \in Nat /\ 1..Len(inbox) \subseteq Ids
         /\ \A u \in Ids : effects[u] \in Nat
BY DEF TInv, TypeOK, Ids

LEMMA HandledLater ==
  ASSUME TInv, Grows, NEW u \in 1..Len(inbox), Handled(u)
  PROVE  Handled(u)'
<1>1. u \in Ids
  BY InboxFact
<1> QED  BY <1>1 DEF Grows, Handled

LEMMA FineLater ==
  ASSUME TInv, Grows, NEW c \in Controls, Fine(c)
  PROVE  Fine(c)'
<1>1. \A u \in 1..Len(inbox') : u <= c.last => Handled(u)'
  BY HandledLater DEF Fine, Grows
<1>2. ToSet(c.tasks) \subseteq Ids /\ ToSet(c.photos) \subseteq Ids
  BY DEF Controls, ToSet
<1>3. ASSUME NEW u \in ToSet(c.tasks) \cup ToSet(c.photos) PROVE effects'[u] > 0
  <2>1. u \in Ids /\ effects[u] > 0
    BY <1>2 DEF Fine
  <2> QED  BY <2>1, InboxFact DEF Grows
<1> QED  BY <1>1, <1>3 DEF Fine

LEMMA FineNew == ASSUME TInv PROVE Fine(NewControl)
<1>1. NewControl.last = 0 /\ ToSet(NewControl.tasks) = {} /\ ToSet(NewControl.photos) = {}
  BY DEF NewControl, ToSet
<1>2. \A u \in 1..Len(inbox) : ~(u <= 0)
  BY InboxFact
<1> QED  BY <1>1, <1>2 DEF Fine

LEMMA HeldLater ==
  ASSUME TInv, HInv, Grows, NEW q \in Processors, pc'[q] = pc[q], next'[q] = next[q],
         result'[q] = result[q]
  PROVE  Held(q)'
<1>1. ASSUME pc[q] \in InHandPcs
      PROVE  next[q] \in Ids /\ next[q] \in 1..Len(inbox) /\ Kind(q)' = Kind(q)
  <2>1. next[q] \in Ids /\ next[q] \in 1..Len(inbox)
    BY <1>1, InHandFact
  <2>2. inbox'[next'[q]] = inbox[next[q]]
    BY DEF Grows
  <2> QED  BY <2>1, <2>2 DEF Kind
<1>2. Held(q)
  BY DEF HInv
<1>3. (pc[q] \in InHandPcs => \A u \in 1..Len(inbox) : u < next[q] => Handled(u))'
  <2> SUFFICES ASSUME pc[q] \in InHandPcs, NEW u \in 1..Len(inbox), u < next[q]
               PROVE  Handled(u)'
    BY DEF Grows
  <2>1. Handled(u)
    BY <1>2 DEF Held
  <2> QED  BY <2>1, HandledLater
<1>4. (pc[q] = "commit" => told[next[q]] # {})'
  BY <1>1, <1>2 DEF Held, Grows, InHandPcs
<1>5. (pc[q] \in {"save", "send", "commit"} =>
          (Kind(q) \in {"task", "captioned"} /\ result[q] = "done" => effects[next[q]] > 0))'
  <2> SUFFICES ASSUME pc[q] \in {"save", "send", "commit"}, Kind(q)' \in {"task", "captioned"},
                      result[q] = "done"
               PROVE  effects'[next[q]] > 0
    OBVIOUS
  <2>1. next[q] \in Ids /\ Kind(q)' = Kind(q)
    BY <1>1 DEF InHandPcs
  <2>2. effects[next[q]] > 0
    BY <1>2, <2>1 DEF Held
  <2> QED  BY <2>1, <2>2, InboxFact DEF Grows
<1> QED  BY <1>3, <1>4, <1>5 DEF Held

(* An actor steps, and leaves fine copies behind. *)
LEMMA HandledKept ==
  ASSUME TInv, HInv, Grows, NEW a \in Actors,
         \A b \in Actors \ {a} : pc'[b] = pc[b] /\ mem'[b] = mem[b],
         \A q \in Processors \ {a} : next'[q] = next[q] /\ result'[q] = result[q],
         \A u \in 1..Len(inbox) : u <= confirmed' => Handled(u)',
         NEW c \in Controls, control' = c, Fine(c)',
         NEW d \in Controls, mem'[a] = d, Fine(d)',
         a \in Processors => Held(a)',
         Truthful'
  PROVE  HInv'
<1>1. Fine(control)'
  BY DEF Fine
<1>2. ASSUME NEW b \in Actors PROVE Fine(mem[b])'
  <2>1. CASE b = a
    BY <2>1 DEF Fine
  <2>2. CASE b # a
    <3>1. PICK e \in Controls : e = mem[b] /\ e = mem'[b]
      BY <2>2 DEF TInv, TypeOK
    <3>2. Fine(e)'
      BY <3>1, FineLater DEF HInv
    <3> QED  BY <3>1, <3>2 DEF Fine
  <2> QED  BY <2>1, <2>2
<1>3. ASSUME NEW q \in Processors PROVE Held(q)'
  <2>1. CASE q = a
    BY <2>1
  <2>2. CASE q # a
    BY <2>2, HeldLater DEF Actors
  <2> QED  BY <2>1, <2>2
<1>4. (\A u \in 1..Len(inbox) : u <= confirmed => Handled(u))'
  BY DEF Grows
<1> QED  BY <1>1, <1>2, <1>3, <1>4 DEF HInv

LEMMA InitHandled == Init => HInv
<1> SUFFICES ASSUME Init PROVE HInv
  OBVIOUS
<1>1. control = NewControl /\ \A a \in Actors : mem[a] = NewControl
  BY DEF Init
<1>2. \A p \in Processors : pc[p] = "idle"
  BY DEF Init, Actors
<1>3. 1..Len(inbox) = {}
  BY DEF Init
<1>4. Fine(NewControl)
  BY InitType, FineNew
<1> QED  BY <1>1, <1>2, <1>3, <1>4 DEF HInv, Held, InHandPcs, Truthful

(* A step that stores and tells nothing. *)
LEMMA SilentFact ==
  ASSUME TInv, HInv, inbox' = inbox, told' = told, effects' = effects
  PROVE  Grows /\ Truthful'
BY InboxFact DEF Grows, Truthful, HInv

(* The processor or writer is done: its copy is empty. *)
LEMMA LeaveHandled ==
  ASSUME TInv, HInv, Grows, Truthful', NEW a \in Actors, Leave(a),
         \A u \in 1..Len(inbox) : u <= confirmed' => Handled(u)',
         NEW c \in Controls, control' = c, Fine(c)'
  PROVE  HInv'
<1>1. /\ \A b \in Actors \ {a} : pc'[b] = pc[b] /\ mem'[b] = mem[b]
      /\ \A q \in Processors \ {a} : next'[q] = next[q] /\ result'[q] = result[q]
      /\ pc'[a] = "idle" /\ mem'[a] = NewControl
  BY LeaveFact DEF TInv
<1>2. PICK d \in Controls : d = NewControl
  <2>1. NewControl \in Controls
    BY DEF NewControl, Controls, Ids
  <2> QED  BY <2>1
<1>3. Fine(d)'
  BY <1>2, FineNew, FineLater
<1>4. Held(a)'
  BY <1>1 DEF Held, InHandPcs
<1> QED  BY <1>1, <1>2, <1>3, <1>4, HandledKept

(* What the server had forgotten before. *)
LEMMA ConfirmedFact ==
  ASSUME TInv, HInv, Grows, confirmed' = confirmed
  PROVE  \A u \in 1..Len(inbox) : u <= confirmed' => Handled(u)'
BY HandledLater DEF HInv

LEMMA LoadHandled ==
  ASSUME TInv, HInv, NEW a \in Actors, Load(a),
         UNCHANGED <<inbox, confirmed, control, next, result, told, effects>>
  PROVE  HInv'
<1>1. PICK c \in Controls : c = control
  BY DEF TInv, TypeOK
<1>2. Grows /\ Truthful'
  BY SilentFact
<1>3. Fine(c)'
  BY <1>1, <1>2, FineLater DEF HInv
<1>4. /\ mem'[a] = c /\ pc'[a] = "loaded"
      /\ \A b \in Actors \ {a} : pc'[b] = pc[b] /\ mem'[b] = mem[b]
  BY <1>1 DEF Load, Goto, TInv, TypeOK
<1>5. Held(a)'
  BY <1>4 DEF Held, InHandPcs
<1> QED  BY <1>1, <1>2, <1>3, <1>4, <1>5, HandledKept, ConfirmedFact

(* A processor handles the update in hand, and stores it or does not. *)
LEMMA AnswersHandled ==
  ASSUME TInv, HInv, NEW p \in Processors, NEW c, NEW w, NEW r, Answers(p, c, w, r),
         ToSet(c.tasks) \cup ToSet(c.photos)
            \subseteq ToSet(mem[p].tasks) \cup ToSet(mem[p].photos) \cup {next[p]},
         next[p] \in ToSet(c.tasks) \cup ToSet(c.photos) \/
            (Kind(p) \in {"task", "captioned"} /\ r = "done") => effects'[next[p]] > 0
  PROVE  HInv'
<1>1. /\ p \in Actors /\ c \in Controls /\ pc[p] = "handle"
      /\ next[p] \in 1..Len(inbox) /\ mem[p] \in Controls
  BY InHandFact DEF Answers, InHandPcs
<1>2. Grows /\ Truthful'
  <2>1. Grows
    BY DEF Answers, Grows, TInv, TypeOK
  <2>2. ASSUME NEW u \in 1..Len(inbox), inbox[u] \in {"task", "captioned"}, "done" \in told[u]
        PROVE  effects'[u] > 0
    <3>1. effects[u] > 0 /\ u \in Ids
      BY <2>2, InboxFact DEF HInv, Truthful
    <3> QED  BY <2>1, <3>1, InboxFact DEF Grows
  <2> QED  BY <2>1, <2>2 DEF Truthful, Answers
<1>3. PICK e \in Controls, n \in Ids : e = mem[p] /\ n = next[p]
  BY <1>1, InboxFact
<1>4. Fine(e)'
  BY <1>2, <1>3, FineLater DEF HInv, Actors
<1>5. Fine(c)'
  <2>1. \A u \in 1..Len(inbox') : u <= c.last => Handled(u)'
    BY <1>3, <1>4 DEF Fine, Answers
  <2>2. ASSUME NEW u \in ToSet(c.tasks) \cup ToSet(c.photos) PROVE effects'[u] > 0
    <3>1. CASE u = n
      BY <1>3, <2>2, <3>1
    <3>2. CASE u # n
      BY <1>3, <1>4, <2>2, <3>2 DEF Fine
    <3> QED  BY <3>1, <3>2
  <2> QED  BY <2>1, <2>2 DEF Fine
<1>6. PICK d \in Controls : d = control /\ d = control'
  BY DEF Answers, TInv, TypeOK
<1>7. Fine(d)'
  BY <1>2, <1>6, FineLater DEF HInv
<1>8. /\ mem'[p] = c /\ pc'[p] = w /\ result'[p] = r /\ w \in {"save", "send"}
      /\ \A b \in Actors \ {p} : pc'[b] = pc[b] /\ mem'[b] = mem[b]
      /\ \A q \in Processors \ {p} : next'[q] = next[q] /\ result'[q] = result[q]
      /\ inbox' = inbox /\ next' = next /\ confirmed' = confirmed /\ told' = told
  BY <1>1 DEF Answers, TInv, TypeOK
<1>9. Held(p)'
  <2>1. \A u \in 1..Len(inbox) : u < next[p] => Handled(u)
    BY <1>1 DEF HInv, Held, InHandPcs
  <2>2. \A u \in 1..Len(inbox) : u < next[p] => Handled(u)'
    BY <1>2, <2>1, HandledLater
  <2>3. Kind(p)' = Kind(p)
    BY <1>8 DEF Kind
  <2> QED  BY <1>8, <2>2, <2>3 DEF Held
<1> QED  BY <1>1, <1>2, <1>5, <1>6, <1>7, <1>8, <1>9, HandledKept, ConfirmedFact

LEMMA ApplyHandled ==
  ASSUME TInv, HInv, NEW p \in Processors, Apply(p) PROVE HInv'
<1>1. PICK c \in Controls :
        /\ Answers(p, c, "save", "done")
        /\ ToSet(c.tasks) \subseteq ToSet(mem[p].tasks) \cup {next[p]}
        /\ ToSet(c.photos) \subseteq ToSet(mem[p].photos) \cup {next[p]}
        /\ effects' = [effects EXCEPT ![next[p]] = @ + 1]
  BY ApplyFact
<1>2. next[p] \in Ids /\ effects \in [Ids -> Nat]
  BY <1>1, InHandFact DEF Answers, InHandPcs, TInv, TypeOK
<1>3. effects'[next[p]] > 0
  BY <1>1, <1>2
<1> QED  BY <1>1, <1>3, AnswersHandled

LEMMA AnsweringHandled ==
  ASSUME TInv, HInv, NEW p \in Processors, Storing(p) \/ Telling(p) PROVE HInv'
<1>1. PICK c \in Controls, w \in {"save", "send"}, r \in {"done", "failed"} :
        /\ Answers(p, c, w, r) /\ effects' = effects /\ SameMarks(c, mem[p])
        /\ Kind(p) = "task" /\ r = "done" => MarkedIn(mem[p], next[p])
        /\ Kind(p) \in {"image", "captioned"} => MarkedIn(mem[p], next[p])
  BY AnsweringFact
<1>2. \A u \in ToSet(mem[p].tasks) \cup ToSet(mem[p].photos) : effects[u] > 0
  BY DEF HInv, Fine, Actors
<1>3. MarkedIn(mem[p], next[p]) => effects[next[p]] > 0
  BY <1>2 DEF MarkedIn
<1>4. next[p] \in ToSet(c.tasks) \cup ToSet(c.photos) => effects[next[p]] > 0
  BY <1>1, <1>2 DEF SameMarks
<1>5. Kind(p) \in {"task", "captioned"} /\ r = "done" => effects[next[p]] > 0
  BY <1>1, <1>3
<1> QED  BY <1>1, <1>4, <1>5, AnswersHandled DEF SameMarks

LEMMA MovesHandled ==
  ASSUME TInv, HInv, NEW p \in Processors, NEW c, Moves(p, c), Handled(next[p])
  PROVE  HInv'
<1>1. /\ p \in Actors /\ c \in Controls /\ pc[p] \in InHandPcs
      /\ next[p] \in 1..Len(inbox) /\ mem[p] \in Controls
  BY InHandFact DEF Moves, InHandPcs
<1>2. Grows /\ Truthful'
  BY SilentFact DEF Moves
<1>3. \A u \in 1..Len(inbox) : u <= next[p] => Handled(u)'
  <2> SUFFICES ASSUME NEW u \in 1..Len(inbox), u <= next[p] PROVE Handled(u)'
    OBVIOUS
  <2>1. u < next[p] \/ u = next[p]
    BY <1>1
  <2>2. Handled(u)
    BY <1>1, <2>1 DEF HInv, Held
  <2> QED  BY <1>2, <2>2, HandledLater
<1>4. PICK e \in Controls : e = mem[p]
  BY <1>1
<1>5. Fine(e)'
  BY <1>1, <1>2, <1>4, FineLater DEF HInv
<1>6. Fine(c)'
  <2>1. c.last = e.last \/ c.last = next[p]
    BY <1>4 DEF Moves, Larger
  <2>2. \A u \in 1..Len(inbox') : u <= c.last => Handled(u)'
    BY <1>3, <1>5, <2>1 DEF Fine, Moves
  <2> QED  BY <1>4, <1>5, <2>2 DEF Fine, Moves, SameMarks
<1>7. /\ mem'[p] = c /\ pc'[p] \in {"handle", "finish"}
      /\ \A b \in Actors \ {p} : pc'[b] = pc[b] /\ mem'[b] = mem[b]
      /\ \A q \in Processors \ {p} : next'[q] = next[q] /\ result'[q] = result[q]
      /\ next'[p] \in {next[p], next[p] + 1}
      /\ inbox' = inbox /\ confirmed' = confirmed /\ control' = c
  BY <1>1 DEF Moves, TInv, TypeOK
<1>8. Held(p)'
  <2>1. \A u \in 1..Len(inbox) : u < next'[p] => u <= next[p]
    BY <1>1, <1>7
  <2> QED  BY <1>3, <1>7, <2>1 DEF Held
<1> QED  BY <1>1, <1>2, <1>6, <1>7, <1>8, HandledKept, ConfirmedFact

LEMMA SkipHandled ==
  ASSUME TInv, HInv, NEW p \in Processors, Skip(p) PROVE HInv'
<1>1. PICK c \in Controls : Moves(p, c) /\ Kind(p) \in {"other", "image"}
  BY SkipFact
<1>2. Handled(next[p])
  BY <1>1 DEF Handled, Kind
<1> QED  BY <1>1, <1>2, MovesHandled

LEMMA CommitHandled ==
  ASSUME TInv, HInv, NEW p \in Processors, Commit(p) PROVE HInv'
<1>1. PICK c \in Controls : Moves(p, c) /\ pc[p] = "commit"
  BY CommitFact
<1>2. Handled(next[p])
  BY <1>1 DEF HInv, Held, Handled
<1> QED  BY <1>1, <1>2, MovesHandled

LEMMA FetchHandled ==
  ASSUME TInv, HInv, NEW p \in Processors, Fetch(p) PROVE HInv'
<1>1. /\ p \in Actors /\ inbox' = inbox /\ control' = control /\ told' = told
      /\ effects' = effects /\ confirmed' = Larger(confirmed, mem[p].last)
  BY DEF Fetch, Actors
<1>2. Grows /\ Truthful'
  BY <1>1, SilentFact
<1>3. \A u \in 1..Len(inbox) : u <= confirmed' => Handled(u)'
  <2> SUFFICES ASSUME NEW u \in 1..Len(inbox), u <= confirmed' PROVE Handled(u)'
    OBVIOUS
  <2>1. u <= confirmed \/ u <= mem[p].last
    BY <1>1 DEF Larger
  <2>2. Handled(u)
    BY <1>1, <2>1 DEF HInv, Fine
  <2> QED  BY <1>2, <2>2, HandledLater
<1>4. PICK c \in Controls : c = control /\ c = control'
  BY <1>1 DEF TInv, TypeOK
<1>5. Fine(c)'
  BY <1>2, <1>4, FineLater DEF HInv
<1>6. CASE confirmed' < Len(inbox)
  <2>1. PICK d \in Controls : d = mem[p]
    BY <1>1 DEF TInv, TypeOK
  <2>2. Fine(d)'
    BY <1>1, <1>2, <2>1, FineLater DEF HInv
  <2>3. /\ mem'[p] = d /\ pc'[p] = "handle" /\ next'[p] = confirmed' + 1 /\ result' = result
        /\ \A b \in Actors \ {p} : pc'[b] = pc[b] /\ mem'[b] = mem[b]
        /\ \A q \in Processors \ {p} : next'[q] = next[q]
    BY <1>1, <1>6, <2>1 DEF Fetch, Goto, TInv, TypeOK
  <2>4. confirmed' \in Nat
    BY <1>1, <2>1 DEF Larger, TInv, TypeOK, Controls
  <2>5. Held(p)'
    <3>1. \A u \in 1..Len(inbox) : u < next'[p] => u <= confirmed'
      BY <2>3, <2>4
    <3> QED  BY <1>1, <1>3, <2>3, <3>1 DEF Held
  <2> QED  BY <1>1, <1>2, <1>3, <1>4, <1>5, <2>2, <2>3, <2>5, HandledKept
<1>7. CASE ~(confirmed' < Len(inbox))
  BY <1>1, <1>2, <1>3, <1>4, <1>5, <1>7, LeaveHandled DEF Fetch
<1> QED  BY <1>6, <1>7

LEMMA SaveHandled ==
  ASSUME TInv, HInv, NEW p \in Processors, Save(p) PROVE HInv'
<1>1. /\ p \in Actors /\ inbox' = inbox /\ told' = told /\ effects' = effects
      /\ next' = next /\ result' = result /\ mem' = mem /\ confirmed' = confirmed
      /\ pc[p] = "save" /\ control' = mem[p] /\ pc' = [pc EXCEPT ![p] = "send"]
  BY DEF Save, Goto, Actors
<1>2. Grows /\ Truthful'
  BY <1>1, SilentFact
<1>3. PICK c \in Controls : c = mem[p]
  BY <1>1 DEF TInv, TypeOK
<1>4. Fine(c)'
  BY <1>1, <1>2, <1>3, FineLater DEF HInv
<1>5. pc'[p] = "send" /\ \A b \in Actors \ {p} : pc'[b] = pc[b]
  BY <1>1 DEF TInv, TypeOK
<1>6. Held(p)'
  BY <1>1, <1>5 DEF HInv, Held, Handled, Kind, InHandPcs
<1> QED  BY <1>1, <1>2, <1>3, <1>4, <1>5, <1>6, HandledKept, ConfirmedFact

(* What the operator is told of a stored effect is true. *)
LEMMA ReceiveHandled ==
  ASSUME TInv, HInv, NEW p \in Processors, pc[p] = "send", Receive(p),
         inbox' = inbox, effects' = effects
  PROVE  Grows /\ Truthful' /\ told'[next[p]] # {}
<1>1. next[p] \in 1..Len(inbox) /\ next[p] \in Ids
  BY InHandFact DEF InHandPcs
<1>2. told' = [told EXCEPT ![next[p]] = @ \cup {result[p]}] /\ told \in [Ids -> SUBSET {"done", "failed"}]
  BY ReceiveFact DEF TInv, TypeOK
<1>3. Grows
  BY <1>2, InboxFact DEF Grows
<1>4. ASSUME NEW u \in 1..Len(inbox), inbox[u] \in {"task", "captioned"}, "done" \in told'[u]
      PROVE  effects[u] > 0
  <2>1. u \in Ids
    BY InboxFact
  <2>2. CASE "done" \in told[u]
    BY <1>4, <2>2 DEF HInv, Truthful
  <2>3. CASE u = next[p] /\ result[p] = "done"
    BY <1>4, <2>3 DEF HInv, Held, Kind
  <2> QED  BY <1>2, <1>4, <2>1, <2>2, <2>3
<1>5. told'[next[p]] # {}
  BY <1>1, <1>2
<1> QED  BY <1>3, <1>4, <1>5 DEF Truthful

LEMMA SendHandled ==
  ASSUME TInv, HInv, NEW p \in Processors, Send(p) PROVE HInv'
<1>1. /\ p \in Actors /\ pc[p] = "send" /\ Receive(p) /\ inbox' = inbox /\ control' = control
      /\ mem' = mem /\ next' = next /\ result' = result /\ effects' = effects
      /\ confirmed' = confirmed /\ pc' = [pc EXCEPT ![p] = "commit"]
  BY DEF Send, Goto, Actors
<1>2. Grows /\ Truthful' /\ told'[next[p]] # {}
  BY <1>1, ReceiveHandled
<1>3. PICK c \in Controls, d \in Controls : c = control /\ d = mem[p]
  BY <1>1 DEF TInv, TypeOK
<1>4. Fine(c)' /\ Fine(d)'
  BY <1>1, <1>2, <1>3, FineLater DEF HInv
<1>5. pc'[p] = "commit" /\ \A b \in Actors \ {p} : pc'[b] = pc[b]
  BY <1>1 DEF TInv, TypeOK
<1>6. Held(p)'
  <2>1. Held(p)
    BY DEF HInv
  <2>2. \A u \in 1..Len(inbox) : u < next[p] => Handled(u)'
    BY <1>1, <1>2, <2>1, HandledLater DEF Held, InHandPcs
  <2>3. Kind(p)' = Kind(p)
    BY <1>1 DEF Kind
  <2> QED  BY <1>1, <1>2, <1>5, <2>1, <2>2, <2>3 DEF Held
<1> QED  BY <1>1, <1>2, <1>3, <1>4, <1>5, <1>6, HandledKept, ConfirmedFact

LEMMA RaiseHandled ==
  ASSUME TInv, HInv, NEW p \in Processors, Raise(p) PROVE HInv'
<1>1. /\ p \in Actors /\ Leave(p) /\ inbox' = inbox /\ control' = control
      /\ confirmed' = confirmed /\ effects' = effects
      /\ told' = told \/ (pc[p] = "send" /\ Receive(p))
  BY RaiseFact DEF Actors
<1>2. Grows /\ Truthful'
  BY <1>1, SilentFact, ReceiveHandled
<1>3. PICK c \in Controls : c = control /\ c = control'
  BY <1>1 DEF TInv, TypeOK
<1>4. Fine(c)'
  BY <1>2, <1>3, FineLater DEF HInv
<1> QED  BY <1>1, <1>2, <1>3, <1>4, LeaveHandled, ConfirmedFact

LEMMA EndHandled ==
  ASSUME TInv, HInv, NEW p \in Processors, Finish(p) \/ Refuse(p) PROVE HInv'
<1>1. /\ p \in Actors /\ Leave(p) /\ inbox' = inbox /\ told' = told /\ effects' = effects
      /\ confirmed' = confirmed /\ (control' = control \/ control' = mem[p])
  BY DEF Finish, Refuse, Actors
<1>2. Grows /\ Truthful'
  BY <1>1, SilentFact
<1>3. PICK c \in Controls : c = control' /\ (c = control \/ c = mem[p])
  BY <1>1 DEF TInv, TypeOK
<1>4. Fine(c)'
  BY <1>1, <1>2, <1>3, FineLater DEF HInv
<1> QED  BY <1>1, <1>2, <1>3, <1>4, LeaveHandled, ConfirmedFact

LEMMA CloseHandled ==
  ASSUME TInv, HInv, NEW w \in Writers, CloseIntraday(w) \/ CloseDaily(w) PROVE HInv'
<1>1. w \in Actors
  BY DEF Actors
<1>2. PICK c \in Controls : Closes(w, c)
  BY CloseIntradayFact, CloseDailyFact
<1>3. /\ Leave(w) /\ inbox' = inbox /\ told' = told /\ effects' = effects
      /\ confirmed' = confirmed /\ control' = c
      /\ c.last = mem[w].last /\ SameMarks(c, mem[w])
  BY <1>2 DEF Closes
<1>4. Grows /\ Truthful'
  BY <1>3, SilentFact
<1>5. Fine(c)
  BY <1>1, <1>3 DEF HInv, Fine, SameMarks
<1>6. Fine(c)'
  BY <1>4, <1>5, FineLater
<1> QED  BY <1>1, <1>2, <1>3, <1>4, <1>6, LeaveHandled, ConfirmedFact

LEMMA ArriveHandled ==
  ASSUME TInv, HInv, Arrive PROVE HInv'
<1>1. UNCHANGED <<confirmed, control, pc, mem, next, result, told, effects>>
  BY DEF Arrive
<1>2. PICK k \in Kinds : inbox' = Append(inbox, k)
  BY DEF Arrive
<1>3. /\ Len(inbox) \in Nat /\ Len(inbox') = Len(inbox) + 1
      /\ \A u \in 1..Len(inbox) : inbox'[u] = inbox[u]
  BY <1>2 DEF TInv, TypeOK
<1>4. \A u \in 1..Len(inbox') : u \in 1..Len(inbox) \/ u = Len(inbox) + 1
  BY <1>3
<1>5. \A u \in 1..Len(inbox) : Handled(u) => Handled(u)'
  BY <1>1, <1>3 DEF Handled
<1>6. ASSUME NEW n \in Nat, n <= Len(inbox), \A u \in 1..Len(inbox) : u <= n => Handled(u)
      PROVE  \A u \in 1..Len(inbox') : u <= n => Handled(u)'
  BY <1>3, <1>4, <1>5, <1>6
<1>7. (\A u \in 1..Len(inbox) : u <= confirmed => Handled(u))'
  <2>1. confirmed \in Nat /\ confirmed <= Len(inbox)
    BY DEF TInv, TypeOK, InHand
  <2> QED  BY <1>1, <1>6, <2>1 DEF HInv
<1>8. ASSUME NEW c \in Controls, Fine(c), c.last <= Len(inbox) PROVE Fine(c)'
  <2>1. c.last \in Nat
    BY DEF Controls
  <2>2. \A u \in 1..Len(inbox') : u <= c.last => Handled(u)'
    BY <1>6, <1>8, <2>1 DEF Fine
  <2> QED  BY <1>1, <1>8, <2>2 DEF Fine
<1>9. Fine(control)'
  <2>1. PICK c \in Controls : c = control
    BY DEF TInv, TypeOK
  <2>2. Fine(c)'
    BY <1>8, <2>1 DEF HInv, TInv, InHand
  <2> QED  BY <1>1, <2>1, <2>2 DEF Fine
<1>10. ASSUME NEW a \in Actors PROVE Fine(mem[a])'
  <2>1. PICK c \in Controls : c = mem[a]
    BY DEF TInv, TypeOK
  <2>2. Fine(c)'
    BY <1>8, <2>1 DEF HInv, TInv, InHand
  <2> QED  BY <1>1, <2>1, <2>2 DEF Fine
<1>11. ASSUME NEW p \in Processors PROVE Held(p)'
  <2>1. Held(p)
    BY DEF HInv
  <2>2. CASE pc[p] \in InHandPcs
    <3>1. next[p] \in 1..Len(inbox)
      BY <2>2, InHandFact
    <3>2. Kind(p)' = Kind(p)
      BY <1>1, <1>3, <3>1 DEF Kind
    <3>3. next[p] - 1 \in Nat /\ next[p] - 1 <= Len(inbox)
      BY <1>3, <3>1
    <3>4. \A u \in 1..Len(inbox) : u <= next[p] - 1 => Handled(u)
      BY <2>1, <2>2, <3>1 DEF Held
    <3>5. \A u \in 1..Len(inbox') : u <= next[p] - 1 => Handled(u)'
      BY <1>6, <3>3, <3>4
    <3>6. \A u \in 1..Len(inbox') : u < next[p] => Handled(u)'
      BY <3>1, <3>5
    <3> QED  BY <1>1, <2>1, <3>2, <3>6 DEF Held
  <2>3. CASE pc[p] \notin InHandPcs
    BY <1>1, <2>3 DEF Held, InHandPcs
  <2> QED  BY <2>2, <2>3
<1>12. Truthful'
  <2>1. Len(inbox) + 1 \in 1..Len(inbox') => told'[Len(inbox) + 1] = {}
    <3>1. Len(inbox) + 1 \in Ids
      BY <1>3 DEF Arrive, Ids
    <3> QED  BY <1>1, <1>3, <3>1 DEF TInv, InHand
  <2> QED  BY <1>1, <1>3, <1>4, <2>1 DEF Truthful, HInv
<1> QED  BY <1>7, <1>9, <1>10, <1>11, <1>12 DEF HInv

LEMMA NextHandled == TInv /\ HInv /\ [Next]_vars => HInv'
<1> SUFFICES ASSUME TInv, HInv, [Next]_vars PROVE HInv'
  OBVIOUS
<1>1. CASE UNCHANGED vars
  BY <1>1 DEF vars, HInv, Fine, Held, Truthful, Handled, Kind
<1>2. CASE Arrive
  BY <1>2, ArriveHandled
<1>3. ASSUME NEW p \in Processors, Begin(p) PROVE HInv'
  BY <1>3, LoadHandled DEF Begin, Actors
<1>4. ASSUME NEW p \in Processors, Fetch(p) \/ Save(p) \/ Send(p) \/ Raise(p) PROVE HInv'
  BY <1>4, FetchHandled, SaveHandled, SendHandled, RaiseHandled
<1>5. ASSUME NEW p \in Processors, Apply(p) \/ Storing(p) \/ Telling(p) PROVE HInv'
  BY <1>5, ApplyHandled, AnsweringHandled
<1>6. ASSUME NEW p \in Processors, Skip(p) \/ Commit(p) PROVE HInv'
  BY <1>6, SkipHandled, CommitHandled
<1>7. ASSUME NEW p \in Processors, Finish(p) \/ Refuse(p) PROVE HInv'
  BY <1>7, EndHandled
<1>8. ASSUME NEW w \in Writers, Open(w) PROVE HInv'
  BY <1>8, LoadHandled DEF Open, Actors
<1>9. ASSUME NEW w \in Writers, CloseIntraday(w) \/ CloseDaily(w) PROVE HInv'
  BY <1>9, CloseHandled
<1> QED  BY <1>1, <1>2, <1>3, <1>4, <1>5, <1>6, <1>7, <1>8, <1>9
            DEF Next, Step, Storing, Telling

(* Only answered commands are passed or forgotten by the server, and an    *)
(* answer that says done is about an effect that took place.               *)
THEOREM PassedWasHandledAlways == Spec => []PassedWasHandled
<1>1. TInv /\ HInv => PassedWasHandled
  <2> SUFFICES ASSUME TInv, HInv, NEW u \in 1..Len(inbox)
               PROVE  /\ u <= Larger(confirmed, control.last) /\ inbox[u] \notin {"other", "image"}
                         => told[u] # {}
                      /\ inbox[u] \in {"task", "captioned"} /\ "done" \in told[u] => effects[u] > 0
    BY DEF PassedWasHandled
  <2>1. u <= Larger(confirmed, control.last) => u <= confirmed \/ u <= control.last
    BY DEF Larger
  <2>2. u <= confirmed \/ u <= control.last => Handled(u)
    BY DEF HInv, Fine
  <2> QED  BY <2>1, <2>2 DEF Handled, HInv, Truthful
<1> QED  BY <1>1, InitType, NextType, InitHandled, NextHandled, PTL DEF Spec

-----------------------------------------------------------------------------
(* One process at a time.                                                  *)

Same(c, d) == c.last = d.last /\ c.note = d.note /\ SameMarks(c, d)

(* No two processes hold a copy of the file. *)
Alone == \A a, b \in Actors : a # b => pc[a] = "idle" \/ pc[b] = "idle"

(* A copy is that of the file, up to what its owner is about to save. *)
AtSave(p) ==
    /\ mem[p].last = control.last
    /\ MarkedIn(control, next[p]) => MarkedIn(mem[p], next[p])
    /\ mem[p].note = control.note \/ mem[p].note = TRUE \/ Kind(p) \in {"image", "captioned"}

InStep(a) ==
    /\ pc[a] \notin {"idle", "save"} => Same(mem[a], control)
    /\ a \in Processors =>
          /\ pc[a] \in InHandPcs => next[a] = control.last + 1
          /\ pc[a] = "save" => AtSave(a)
          /\ pc[a] \in {"save", "send", "commit"} =>
                /\ Kind(a) = "note" => mem[a].note = TRUE
                /\ Kind(a) \in {"image", "captioned"} => effects[next[a]] > 0

(* An effect is stored once, and marked until the offset passes it. *)
Unsaved(u) == \E p \in Processors : pc[p] = "save" /\ next[p] = u /\ MarkedIn(mem[p], u)

Once ==
    \A u \in Ids :
        effects[u] > 0 =>
            /\ u <= Len(inbox)
            /\ u \notin torn =>
                  /\ effects[u] <= 1
                  /\ u <= control.last
                     \/ (u = control.last + 1 /\ (MarkedIn(control, u) \/ Unsaved(u)))

(* A note waits for its image, or the image in hand was stored. *)
Waiting(n) ==
    /\ inbox[n] = "note" /\ n <= control.last
    /\ \A v \in n..control.last : inbox[v] \notin {"image", "captioned"}

Noted ==
    \A n \in 1..Len(inbox) :
        Waiting(n) =>
            \/ control.note = TRUE
            \/ /\ control.last + 1 <= Len(inbox) /\ effects[control.last + 1] > 0
               /\ inbox[control.last + 1] \in {"image", "captioned"}

Announced ==
    \A n, u \in 1..Len(inbox) :
        (/\ inbox[n] = "note" /\ inbox[u] = "image" /\ n < u /\ u <= control.last
         /\ \A v \in n..(u - 1) : inbox[v] \notin {"image", "captioned"})
        => effects[u] > 0

Serial ==
    /\ Alone /\ \A a \in Actors : InStep(a)
    /\ confirmed <= control.last
    /\ Once /\ Noted /\ Announced

SInv == overlap \/ Serial

LEMMA OthersIdle ==
  ASSUME Serial, NEW a \in Actors, pc[a] # "idle"
  PROVE  \A b \in Actors \ {a} : pc[b] = "idle"
BY DEF Serial, Alone

(* One actor steps while the others are idle. *)
LEMMA SerialKept ==
  ASSUME TInv, NEW a \in Actors, \A b \in Actors \ {a} : pc'[b] = "idle",
         InStep(a)', confirmed' <= control'.last, Once', Noted', Announced'
  PROVE  Serial'
<1>1. Alone'
  BY DEF Alone
<1>2. ASSUME NEW b \in Actors PROVE InStep(b)'
  <2>1. CASE b = a
    BY <2>1
  <2>2. CASE b # a
    <3>1. pc'[b] = "idle"
      BY <2>2
    <3> QED  BY <3>1 DEF InStep, InHandPcs
  <2> QED  BY <2>1, <2>2
<1> QED  BY <1>1, <1>2 DEF Serial

(* The file's notes, marks and offset stay, and so does what was stored. *)
LEMMA StillFact ==
  ASSUME TInv, Serial, inbox' = inbox, effects' = effects, Same(control', control),
         torn \subseteq torn', \A p \in Processors : pc[p] = "save" => next[p] \in torn'
  PROVE  Once' /\ Noted' /\ Announced'
<1>1. /\ control'.last = control.last /\ control'.note = control.note
      /\ control'.tasks = control.tasks /\ control'.photos = control.photos
  BY DEF Same, SameMarks
<1>2. ASSUME NEW u \in Ids, effects[u] > 0, u \notin torn'
      PROVE  u <= control.last \/ (u = control.last + 1 /\ MarkedIn(control, u))
  <2>1. u <= control.last \/ (u = control.last + 1 /\ (MarkedIn(control, u) \/ Unsaved(u)))
    BY <1>2 DEF Serial, Once
  <2>2. ~Unsaved(u)
    BY <1>2 DEF Unsaved
  <2> QED  BY <2>1, <2>2
<1>3. \A u \in Ids : MarkedIn(control, u) => MarkedIn(control, u)'
  BY <1>1 DEF MarkedIn
<1>4. Once'
  BY <1>1, <1>2, <1>3 DEF Serial, Once
<1>5. Noted'
  BY <1>1 DEF Serial, Noted, Waiting
<1>6. Announced'
  BY <1>1 DEF Serial, Announced
<1> QED  BY <1>4, <1>5, <1>6

LEMMA LastFact == ASSUME TInv PROVE control.last \in Nat /\ confirmed \in Nat /\ Len(inbox) \in Nat
BY DEF TInv, TypeOK, Controls

LEMMA SameTrans ==
  ASSUME NEW c, NEW d, NEW e, Same(c, d), Same(d, e) PROVE Same(c, e)
BY DEF Same, SameMarks

LEMMA InitSerial == Init => Serial
<1> SUFFICES ASSUME Init PROVE Serial
  OBVIOUS
<1>1. /\ \A a \in Actors : pc[a] = "idle"
      /\ \A u \in Ids : effects[u] = 0
      /\ 1..Len(inbox) = {} /\ confirmed = 0 /\ control.last = 0
  BY DEF Init, NewControl
<1>2. Alone /\ \A a \in Actors : InStep(a)
  BY <1>1 DEF Alone, InStep, InHandPcs, Actors
<1>3. Once
  BY <1>1 DEF Once
<1>4. Noted /\ Announced
  BY <1>1 DEF Noted, Announced
<1> QED  BY <1>1, <1>2, <1>3, <1>4 DEF Serial

(* The process is done; what it had not saved is torn. *)
LEMMA LeaveSerial ==
  ASSUME TInv, Serial, NEW a \in Actors, Leave(a), pc[a] # "idle",
         inbox' = inbox, effects' = effects, Same(control', control),
         confirmed' <= control.last, torn \subseteq torn',
         a \in Processors /\ pc[a] = "save" => next[a] \in torn'
  PROVE  Serial'
<1>1. \A b \in Actors \ {a} : pc[b] = "idle" /\ pc'[b] = "idle"
  BY OthersIdle, LeaveFact DEF TInv
<1>2. \A p \in Processors : pc[p] = "save" => next[p] \in torn'
  BY <1>1 DEF Actors
<1>3. Once' /\ Noted' /\ Announced'
  BY <1>2, StillFact
<1>4. InStep(a)'
  <2>1. pc'[a] = "idle"
    BY LeaveFact DEF TInv
  <2> QED  BY <2>1 DEF InStep, InHandPcs
<1>5. confirmed' <= control'.last
  BY DEF Same
<1> QED  BY <1>1, <1>3, <1>4, <1>5, SerialKept

LEMMA LoadSerial ==
  ASSUME TInv, Serial, NEW a \in Actors, Load(a), ~overlap',
         UNCHANGED <<inbox, confirmed, control, effects, torn>>
  PROVE  Serial'
<1>1. /\ pc[a] = "idle" /\ pc'[a] = "loaded" /\ mem'[a] = control
      /\ \A b \in Actors \ {a} : pc[b] = "idle" /\ pc'[b] = "idle"
  BY DEF Load, Goto, TInv, TypeOK
<1>2. \A p \in Processors : pc[p] # "save"
  BY <1>1 DEF Actors
<1>3. Once' /\ Noted' /\ Announced'
  <2>1. Same(control', control) /\ torn \subseteq torn'
    BY DEF Same, SameMarks
  <2> QED  BY <1>2, <2>1, StillFact
<1>4. InStep(a)'
  BY <1>1 DEF InStep, InHandPcs, Same, SameMarks
<1>5. confirmed' <= control'.last
  BY DEF Serial
<1> QED  BY <1>1, <1>3, <1>4, <1>5, SerialKept

LEMMA FetchSerial ==
  ASSUME TInv, Serial, NEW p \in Processors, Fetch(p) PROVE Serial'
<1>1. /\ p \in Actors /\ pc[p] = "loaded" /\ inbox' = inbox /\ control' = control
      /\ effects' = effects /\ torn' = torn /\ confirmed' = Larger(confirmed, mem[p].last)
  BY DEF Fetch, Actors
<1>2. Same(mem[p], control) /\ Same(control', control)
  BY <1>1 DEF Serial, InStep, Same, SameMarks
<1>3. confirmed' = control.last
  <2>1. confirmed <= control.last /\ mem[p].last = control.last
    BY <1>2 DEF Serial, Same
  <2> QED  BY <1>1, <2>1, LastFact DEF Larger
<1>4. CASE confirmed' < Len(inbox)
  <2>1. /\ pc'[p] = "handle" /\ mem' = mem /\ next'[p] = confirmed' + 1
        /\ \A b \in Actors \ {p} : pc'[b] = pc[b]
    BY <1>1, <1>4 DEF Fetch, Goto, TInv, TypeOK
  <2>2. \A b \in Actors \ {p} : pc[b] = "idle"
    BY <1>1, OthersIdle
  <2>3. \A q \in Processors : pc[q] # "save"
    BY <1>1, <2>2 DEF Actors
  <2>4. Once' /\ Noted' /\ Announced'
    BY <1>1, <1>2, <2>3, StillFact
  <2>5. InStep(p)'
    BY <1>1, <1>2, <1>3, <2>1 DEF InStep, Same, SameMarks
  <2>6. confirmed' <= control'.last
    BY <1>1, <1>3, LastFact
  <2> QED  BY <1>1, <2>1, <2>2, <2>4, <2>5, <2>6, SerialKept
<1>5. CASE ~(confirmed' < Len(inbox))
  <2>1. Leave(p) /\ confirmed' <= control.last
    BY <1>3, <1>5, LastFact DEF Fetch
  <2> QED  BY <1>1, <1>2, <2>1, LeaveSerial
<1> QED  BY <1>4, <1>5

(* What a processor that answers has, and that the others wait. *)
LEMMA HandleFact ==
  ASSUME TInv, Serial, NEW p \in Processors, NEW c, NEW w, NEW r, Answers(p, c, w, r)
  PROVE  /\ p \in Actors /\ Same(mem[p], control) /\ next[p] = control.last + 1
         /\ next[p] \in Ids /\ next[p] \in 1..Len(inbox) /\ pc[p] = "handle"
         /\ \A b \in Actors \ {p} : pc[b] = "idle" /\ pc'[b] = "idle"
         /\ \A q \in Processors : pc[q] # "save"
         /\ pc'[p] = w /\ mem'[p] = c /\ w \in {"save", "send"}
         /\ next' = next /\ control' = control /\ inbox' = inbox
         /\ confirmed' <= control'.last
<1>1. p \in Actors /\ pc[p] = "handle" /\ pc[p] \in InHandPcs
  BY DEF Answers, Actors, InHandPcs
<1>2. Same(mem[p], control) /\ next[p] = control.last + 1
  BY <1>1 DEF Serial, InStep
<1>3. /\ \A b \in Actors \ {p} : pc'[b] = pc[b]
      /\ pc'[p] = w /\ mem'[p] = c /\ w \in {"save", "send"}
      /\ next' = next /\ control' = control /\ inbox' = inbox
  BY <1>1 DEF Answers, TInv, TypeOK
<1>4. \A b \in Actors \ {p} : pc[b] = "idle"
  BY <1>1, OthersIdle
<1>5. \A q \in Processors : pc[q] # "save"
  BY <1>1, <1>4 DEF Actors
<1>6. confirmed' <= control'.last
  BY <1>3 DEF Answers, Serial
<1> QED  BY <1>1, <1>2, <1>3, <1>4, <1>5, <1>6, InHandFact

LEMMA ApplySerial ==
  ASSUME TInv, Serial, NEW p \in Processors, Apply(p) PROVE Serial'
<1>1. PICK c \in Controls :
        /\ Answers(p, c, "save", "done")
        /\ Kind(p) = "task" \/ Kind(p) \in {"image", "captioned"}
        /\ ~MarkedIn(mem[p], next[p]) /\ MarkedIn(c, next[p])
        /\ Kind(p) = "task" => c.note = mem[p].note
        /\ effects' = [effects EXCEPT ![next[p]] = @ + 1]
  BY ApplyFact
<1>2. PICK n \in Ids : n = next[p]
  BY <1>1, HandleFact
<1>3. /\ p \in Actors /\ Same(mem[p], control) /\ n = control.last + 1 /\ n \in 1..Len(inbox)
      /\ \A b \in Actors \ {p} : pc'[b] = "idle"
      /\ \A q \in Processors : pc[q] # "save"
      /\ pc'[p] = "save" /\ mem'[p] = c /\ next' = next /\ control' = control
      /\ inbox' = inbox /\ confirmed' <= control'.last
  BY <1>1, <1>2, HandleFact
<1>4. /\ effects \in [Ids -> Nat] /\ effects' = [effects EXCEPT ![n] = @ + 1]
      /\ c.last = mem[p].last /\ torn' = torn
  BY <1>1, <1>2 DEF Answers, TInv, TypeOK
<1>5. effects'[n] = effects[n] + 1 /\ \A u \in Ids \ {n} : effects'[u] = effects[u]
  BY <1>4
<1>6. n \notin torn => effects[n] = 0
  <2> SUFFICES ASSUME n \notin torn, effects[n] > 0 PROVE FALSE
    BY <1>4
  <2>1. n <= control.last \/ MarkedIn(control, n) \/ Unsaved(n)
    BY DEF Serial, Once
  <2>2. ~Unsaved(n)
    BY <1>3 DEF Unsaved
  <2>3. ~MarkedIn(control, n)
    BY <1>1, <1>2, <1>3 DEF MarkedIn, Same, SameMarks
  <2> QED  BY <1>3, <2>1, <2>2, <2>3, LastFact
<1>7. Once'
  <2> SUFFICES ASSUME NEW u \in Ids, effects'[u] > 0
               PROVE  /\ u <= Len(inbox)
                      /\ u \notin torn => /\ effects'[u] <= 1
                                          /\ u <= control.last
                                             \/ (u = control.last + 1
                                                 /\ (MarkedIn(control, u)' \/ Unsaved(u)'))
    BY <1>3, <1>4 DEF Once
  <2>1. CASE u = n
    <3>1. Unsaved(n)'
      BY <1>1, <1>2, <1>3 DEF Unsaved, MarkedIn
    <3>2. n \notin torn => effects'[n] <= 1
      BY <1>5, <1>6
    <3> QED  BY <1>3, <2>1, <3>1, <3>2
  <2>2. CASE u # n
    <3>1. effects[u] > 0 /\ effects'[u] = effects[u]
      BY <1>5, <2>2
    <3>2. ~Unsaved(u)
      BY <1>3 DEF Unsaved
    <3>3. MarkedIn(control, u) => MarkedIn(control, u)'
      BY <1>3 DEF MarkedIn
    <3> QED  BY <3>1, <3>2, <3>3 DEF Serial, Once
  <2> QED  BY <2>1, <2>2
<1>8. \A u \in Ids : effects[u] > 0 => effects'[u] > 0
  BY <1>4, <1>5
<1>9. 1..Len(inbox) \subseteq Ids
  BY InboxFact
<1>10. Noted'
  <2> SUFFICES ASSUME NEW m \in 1..Len(inbox), Waiting(m)'
               PROVE  \/ control.note = TRUE
                      \/ /\ control.last + 1 <= Len(inbox) /\ effects'[control.last + 1] > 0
                         /\ inbox[control.last + 1] \in {"image", "captioned"}
    BY <1>3 DEF Noted
  <2>1. Waiting(m)
    BY <1>3 DEF Waiting
  <2> QED  BY <1>2, <1>3, <1>8, <2>1 DEF Serial, Noted
<1>11. Announced'
  BY <1>3, <1>8, <1>9 DEF Serial, Announced
<1>12. InStep(p)'
  <2>1. effects'[n] > 0
    BY <1>4, <1>5
  <2>2. Kind(p)' = Kind(p)
    BY <1>3 DEF Kind
  <2>3. AtSave(p)'
    <3>1. c.last = control.last
      BY <1>3, <1>4 DEF Same
    <3>2. MarkedIn(c, next[p])'
      BY <1>1, <1>3 DEF MarkedIn
    <3>3. c.note = control.note \/ Kind(p) \in {"image", "captioned"}
      BY <1>1, <1>3 DEF Same
    <3> QED  BY <1>3, <2>2, <3>1, <3>2, <3>3 DEF AtSave, MarkedIn
  <2> QED  BY <1>1, <1>2, <1>3, <2>1, <2>2, <2>3 DEF InStep
<1> QED  BY <1>3, <1>7, <1>10, <1>11, <1>12, SerialKept

LEMMA AnsweringSerial ==
  ASSUME TInv, HInv, Serial, NEW p \in Processors, Storing(p) \/ Telling(p) PROVE Serial'
<1>1. PICK c \in Controls, w \in {"save", "send"}, r \in {"done", "failed"} :
        /\ Answers(p, c, w, r) /\ effects' = effects /\ SameMarks(c, mem[p])
        /\ c.note = mem[p].note \/ (Kind(p) = "note" /\ w = "save")
        /\ Kind(p) = "note" => c.note = TRUE /\ w = "save"
        /\ Kind(p) \in {"image", "captioned"} => MarkedIn(mem[p], next[p])
  BY AnsweringFact
<1>2. /\ p \in Actors /\ Same(mem[p], control) /\ next[p] = control.last + 1
      /\ \A b \in Actors \ {p} : pc'[b] = "idle"
      /\ \A q \in Processors : pc[q] # "save"
      /\ pc'[p] = w /\ mem'[p] = c /\ next' = next /\ control' = control
      /\ inbox' = inbox /\ confirmed' <= control'.last
  BY <1>1, HandleFact
<1>3. c.last = mem[p].last /\ torn' = torn
  BY <1>1 DEF Answers
<1>4. Once' /\ Noted' /\ Announced'
  <2>1. Same(control', control)
    BY <1>2 DEF Same, SameMarks
  <2> QED  BY <1>1, <1>2, <1>3, <2>1, StillFact
<1>5. Kind(p) \in {"image", "captioned"} => effects[next[p]] > 0
  <2>1. \A u \in ToSet(mem[p].tasks) \cup ToSet(mem[p].photos) : effects[u] > 0
    BY <1>2 DEF HInv, Fine
  <2> QED  BY <1>1, <2>1 DEF MarkedIn
<1>6. InStep(p)'
  <2>1. Kind(p)' = Kind(p)
    BY <1>2 DEF Kind
  <2>2. c.last = control.last /\ SameMarks(c, control)
    BY <1>1, <1>2, <1>3 DEF Same, SameMarks
  <2>3. w = "send" => Same(c, control)
    BY <1>1, <1>2, <2>2 DEF Same
  <2>4. AtSave(p)'
    <3>1. MarkedIn(control, next[p])' => MarkedIn(c, next[p])'
      BY <1>2, <2>2 DEF MarkedIn, SameMarks
    <3>2. c.note = control.note \/ c.note = TRUE
      BY <1>1, <1>2 DEF Same
    <3> QED  BY <1>2, <2>2, <3>1, <3>2 DEF AtSave, MarkedIn
  <2> QED  BY <1>1, <1>2, <1>5, <2>1, <2>3, <2>4 DEF InStep
<1> QED  BY <1>2, <1>4, <1>6, SerialKept

LEMMA SaveSerial ==
  ASSUME TInv, Serial, NEW p \in Processors, Save(p) PROVE Serial'
<1>1. /\ p \in Actors /\ pc[p] = "save" /\ pc' = [pc EXCEPT ![p] = "send"]
      /\ control' = mem[p] /\ inbox' = inbox /\ mem' = mem /\ next' = next
      /\ effects' = effects /\ torn' = torn /\ confirmed' = confirmed
  BY DEF Save, Goto, Actors
<1>2. /\ \A b \in Actors \ {p} : pc[b] = "idle" /\ pc'[b] = "idle"
      /\ pc'[p] = "send"
  BY <1>1, OthersIdle DEF TInv, TypeOK
<1>3. /\ AtSave(p) /\ next[p] = control.last + 1
      /\ Kind(p) = "note" => mem[p].note = TRUE
      /\ Kind(p) \in {"image", "captioned"} => effects[next[p]] > 0
  BY <1>1 DEF Serial, InStep, InHandPcs
<1>4. control'.last = control.last /\ next[p] \in 1..Len(inbox)
  BY <1>1, <1>3, InHandFact DEF AtSave, InHandPcs
<1>5. Once'
  <2> SUFFICES ASSUME NEW u \in Ids, effects[u] > 0
               PROVE  /\ u <= Len(inbox)
                      /\ u \notin torn =>
                            /\ effects[u] <= 1
                            /\ u <= control.last \/ (u = control.last + 1 /\ MarkedIn(control, u)')
    BY <1>1, <1>4 DEF Once
  <2>1. /\ u <= Len(inbox)
        /\ u \notin torn =>
              /\ effects[u] <= 1
              /\ u <= control.last
                 \/ (u = control.last + 1 /\ (MarkedIn(control, u) \/ Unsaved(u)))
    BY DEF Serial, Once
  <2>2. u = control.last + 1 /\ MarkedIn(control, u) => MarkedIn(mem[p], u)
    BY <1>3 DEF AtSave
  <2>3. Unsaved(u) => MarkedIn(mem[p], u)
    BY <1>2 DEF Unsaved, Actors
  <2>4. MarkedIn(mem[p], u) => MarkedIn(control, u)'
    BY <1>1 DEF MarkedIn
  <2> QED  BY <2>1, <2>2, <2>3, <2>4
<1>6. Noted'
  <2> SUFFICES ASSUME NEW n \in 1..Len(inbox), Waiting(n)'
               PROVE  \/ mem[p].note = TRUE
                      \/ /\ control.last + 1 <= Len(inbox) /\ effects[control.last + 1] > 0
                         /\ inbox[control.last + 1] \in {"image", "captioned"}
    BY <1>1, <1>4 DEF Noted
  <2>1. Waiting(n)
    BY <1>1, <1>4 DEF Waiting
  <2>2. \/ control.note = TRUE
        \/ /\ control.last + 1 <= Len(inbox) /\ effects[control.last + 1] > 0
           /\ inbox[control.last + 1] \in {"image", "captioned"}
    BY <2>1 DEF Serial, Noted
  <2>3. mem[p].note = control.note \/ mem[p].note = TRUE \/ Kind(p) \in {"image", "captioned"}
    BY <1>3 DEF AtSave
  <2>4. control.last + 1 <= Len(inbox) /\ Kind(p) = inbox[control.last + 1]
    BY <1>3, <1>4 DEF Kind
  <2> QED  BY <1>3, <2>2, <2>3, <2>4
<1>7. Announced'
  BY <1>1, <1>4 DEF Serial, Announced
<1>8. InStep(p)'
  <2>1. Kind(p)' = Kind(p)
    BY <1>1 DEF Kind
  <2> QED  BY <1>1, <1>2, <1>3, <1>4, <2>1 DEF InStep, Same, SameMarks
<1>9. confirmed' <= control'.last
  BY <1>1, <1>4 DEF Serial
<1> QED  BY <1>1, <1>2, <1>5, <1>6, <1>7, <1>8, <1>9, SerialKept

LEMMA SendSerial ==
  ASSUME TInv, Serial, NEW p \in Processors, Send(p) PROVE Serial'
<1>1. /\ p \in Actors /\ pc[p] = "send" /\ pc' = [pc EXCEPT ![p] = "commit"]
      /\ control' = control /\ inbox' = inbox /\ mem' = mem /\ next' = next
      /\ effects' = effects /\ torn' = torn /\ confirmed' = confirmed
  BY DEF Send, Goto, Actors
<1>2. /\ \A b \in Actors \ {p} : pc[b] = "idle" /\ pc'[b] = "idle"
      /\ pc'[p] = "commit"
  BY <1>1, OthersIdle DEF TInv, TypeOK
<1>3. \A q \in Processors : pc[q] # "save"
  BY <1>1, <1>2 DEF Actors
<1>4. Once' /\ Noted' /\ Announced'
  <2>1. Same(control', control)
    BY <1>1 DEF Same, SameMarks
  <2> QED  BY <1>1, <1>3, <2>1, StillFact
<1>5. InStep(p)'
  <2>1. Kind(p)' = Kind(p)
    BY <1>1 DEF Kind
  <2>2. InStep(p)
    BY <1>1 DEF Serial
  <2> QED  BY <1>1, <1>2, <2>1, <2>2 DEF InStep, InHandPcs, Same, SameMarks
<1>6. confirmed' <= control'.last
  BY <1>1 DEF Serial
<1> QED  BY <1>1, <1>2, <1>4, <1>5, <1>6, SerialKept

LEMMA RaiseSerial ==
  ASSUME TInv, Serial, NEW p \in Processors, Raise(p) PROVE Serial'
<1>1. /\ p \in Actors /\ Leave(p) /\ pc[p] # "idle" /\ inbox' = inbox /\ control' = control
      /\ confirmed' = confirmed /\ effects' = effects
      /\ torn' = IF pc[p] = "save" THEN torn \cup {next[p]} ELSE torn
  BY RaiseFact DEF Actors
<1>2. Same(control', control) /\ confirmed' <= control.last
  BY <1>1 DEF Same, SameMarks, Serial
<1> QED  BY <1>1, <1>2, LeaveSerial

LEMMA EndSerial ==
  ASSUME TInv, Serial, NEW p \in Processors, Finish(p) \/ Refuse(p) PROVE Serial'
<1>1. /\ p \in Actors /\ Leave(p) /\ inbox' = inbox /\ effects' = effects /\ torn' = torn
      /\ confirmed' = confirmed /\ pc[p] \in {"finish", "send"}
      /\ (control' = control \/ control' = mem[p])
  BY DEF Finish, Refuse, Actors
<1>2. Same(mem[p], control)
  BY <1>1 DEF Serial, InStep
<1>3. Same(control', control) /\ confirmed' <= control.last
  BY <1>1, <1>2 DEF Same, SameMarks, Serial
<1> QED  BY <1>1, <1>3, LeaveSerial

LEMMA CloseSerial ==
  ASSUME TInv, Serial, NEW w \in Writers, CloseIntraday(w) \/ CloseDaily(w) PROVE Serial'
<1>1. PICK c \in Controls : Closes(w, c)
  BY CloseIntradayFact, CloseDailyFact
<1>2. /\ w \in Actors /\ Leave(w) /\ pc[w] = "loaded" /\ inbox' = inbox /\ effects' = effects
      /\ torn' = torn /\ confirmed' = confirmed /\ control' = c /\ Same(c, mem[w])
  BY <1>1 DEF Closes, Actors, Same
<1>3. Same(mem[w], control)
  BY <1>2 DEF Serial, InStep
<1>4. Same(control', control) /\ confirmed' <= control.last
  BY <1>2, <1>3, SameTrans DEF Serial
<1> QED  BY <1>2, <1>4, LeaveSerial

(* The offset passes the update in hand. *)
LEMMA MovesSerial ==
  ASSUME TInv, Serial, NEW p \in Processors, NEW c, Moves(p, c),
         Kind(p) = "note" => mem[p].note = TRUE,
         Kind(p) = "image" => effects[next[p]] > 0 \/ mem[p].note # TRUE
  PROVE  Serial'
<1>1. /\ p \in Actors /\ pc[p] \in {"handle", "commit"} /\ pc[p] \in InHandPcs
      /\ c \in Controls /\ control' = c /\ inbox' = inbox /\ effects' = effects
      /\ torn' = torn /\ confirmed' = confirmed
  BY DEF Moves, Actors, InHandPcs
<1>2. /\ Same(mem[p], control) /\ next[p] = control.last + 1 /\ next[p] \in 1..Len(inbox)
  BY <1>1, InHandFact DEF Serial, InStep
<1>3. PICK k \in 1..Len(inbox) : k = next[p] /\ k = control.last + 1
  BY <1>2
<1>4. control.last \in Nat /\ Len(inbox) \in Nat /\ k \in Nat
  BY <1>3, LastFact
<1>5. c.last = k /\ c.note = control.note
  BY <1>2, <1>3, <1>4 DEF Moves, Same, Larger
<1>6. /\ \A b \in Actors \ {p} : pc[b] = "idle" /\ pc'[b] = "idle"
      /\ mem'[p] = c /\ pc'[p] \in {"handle", "finish"}
      /\ pc'[p] = "handle" => next'[p] = k + 1
  BY <1>1, <1>3, OthersIdle DEF Moves, TInv, TypeOK
<1>7. Once'
  <2> SUFFICES ASSUME NEW u \in Ids, effects[u] > 0
               PROVE  u <= Len(inbox) /\ (u \notin torn => effects[u] <= 1 /\ u <= k)
    BY <1>1, <1>5 DEF Once
  <2>1. /\ u <= Len(inbox)
        /\ u \notin torn => effects[u] <= 1 /\ (u <= control.last \/ u = control.last + 1)
    BY DEF Serial, Once
  <2> QED  BY <1>3, <1>4, <2>1 DEF Ids
<1>8. ASSUME NEW n \in 1..Len(inbox), n < k, inbox[n] = "note",
             \A v \in n..(k - 1) : inbox[v] \notin {"image", "captioned"}
      PROVE  control.note = TRUE \/ (effects[k] > 0 /\ inbox[k] \in {"image", "captioned"})
  <2>1. n <= control.last /\ k - 1 = control.last
    BY <1>3, <1>4, <1>8
  <2>2. Waiting(n)
    BY <1>8, <2>1 DEF Waiting
  <2> QED  BY <1>3, <2>2 DEF Serial, Noted
<1>9. Noted'
  <2> SUFFICES ASSUME NEW n \in 1..Len(inbox), inbox[n] = "note", n <= k,
                      \A v \in n..k : inbox[v] \notin {"image", "captioned"}
               PROVE  c.note = TRUE
    BY <1>1, <1>5 DEF Noted, Waiting
  <2>1. CASE n = k
    BY <1>2, <1>3, <1>5, <2>1 DEF Kind, Same
  <2>2. CASE n < k
    <3>1. \A v \in n..(k - 1) : inbox[v] \notin {"image", "captioned"}
      BY <1>4
    <3>2. inbox[k] \notin {"image", "captioned"}
      BY <1>4, <2>2
    <3> QED  BY <1>5, <1>8, <2>2, <3>1, <3>2
  <2>3. n = k \/ n < k
    BY <1>4
  <2> QED  BY <2>1, <2>2, <2>3
<1>10. Announced'
  <2> SUFFICES ASSUME NEW n \in 1..Len(inbox), NEW u \in 1..Len(inbox),
                      inbox[n] = "note", inbox[u] = "image", n < u, u <= k,
                      \A v \in n..(u - 1) : inbox[v] \notin {"image", "captioned"}
               PROVE  effects[u] > 0
    BY <1>1, <1>5 DEF Announced
  <2>1. CASE u <= control.last
    BY <2>1 DEF Serial, Announced
  <2>2. CASE u = k
    <3>1. control.note = TRUE \/ effects[k] > 0
      BY <1>8, <2>2
    <3>2. control.note = TRUE => mem[p].note = TRUE
      BY <1>2 DEF Same
    <3>3. Kind(p) = "image"
      BY <1>3, <2>2 DEF Kind
    <3> QED  BY <1>3, <2>2, <3>1, <3>2, <3>3
  <2> QED  BY <1>3, <1>4, <2>1, <2>2
<1>11. InStep(p)'
  <2>1. Same(mem'[p], control')
    BY <1>1, <1>6 DEF Same, SameMarks
  <2>2. pc'[p] = "handle" => next'[p] = control'.last + 1
    BY <1>1, <1>5, <1>6
  <2> QED  BY <1>6, <2>1, <2>2 DEF InStep, InHandPcs
<1>12. confirmed' <= control'.last
  BY <1>1, <1>3, <1>4, <1>5, LastFact DEF Serial
<1> QED  BY <1>1, <1>6, <1>7, <1>9, <1>10, <1>11, <1>12, SerialKept

LEMMA SkipSerial ==
  ASSUME TInv, Serial, NEW p \in Processors, Skip(p) PROVE Serial'
<1>1. PICK c \in Controls :
         Moves(p, c) /\ (Kind(p) = "other" \/ (Kind(p) = "image" /\ ~mem[p].note))
  BY SkipFact
<1> QED  BY <1>1, MovesSerial

LEMMA CommitSerial ==
  ASSUME TInv, Serial, NEW p \in Processors, Commit(p) PROVE Serial'
<1>1. PICK c \in Controls : Moves(p, c) /\ pc[p] = "commit"
  BY CommitFact
<1>2. /\ Kind(p) = "note" => mem[p].note = TRUE
      /\ Kind(p) = "image" => effects[next[p]] > 0
  BY <1>1 DEF Serial, InStep, Actors
<1> QED  BY <1>1, <1>2, MovesSerial

LEMMA ArriveSerial ==
  ASSUME TInv, Serial, Arrive PROVE Serial'
<1>1. UNCHANGED <<confirmed, control, pc, mem, next, effects, torn>>
  BY DEF Arrive
<1>2. PICK k \in Kinds : inbox' = Append(inbox, k)
  BY DEF Arrive
<1>3. /\ Len(inbox) \in Nat /\ Len(inbox') = Len(inbox) + 1
      /\ \A u \in 1..Len(inbox) : inbox'[u] = inbox[u]
      /\ control.last \in Nat /\ control.last <= Len(inbox)
  BY <1>2, LastFact DEF TInv, TypeOK, InHand
<1>4. Alone'
  BY <1>1 DEF Serial, Alone
<1>5. ASSUME NEW a \in Actors PROVE InStep(a)'
  <2>1. InStep(a)
    BY DEF Serial
  <2>2. a \in Processors /\ pc[a] \in InHandPcs => inbox'[next[a]] = inbox[next[a]]
    BY <1>3, InHandFact
  <2>3. a \in Processors /\ pc[a] \in InHandPcs => Kind(a)' = Kind(a)
    BY <1>1, <2>2 DEF Kind
  <2>4. a \in Processors /\ pc[a] = "save" => AtSave(a)'
    <3> SUFFICES ASSUME a \in Processors, pc[a] = "save" PROVE AtSave(a)'
      OBVIOUS
    <3>1. AtSave(a) /\ Kind(a)' = Kind(a) /\ inbox'[next[a]] = inbox[next[a]]
      BY <2>1, <2>2, <2>3 DEF InStep, InHandPcs
    <3>2. MarkedIn(control, next[a])' => MarkedIn(control, next[a])
      BY <1>1, <3>1 DEF MarkedIn
    <3>3. MarkedIn(mem[a], next[a]) => MarkedIn(mem[a], next[a])'
      BY <1>1, <3>1 DEF MarkedIn
    <3> QED  BY <1>1, <3>1, <3>2, <3>3 DEF AtSave
  <2> QED  BY <1>1, <2>1, <2>3, <2>4 DEF InStep, InHandPcs, Same, SameMarks
<1>6. Once'
  <2> SUFFICES ASSUME NEW u \in Ids, effects[u] > 0
               PROVE  /\ u <= Len(inbox')
                      /\ u \notin torn =>
                            /\ effects[u] <= 1
                            /\ u <= control.last
                               \/ (u = control.last + 1 /\ (MarkedIn(control, u)' \/ Unsaved(u)'))
    BY <1>1 DEF Once
  <2>1. /\ u <= Len(inbox)
        /\ u \notin torn =>
              /\ effects[u] <= 1
              /\ u <= control.last
                 \/ (u = control.last + 1 /\ (MarkedIn(control, u) \/ Unsaved(u)))
    BY DEF Serial, Once
  <2>2. inbox'[u] = inbox[u] /\ u <= Len(inbox')
    BY <1>3, <2>1 DEF Ids
  <2>3. MarkedIn(control, u) => MarkedIn(control, u)'
    BY <1>1, <2>2 DEF MarkedIn
  <2>4. Unsaved(u) => Unsaved(u)'
    BY <1>1, <2>2 DEF Unsaved, MarkedIn
  <2> QED  BY <2>1, <2>2, <2>3, <2>4
<1>7. Noted'
  <2> SUFFICES ASSUME NEW n \in 1..Len(inbox'), Waiting(n)'
               PROVE  \/ control.note = TRUE
                      \/ /\ control.last + 1 <= Len(inbox') /\ effects[control.last + 1] > 0
                         /\ inbox'[control.last + 1] \in {"image", "captioned"}
    BY <1>1 DEF Noted
  <2>1. n \in 1..Len(inbox) /\ \A v \in n..control.last : v \in 1..Len(inbox)
    BY <1>1, <1>3 DEF Waiting
  <2>2. Waiting(n)
    BY <1>1, <1>3, <2>1 DEF Waiting
  <2>3. control.last + 1 <= Len(inbox) =>
           control.last + 1 <= Len(inbox') /\ inbox'[control.last + 1] = inbox[control.last + 1]
    BY <1>3
  <2> QED  BY <2>1, <2>2, <2>3 DEF Serial, Noted
<1>8. Announced'
  <2> SUFFICES ASSUME NEW n \in 1..Len(inbox'), NEW u \in 1..Len(inbox'),
                      inbox'[n] = "note", inbox'[u] = "image", n < u, u <= control.last,
                      \A v \in n..(u - 1) : inbox'[v] \notin {"image", "captioned"}
               PROVE  effects[u] > 0
    BY <1>1 DEF Announced
  <2>1. /\ n \in 1..Len(inbox) /\ u \in 1..Len(inbox)
        /\ \A v \in n..(u - 1) : v \in 1..Len(inbox)
    BY <1>3
  <2>2. /\ inbox[n] = "note" /\ inbox[u] = "image"
        /\ \A v \in n..(u - 1) : inbox[v] \notin {"image", "captioned"}
    BY <1>3, <2>1
  <2> QED  BY <2>1, <2>2 DEF Serial, Announced
<1>9. confirmed' <= control'.last
  BY <1>1 DEF Serial
<1> QED  BY <1>4, <1>5, <1>6, <1>7, <1>8, <1>9 DEF Serial

LEMMA NextSerial == TInv /\ HInv /\ SInv /\ [Next]_vars => SInv'
<1> SUFFICES ASSUME TInv, HInv, SInv, [Next]_vars, ~overlap' PROVE Serial'
  BY DEF SInv
<1>1. ~overlap
  <2>1. ASSUME NEW a \in Actors, Load(a) PROVE ~overlap
    BY <2>1 DEF Load
  <2> QED  BY <2>1 DEF Next, Step, Arrive, Begin, Fetch, Skip, Apply, ApplyAgain, Note, Save,
                 Lookup, Pick, Answer, Send, Commit, Finish, Decline, Raise, Refuse, Open,
                 CloseIntraday, CloseDaily, Actors, vars
<1>2. Serial
  BY <1>1 DEF SInv
<1>3. CASE UNCHANGED vars
  BY <1>2, <1>3 DEF vars, Serial, Alone, InStep, AtSave, MarkedIn, Kind, Same, SameMarks,
                    Once, Unsaved, Noted, Waiting, Announced
<1>4. CASE Arrive
  BY <1>2, <1>4, ArriveSerial
<1>5. ASSUME NEW p \in Processors, Begin(p) PROVE Serial'
  BY <1>2, <1>5, LoadSerial DEF Begin, Actors
<1>6. ASSUME NEW p \in Processors, Fetch(p) \/ Save(p) \/ Send(p) \/ Raise(p) PROVE Serial'
  BY <1>2, <1>6, FetchSerial, SaveSerial, SendSerial, RaiseSerial
<1>7. ASSUME NEW p \in Processors, Apply(p) \/ Storing(p) \/ Telling(p) PROVE Serial'
  BY <1>2, <1>7, ApplySerial, AnsweringSerial
<1>8. ASSUME NEW p \in Processors, Skip(p) \/ Commit(p) PROVE Serial'
  BY <1>2, <1>8, SkipSerial, CommitSerial
<1>9. ASSUME NEW p \in Processors, Finish(p) \/ Refuse(p) PROVE Serial'
  BY <1>2, <1>9, EndSerial
<1>10. ASSUME NEW w \in Writers, Open(w) PROVE Serial'
  BY <1>2, <1>10, LoadSerial DEF Open, Actors
<1>11. ASSUME NEW w \in Writers, CloseIntraday(w) \/ CloseDaily(w) PROVE Serial'
  BY <1>2, <1>11, CloseSerial
<1> QED  BY <1>3, <1>4, <1>5, <1>6, <1>7, <1>8, <1>9, <1>10, <1>11
            DEF Next, Step, Storing, Telling

(* An effect is repeated only after a torn save, or by processes that had  *)
(* the control file open at the same time; KeepLast may be 1.              *)
THEOREM RepeatNeedsTornSaveAlways == Spec => []RepeatNeedsTornSave
<1>1. TInv /\ SInv => RepeatNeedsTornSave
  <2> SUFFICES ASSUME TInv, SInv, NEW u \in Ids, effects[u] > 1, u \notin torn, ~overlap
               PROVE  FALSE
    BY DEF RepeatNeedsTornSave
  <2>1. effects[u] \in Nat /\ effects[u] <= 1
    BY InboxFact DEF SInv, Serial, Once
  <2> QED  BY <2>1
<1>2. Init => SInv
  BY InitSerial DEF SInv
<1> QED  BY <1>1, <1>2, InitType, NextType, InitHandled, NextHandled, NextSerial, PTL DEF Spec

(* The image a /photo note announced is stored before the offset passes it, *)
(* unless two processes had the control file open at the same time.        *)
THEOREM AnnouncedImageIsStoredAlways == Spec => []AnnouncedImageIsStored
<1>1. TInv /\ SInv => AnnouncedImageIsStored
  BY DEF SInv, Serial, Announced, AnnouncedImageIsStored
<1>2. Init => SInv
  BY InitSerial DEF SInv
<1> QED  BY <1>1, <1>2, InitType, NextType, InitHandled, NextHandled, NextSerial, PTL DEF Spec
=============================================================================
