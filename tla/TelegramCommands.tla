-------------------------- MODULE TelegramCommands --------------------------
(***************************************************************************)
(* The Telegram command processor (_run_process_telegram_commands), its    *)
(* control file, and the deliveries that write the same file.  A processor *)
(* is the scheduled loop or a manual process-telegram-commands; a writer   *)
(* is an intraday or daily delivery.  Each loads the whole file, works on  *)
(* its copy and replaces the file; nothing locks it.                       *)
(*                                                                         *)
(* Updates are numbered 1, 2, ... as the bot receives them; the server     *)
(* forgets those below the offset of a getUpdates call.  An update is its  *)
(* kind: "other" is a foreign chat, an empty text or no command; "task" is *)
(* /memo, /check or /progress; "note" is /photo without an image, "image"  *)
(* an image without a command, "captioned" an image with /photo; "lookup"  *)
(* and "pick" are the two halves of a stock search; "status" is any other  *)
(* answer; "next", "all" and "reset" page through the last delivery.       *)
(***************************************************************************)
EXTENDS Naturals, Sequences, SequencesExt

CONSTANTS Processors,    \* processes that may handle commands
          Writers,       \* processes that may deliver a batch or a summary
          Kinds,         \* the kinds of updates that arrive
          KeepLast,      \* mark_*_update_applied: keep_last (200)
          Blocks,        \* stocks in a summary
          PageSize,      \* notification_default_limit
          Fit,           \* stocks that fit one message (4096 characters)
          MaxUpdates,    \* bound: updates
          MaxFailures,   \* bound: transient failures and deaths of a processor
          MaxDeliveries  \* bound: deliveries

AllKinds == {"other", "task", "note", "image", "captioned", "lookup", "pick",
             "status", "next", "all", "reset"}
Paging   == {"next", "all", "reset"}

ASSUME CommandsAssumption ==
    /\ Processors \cap Writers = {} /\ Kinds \subseteq AllKinds
    /\ KeepLast \in Nat \ {0} /\ Blocks \in Nat /\ PageSize \in Nat \ {0}
    /\ Fit \in Nat /\ MaxUpdates \in Nat /\ MaxFailures \in Nat
    /\ MaxDeliveries \in Nat

VARIABLES
    inbox,       \* kinds of the updates received by the bot
    confirmed,   \* the server has forgotten the updates up to this one
    control,     \* the control file
    pc, mem,     \* per process: where it is, its copy of the control state
    next, upto,  \* per processor: the update in hand, the last one fetched
    result,      \* per processor: what the answer in hand reports
    effects,     \* per update: times its memo, task, event or photo was stored
    told,        \* per update: the results the operator was told
    seen,        \* stocks shown so far, of the daily summary (0) and each batch
    torn,        \* updates whose processor died before it recorded the effect
    overlap,     \* two processes held a copy of the file at the same time
    failures, deliveries

server  == <<inbox, confirmed>>
process == <<pc, mem, next, upto, result>>
history == <<effects, told, seen, torn, overlap>>
bounds  == <<failures, deliveries>>
vars    == <<server, control, process, history, bounds>>

Actors == Processors \cup Writers
Ids    == 1..MaxUpdates

(* The control state: last_update_id, whether a stock search waits for its *)
(* number, pending_photo_note, the applied ids (one list stands for those  *)
(* of memos, checks and progress notes), the daily count, and the active   *)
(* intraday batch (0: none) with its count.                                *)
NewControl == [last |-> 0, pending |-> FALSE, note |-> FALSE, tasks |-> <<>>, photos |-> <<>>,
               shown |-> 0, batch |-> 0, paged |-> 0]

Init ==
    /\ inbox = <<>> /\ confirmed = 0 /\ control = NewControl
    /\ pc = [a \in Actors |-> "idle"] /\ mem = [a \in Actors |-> NewControl]
    /\ next = [p \in Processors |-> 0] /\ upto = [p \in Processors |-> 0]
    /\ result = [p \in Processors |-> "done"]
    /\ effects = [u \in Ids |-> 0] /\ told = [u \in Ids |-> {}]
    /\ seen = [b \in 0..MaxDeliveries |-> {}]
    /\ torn = {} /\ overlap = FALSE
    /\ failures = 0 /\ deliveries = 0

-----------------------------------------------------------------------------
Larger(a, b)  == IF a > b THEN a ELSE b
Smaller(a, b) == IF a < b THEN a ELSE b

Goto(a, where) == pc' = [pc EXCEPT ![a] = where]

(* The process is done with its copy and its locals. *)
Leave(a) ==
    /\ Goto(a, "idle")
    /\ mem' = [mem EXCEPT ![a] = NewControl]
    /\ IF a \in Processors
       THEN /\ next' = [next EXCEPT ![a] = 0] /\ upto' = [upto EXCEPT ![a] = 0]
            /\ result' = [result EXCEPT ![a] = "done"]
       ELSE UNCHANGED <<next, upto, result>>

(* Mutation: the id is not recorded. *)
Marked_Not(ids, u) == ids

(* mark_*_update_applied: append once, keep the last KeepLast. *)
Marked(ids, u) ==
    LET all == IF u \in ToSet(ids) THEN ids ELSE Append(ids, u)
    IN  SubSeq(all, Larger(1, Len(all) - KeepLast + 1), Len(all))

(* The methods of the control state. *)
ClearSearch(c) == [c EXCEPT !.pending = FALSE]
MarkTask(c, u) == [c EXCEPT !.tasks = Marked(@, u)]
MarkPhoto(c, u) == [c EXCEPT !.photos = Marked(@, u), !.note = FALSE]
SetNote(c) == [c EXCEPT !.note = TRUE]
SetIntraday(c, b, n) == [c EXCEPT !.batch = b, !.paged = n]
ClearIntraday(c) == SetIntraday(c, 0, 0)
SetDelivered(c, n) == [c EXCEPT !.shown = n, !.batch = 0, !.paged = 0]

(* The bot receives an update. *)
Arrive ==
    /\ Len(inbox) < MaxUpdates
    /\ \E k \in Kinds : inbox' = Append(inbox, k)
    /\ UNCHANGED <<confirmed, control, process, history, bounds>>

(* Mutation: the loaded offset is one too far. *)
Load_Skips(a) ==
    /\ pc[a] = "idle"
    /\ mem' = [mem EXCEPT ![a] = [control EXCEPT !.last = IF @ = 0 THEN 0 ELSE @ + 1]]
    /\ overlap' = (overlap \/ \E b \in Actors \ {a} : pc[b] # "idle")
    /\ Goto(a, "loaded")

(* load_control_state: a private copy of the whole file. *)
Load(a) ==
    /\ pc[a] = "idle"
    /\ mem' = [mem EXCEPT ![a] = control]
    /\ overlap' = (overlap \/ \E b \in Actors \ {a} : pc[b] # "idle")
    /\ Goto(a, "loaded")

(* An iteration of the loop begins. *)
Begin(p) ==
    /\ Load(p)
    /\ UNCHANGED <<server, control, next, upto, result, effects, told, seen, torn, bounds>>

(* getUpdates with the offset of the copy; without an answer nothing is saved. *)
Fetch(p) ==
    /\ pc[p] = "loaded"
    /\ confirmed' = Larger(confirmed, mem[p].last)
    /\ IF confirmed' < Len(inbox)
       THEN /\ next' = [next EXCEPT ![p] = confirmed' + 1]
            /\ upto' = [upto EXCEPT ![p] = Len(inbox)]
            /\ Goto(p, "handle")
            /\ UNCHANGED <<mem, result>>
       ELSE Leave(p)
    /\ UNCHANGED <<inbox, control, history, bounds>>

Kind(p)  == inbox[next[p]]

(* After an update: the next one, or the save after the loop. *)
Advance(p) ==
    IF next[p] < upto[p]
    THEN next' = [next EXCEPT ![p] = @ + 1] /\ Goto(p, "handle")
    ELSE next' = next /\ Goto(p, "finish")

Passed(c, u) == [c EXCEPT !.last = Larger(@, u)]

(* Mutation: an image never continues a /photo note. *)
IsPhoto_Captioned(p) == Kind(p) = "captioned"

IsPhoto(p) == Kind(p) = "captioned" \/ (Kind(p) = "image" /\ mem[p].note)

(* Mutation: the offset does not move. *)
Skip_Stays(p) ==
    /\ pc[p] = "handle"
    /\ Kind(p) = "other" \/ (Kind(p) = "image" /\ ~IsPhoto(p))
    /\ mem' = mem /\ control' = mem[p]
    /\ Advance(p)
    /\ UNCHANGED <<server, upto, result, history, bounds>>

(* A foreign chat, no text, or no command: the offset moves, and no more. *)
Skip(p) ==
    /\ pc[p] = "handle"
    /\ Kind(p) = "other" \/ (Kind(p) = "image" /\ ~IsPhoto(p))
    /\ mem' = [mem EXCEPT ![p] = Passed(@, next[p])]
    /\ control' = mem'[p]
    /\ Advance(p)
    /\ UNCHANGED <<server, upto, result, history, bounds>>

Applied(p) == next[p] \in ToSet(IF Kind(p) = "task" THEN mem[p].tasks ELSE mem[p].photos)

(* A memo, task, check event or photo is stored and its id marked. *)
Apply(p) ==
    /\ pc[p] = "handle"
    /\ Kind(p) = "task" \/ IsPhoto(p)
    /\ ~Applied(p)
    /\ effects' = [effects EXCEPT ![next[p]] = @ + 1]
    /\ mem' = [mem EXCEPT ![p] = IF Kind(p) = "task" THEN MarkTask(ClearSearch(@), next[p])
                                 ELSE MarkPhoto(ClearSearch(@), next[p])]
    /\ result' = [result EXCEPT ![p] = "done"]
    /\ Goto(p, "save")
    /\ UNCHANGED <<server, control, next, upto, told, seen, torn, overlap, bounds>>

(* The id is marked already: only the answer is made again. *)
ApplyAgain(p) ==
    /\ pc[p] = "handle"
    /\ Kind(p) = "task" \/ IsPhoto(p)
    /\ Applied(p)
    /\ mem' = [mem EXCEPT ![p] = ClearSearch(@)]
    /\ result' = [result EXCEPT ![p] = "done"]
    /\ Goto(p, "save")
    /\ UNCHANGED <<server, control, next, upto, history, bounds>>

(* A task that does nothing: an action that failed, or only its usage text. *)
Decline(p) ==
    /\ pc[p] = "handle"
    /\ Kind(p) = "task"
    /\ mem' = [mem EXCEPT ![p] = ClearSearch(@)]
    /\ result' = [result EXCEPT ![p] = "failed"]
    /\ Goto(p, "save")
    /\ UNCHANGED <<server, control, next, upto, history, bounds>>

(* /photo without an image: the next image is the photo. *)
Note(p) ==
    /\ pc[p] = "handle"
    /\ Kind(p) = "note"
    /\ mem' = [mem EXCEPT ![p] = SetNote(ClearSearch(@))]
    /\ result' = [result EXCEPT ![p] = "done"]
    /\ Goto(p, "save")
    /\ UNCHANGED <<server, control, next, upto, history, bounds>>

(* What has side effects is saved before the answer is sent. *)
Save(p) ==
    /\ pc[p] = "save"
    /\ control' = mem[p]
    /\ Goto(p, "send")
    /\ UNCHANGED <<server, mem, next, upto, result, history, bounds>>

(* A stock search: its candidates wait for a number, or there are none. *)
Lookup(p) ==
    /\ pc[p] = "handle"
    /\ Kind(p) = "lookup"
    /\ \E found \in BOOLEAN : mem' = [mem EXCEPT ![p].pending = found]
    /\ result' = [result EXCEPT ![p] = "done"]
    /\ Goto(p, "send")
    /\ UNCHANGED <<server, control, next, upto, history, bounds>>

(* A number: nothing to choose from or out of range; or chosen, or too late. *)
Pick(p) ==
    /\ pc[p] = "handle"
    /\ Kind(p) = "pick"
    /\ \/ mem' = mem
       \/ mem' = [mem EXCEPT ![p] = ClearSearch(@)]
    /\ result' = [result EXCEPT ![p] = "done"]
    /\ Goto(p, "send")
    /\ UNCHANGED <<server, control, next, upto, history, bounds>>

(* Every other command ends the search and is answered. *)
Answer(p) ==
    /\ pc[p] = "handle"
    /\ Kind(p) \in {"status"} \cup Paging
    /\ mem' = [mem EXCEPT ![p] = ClearSearch(@)]
    /\ result' = [result EXCEPT ![p] = "done"]
    /\ Goto(p, "send")
    /\ UNCHANGED <<server, control, next, upto, history, bounds>>

-----------------------------------------------------------------------------
(* Paging.                                                                 *)

(* The batch pages while it has stocks left; /reset starts it again. *)
From(c, k) == IF k = "reset" THEN 0 ELSE IF c.batch # 0 THEN c.paged ELSE c.shown
OnBatch(c, k) == c.batch # 0 /\ From(c, k) < Blocks

(* The page an answer shows: of the batch or of the daily summary, the     *)
(* stocks after Start up to Reach; none are left when Start is the end.    *)
Source(c, k) == IF OnBatch(c, k) THEN c.batch ELSE 0
Start(c, k) == IF OnBatch(c, k) \/ k = "reset" THEN From(c, k) ELSE c.shown
Reach(c, k) == IF k = "all" THEN Blocks ELSE Smaller(Blocks, Start(c, k) + PageSize)

(* Mutation: the count is that of a whole page, although fewer are left. *)
Turned_NoMin(c, k) ==
    IF OnBatch(c, k)
    THEN SetIntraday(c, c.batch, Start(c, k) + PageSize)
    ELSE SetDelivered(c, Start(c, k) + PageSize)

(* The state after the page was sent: a finished batch is cleared, a daily *)
(* page makes the daily summary active.                                    *)
Turned(c, k) ==
    IF OnBatch(c, k)
    THEN IF Reach(c, k) >= Blocks THEN ClearIntraday(c)
         ELSE SetIntraday(c, c.batch, Reach(c, k))
    ELSE IF Start(c, k) >= Blocks THEN ClearIntraday(c)
         ELSE SetDelivered(c, Reach(c, k))

(* The operator reads the answer. *)
Receive(p) ==
    /\ told' = [told EXCEPT ![next[p]] = @ \cup {result[p]}]
    /\ seen' = IF Kind(p) \in Paging
               THEN [seen EXCEPT ![Source(mem[p], Kind(p))] = @ \cup
                        (Start(mem[p], Kind(p)) + 1)..Reach(mem[p], Kind(p))]
               ELSE seen

(* A page goes out as one message, however many stocks it has. *)
Fits(p) ==
    Kind(p) \in Paging => Reach(mem[p], Kind(p)) - Start(mem[p], Kind(p)) <= Fit

Send(p) ==
    /\ pc[p] = "send" /\ Fits(p)
    /\ Receive(p)
    /\ Goto(p, "commit")
    /\ UNCHANGED <<server, control, mem, next, upto, result, effects, torn, overlap, bounds>>

(* An exception, or the death of the worker, which is started again: the   *)
(* copy is gone, and so is an effect that was not saved.  A send that      *)
(* raises may have reached the operator.                                   *)
Raise(p) ==
    /\ pc[p] # "idle"
    /\ failures < MaxFailures /\ failures' = failures + 1
    /\ \/ UNCHANGED <<told, seen>>
       \/ pc[p] = "send" /\ Fits(p) /\ Receive(p)
    /\ torn' = IF pc[p] = "save" THEN torn \cup {next[p]} ELSE torn
    /\ Leave(p)
    /\ UNCHANGED <<server, control, effects, overlap, deliveries>>

(* Telegram refuses a message that is too long, every time it is tried. *)
Refuse(p) ==
    /\ pc[p] = "send" /\ ~Fits(p)
    /\ Leave(p)
    /\ UNCHANGED <<server, control, history, bounds>>

(* The answer was sent: the counts and the offset move and are saved. *)
Commit(p) ==
    /\ pc[p] = "commit"
    /\ mem' = [mem EXCEPT ![p] =
          Passed(IF Kind(p) \in Paging THEN Turned(@, Kind(p)) ELSE @, next[p])]
    /\ control' = mem'[p]
    /\ Advance(p)
    /\ UNCHANGED <<server, upto, result, history, bounds>>

(* The save after the loop. *)
Finish(p) ==
    /\ pc[p] = "finish"
    /\ control' = mem[p]
    /\ Leave(p)
    /\ UNCHANGED <<server, history, bounds>>

-----------------------------------------------------------------------------
(* Deliveries.                                                             *)

(* A delivery takes its copy: before an intraday batch is sent, after the  *)
(* daily summary was.                                                      *)
Open(w) ==
    /\ deliveries < MaxDeliveries /\ deliveries' = deliveries + 1
    /\ Load(w)
    /\ UNCHANGED <<server, control, next, upto, result, effects, told, seen, torn,
                   failures>>

(* The intraday batch is sent, with or without stocks left to page, or not *)
(* sent at all; the copy replaces the file.                                *)
CloseIntraday(w) ==
    /\ pc[w] = "loaded"
    /\ \/ /\ PageSize < Blocks
          /\ \E b \in 1..MaxDeliveries :
                /\ seen[b] = {} /\ \A c \in 1..(b - 1) : seen[c] # {}
                /\ seen' = [seen EXCEPT ![b] = 1..PageSize]
                /\ control' = SetIntraday(mem[w], b, PageSize)
       \/ /\ seen' = seen
          /\ control' = ClearIntraday(mem[w])
       \/ /\ seen' = seen
          /\ control' = mem[w]
    /\ Leave(w)
    /\ UNCHANGED <<server, effects, told, torn, overlap, bounds>>

(* The daily summary becomes the active one; all of it or a page was sent. *)
CloseDaily(w) ==
    /\ pc[w] = "loaded"
    /\ \E n \in {Blocks, Smaller(Blocks, PageSize)} :
          /\ seen' = [seen EXCEPT ![0] = @ \cup 1..n]
          /\ control' = SetDelivered(mem[w], n)
    /\ Leave(w)
    /\ UNCHANGED <<server, effects, told, torn, overlap, bounds>>

-----------------------------------------------------------------------------
(* One step of an iteration that goes well. *)
Step(p) ==
    \/ Begin(p) \/ Fetch(p) \/ Skip(p) \/ Apply(p) \/ ApplyAgain(p) \/ Note(p) \/ Save(p)
    \/ Lookup(p) \/ Pick(p) \/ Answer(p) \/ Send(p) \/ Commit(p) \/ Finish(p)

Next ==
    \/ Arrive
    \/ \E p \in Processors : Step(p) \/ Decline(p) \/ Raise(p) \/ Refuse(p)
    \/ \E w \in Writers : Open(w) \/ CloseIntraday(w) \/ CloseDaily(w)

(* The loop runs every interval_seconds and keeps going after exceptions;  *)
(* a refused message is refused each time it is tried.                     *)
Fairness == \A p \in Processors : WF_vars(Step(p) \/ Decline(p) \/ Refuse(p))

Spec     == Init /\ [][Next]_vars
FairSpec == Spec /\ Fairness
-----------------------------------------------------------------------------
Pcs == {"idle", "loaded", "handle", "save", "send", "commit", "finish"}

Controls == [last: 0..MaxUpdates, pending: BOOLEAN, note: BOOLEAN,
             tasks: Seq(Ids), photos: Seq(Ids),
             shown: 0..Blocks, batch: 0..MaxDeliveries, paged: 0..Blocks]

(* Every variable has its type and no bound is exceeded. *)
TypeOK ==
    /\ inbox \in Seq(AllKinds) /\ Len(inbox) <= MaxUpdates
    /\ confirmed \in 0..MaxUpdates /\ control \in Controls
    /\ pc \in [Actors -> Pcs] /\ mem \in [Actors -> Controls]
    /\ next \in [Processors -> 0..MaxUpdates] /\ upto \in [Processors -> 0..MaxUpdates]
    /\ result \in [Processors -> {"done", "failed"}]
    /\ effects \in [Ids -> Nat] /\ told \in [Ids -> SUBSET {"done", "failed"}]
    /\ seen \in [0..MaxDeliveries -> SUBSET (1..Blocks)]
    /\ torn \subseteq Ids /\ overlap \in BOOLEAN
    /\ failures \in 0..MaxFailures /\ deliveries \in 0..MaxDeliveries

(* An update is stored twice only if its processor died, or could not save,  *)
(* between the append and the save, or if two processes had the file open    *)
(* at once.  A failed answer, however often, repeats no effect, and keeping  *)
(* the last applied ids only is enough for that.                             *)
RepeatNeedsTornSave ==
    \A u \in Ids : effects[u] > 1 => u \in torn \/ overlap

(* The server forgets an update, and the offset passes it, only when its  *)
(* command was answered; an answer that says done is about an effect that *)
(* took place.  An image may be the exception: see StoredIsAcknowledged.     *)
PassedWasHandled ==
    \A u \in 1..Len(inbox) :
        /\ u <= Larger(confirmed, control.last) /\ inbox[u] \notin {"other", "image"}
           => told[u] # {}
        /\ inbox[u] \in {"task", "captioned"} /\ "done" \in told[u] => effects[u] > 0

(* An image the offset has passed was stored if /photo announced it: no    *)
(* command in between, failure or crash makes the note be forgotten.       *)
AnnouncedImageIsStored ==
    \A n, u \in 1..Len(inbox) :
        (/\ inbox[n] = "note" /\ inbox[u] = "image" /\ n < u /\ u <= control.last
         /\ \A v \in n..(u - 1) : inbox[v] \notin {"image", "captioned"})
        => effects[u] > 0 \/ overlap

(* The recorded counts never run ahead of what the operator was shown:     *)
(* /next leaves no stock out, whatever writes the control file.            *)
NoPageIsSkipped ==
    /\ 1..control.shown \subseteq seen[0]
    /\ control.batch # 0 => 1..control.paged \subseteq seen[control.batch]

(* Every update is passed by the offset in the end, or dropped by the      *)
(* server as handled: a failing command only delays those after it.  The   *)
(* one obstacle is an answer in front of it that is too long for Telegram. *)
EveryUpdateIsPassed ==
    \A u \in Ids :
        u <= Len(inbox) ~>
            \/ u <= Larger(confirmed, control.last)
            \/ \E p \in Processors : next[p] <= u /\ pc[p] = "send" /\ ~Fits(p)

(* Doc: "If a command was sent to the bot, process-telegram-commands       *)
(* replies and advances update id."                                        *)
RepliesAndAdvances ==
    \A u \in Ids :
        u <= Len(inbox) ~> /\ u <= Larger(confirmed, control.last)
                           /\ inbox[u] \in {"other", "image"} \/ told[u] # {}

(* A photo the offset has passed was acknowledged to the operator.         *)
StoredIsAcknowledged ==
    \A u \in 1..Len(inbox) :
        u <= control.last /\ effects[u] > 0 => told[u] # {}
=============================================================================
