----------------------------- MODULE TossProvider -----------------------------
(***************************************************************************)
(* One provider of Toss market data and the calls that share it: the       *)
(* Next.js services with their TossOpenApiClient (promises on one event    *)
(* loop) or the Python TossPriorityQuoteProvider (threads and two locks).  *)
(* `runtime` says which; where they agree one action stands for both.      *)
(*                                                                         *)
(* A call asks for one key (a date and symbols).  Unless the cache answers *)
(* or the same key is being fetched already, it sends a request set:       *)
(* Required GETs, then one whose failure is forgiven.  Every GET carries   *)
(* the one access token of the provider.  Toss accepts the token it issued *)
(* last, and may forget it at any time: it expires, or another program     *)
(* with the same credentials asks for one.                                 *)
(***************************************************************************)
EXTENDS Integers, FiniteSets

CONSTANTS
  Calls,      \* requests of the web surface in progress at a time
  Keys,       \* cache keys
  Runtimes,   \* which of "next" and "python"
  Required,   \* GETs of a request set that must succeed
  NoCall,     \* nobody
  NoKey,      \* no key
  MaxTokens   \* bound: tokens Toss issues to this provider

ASSUME TossAssumption ==
  /\ NoCall \notin Calls /\ NoKey \notin Keys
  /\ Runtimes \subseteq {"next", "python"}
  /\ Required \in Nat \ {0} /\ MaxTokens \in Nat

None == 0                        \* no token; the others count from 1
Tokens == 0..MaxTokens

VARIABLES
  runtime,
  token,      \* token / _token
  due,        \* Next: it expires within 30 seconds
  used,       \* automaticReissueUsed / _automatic_reissue_used
  asking,     \* whose tokenRequest is pending / who holds _token_lock to ask
  cache,      \* of each key: nothing, or an answer up to 30 or 300 seconds old
  inflight,   \* of each key: the call that fetches it
  call,       \* what each call does next, and its locals
  accepted,   \* Toss: the token it accepts
  issued,     \* Toss: how many it has issued
  refused,    \* history: tokens a 401 was received for
  reissues,   \* history: token requests sent because of a 401
  lost        \* history: those of them that brought no token

client  == <<token, due, used, asking>>
store   == <<cache, inflight>>
toss    == <<accepted, issued>>
history == <<refused, reissues, lost>>
vars == <<runtime, token, due, used, asking, cache, inflight, call, accepted, issued,
          refused, reissues, lost>>

Done == {"answered", "denied"}       \* ... and free for another request
Fetching == {"token", "posting", "issued", "get", "unauthorized", "exhausted", "fetched"}
Places == Done \union Fetching \union {"waiting", "woken", "stored", "failed", "broken"}

(* The GET of the request set a call is at, the token of that GET, and     *)
(* whether it is repeated after a 401: at first, or when they do not       *)
(* matter.                                                                 *)
Local(l, k) == [at |-> l, key |-> k, part |-> 1, tok |-> None, again |-> FALSE]

Init ==
  /\ runtime \in Runtimes
  /\ token = None /\ due = FALSE /\ used = FALSE /\ asking = NoCall
  /\ cache = [k \in Keys |-> "none"]
  /\ inflight = [k \in Keys |-> NoCall]
  /\ call = [c \in Calls |-> Local("answered", NoKey)]
  /\ accepted = None /\ issued = 0
  /\ refused = {} /\ reissues = 0 /\ lost = 0

Goto(c, l) == call' = [call EXCEPT ![c].at = l]

-------------------------------------------------------------------------------
(* The cache and the requests in flight. *)

(* The answer is at most 30 seconds old, or the same key is being fetched. *)
Lookup(c, k) ==
  /\ call[c].at \in Done
  /\ cache[k] = "fresh" \/ inflight[k] # NoCall
  /\ call' = [call EXCEPT ![c] = IF cache[k] = "fresh" THEN Local("answered", NoKey)
                                                       ELSE Local("waiting", k)]
  /\ UNCHANGED <<runtime, client, store, toss, history>>

(* Mutation: the entry in flight is not looked for. *)
Fetch_Unshared(c, k) ==
  /\ call[c].at \in Done
  /\ cache[k] # "fresh"
  /\ inflight' = [inflight EXCEPT ![k] = c]
  /\ call' = [call EXCEPT ![c] = Local("token", k)]
  /\ UNCHANGED <<runtime, client, cache, toss, history>>

(* Otherwise the call fetches it. *)
Fetch(c, k) ==
  /\ call[c].at \in Done
  /\ cache[k] # "fresh" /\ inflight[k] = NoCall
  /\ inflight' = [inflight EXCEPT ![k] = c]
  /\ call' = [call EXCEPT ![c] = Local("token", k)]
  /\ UNCHANGED <<runtime, client, cache, toss, history>>

Store(c) ==
  /\ call[c].at = "fetched"
  /\ cache' = [cache EXCEPT ![call[c].key] = "fresh"]
  /\ Goto(c, "stored")
  /\ UNCHANGED <<runtime, client, inflight, toss, history>>

(* What is left without an answer from Toss: one up to 300 seconds old. *)
Recent(k) == Local(IF cache[k] = "none" THEN "denied" ELSE "answered", NoKey)

(* How the fetch ended: with what it stored, with what is recent, or with  *)
(* an exception that nobody expected.                                      *)
Outcome(c) ==
  CASE call[c].at = "stored" -> Local("answered", NoKey)
    [] call[c].at = "failed" -> Recent(call[c].key)
    [] call[c].at = "broken" -> Local("denied", NoKey)

(* Mutation: an exception nobody expected leaves the entry in flight. *)
Conclude_LeftInFlight(c) ==
  LET k == call[c].key
      told == call[c].at # "broken"
  IN
  /\ call[c].at \in {"stored", "failed", "broken"}
  /\ inflight' = IF told THEN [inflight EXCEPT ![k] = NoCall] ELSE inflight
  /\ call' = [d \in Calls |->
       IF d = c THEN Outcome(c)
       ELSE IF ~told \/ call[d] # Local("waiting", k) THEN call[d]
       ELSE IF runtime = "next" THEN Recent(k) ELSE Local("woken", k)]
  /\ UNCHANGED <<runtime, client, cache, toss, history>>

(* Those who wait are told at once (Next), or woken to look into the cache *)
(* when they run (Python).                                                 *)
Conclude(c) ==
  LET k == call[c].key IN
  /\ call[c].at \in {"stored", "failed", "broken"}
  /\ inflight' = [inflight EXCEPT ![k] = NoCall]
  /\ call' = [d \in Calls |->
       IF d = c THEN Outcome(c)
       ELSE IF call[d] # Local("waiting", k) THEN call[d]
       ELSE IF runtime = "next" THEN Recent(k) ELSE Local("woken", k)]
  /\ UNCHANGED <<runtime, client, cache, toss, history>>

(* A waiter runs again, or has waited for 4 times the timeout of a request *)
(* (the quotes of Next wait without end).                                  *)
LookAgain(c) ==
  /\ call[c].at \in {"woken", "waiting"}
  /\ call' = [call EXCEPT ![c] = Recent(call[c].key)]
  /\ UNCHANGED <<runtime, client, store, toss, history>>

(* Time passes. *)
Age(k) ==
  /\ cache[k] # "none"
  /\ cache' = [cache EXCEPT ![k] = IF @ = "fresh" THEN "stale" ELSE "none"]
  /\ UNCHANGED <<runtime, client, inflight, call, toss, history>>

-------------------------------------------------------------------------------
(* The access token. *)

(* A GET has failed for good: the last one of the set is forgiven. *)
Missed(c) ==
  Local(IF call[c].part <= Required THEN "failed" ELSE "fetched", call[c].key)

(* getToken / _get_token *)
Usable == token # None /\ ~due

Carry(c, t) == [call[c] EXCEPT !.at = "get", !.tok = t]

TakeToken(c) ==
  /\ call[c].at = "token"
  /\ asking = NoCall /\ Usable
  /\ call' = [call EXCEPT ![c] = Carry(c, token)]
  /\ UNCHANGED <<runtime, client, store, toss, history>>

(* Mutation: a pending request is not joined, the lock not taken. *)
AskToken_Unshared(c) ==
  /\ call[c].at = "token"
  /\ ~Usable
  /\ asking' = c
  /\ reissues' = reissues + (IF call[c].again THEN 1 ELSE 0)
  /\ Goto(c, "posting")
  /\ UNCHANGED <<runtime, token, due, used, store, toss, refused, lost>>

(* Whoever comes later joins the request (Next) or waits for the lock. *)
AskToken(c) ==
  /\ call[c].at = "token"
  /\ asking = NoCall /\ ~Usable
  /\ asking' = c
  /\ reissues' = reissues + (IF call[c].again THEN 1 ELSE 0)
  /\ Goto(c, "posting")
  /\ UNCHANGED <<runtime, token, due, used, store, toss, refused, lost>>

(* Toss issues a token; the one before is no longer accepted. *)
Issue(c) ==
  /\ call[c].at = "posting"
  /\ issued < MaxTokens
  /\ issued' = issued + 1
  /\ accepted' = issued'
  /\ call' = [call EXCEPT ![c].at = "issued", ![c].tok = issued']
  /\ UNCHANGED <<runtime, client, store, history>>

(* In Next everyone who needs a token by then has joined the request. *)
Joined(c) ==
  {d \in Calls : d = c \/ (runtime = "next" /\ call[d].at = "token")}

KeepToken(c) ==
  /\ call[c].at = "issued"
  /\ token' = call[c].tok /\ due' = FALSE /\ asking' = NoCall
  /\ call' = [d \in Calls |-> IF d \in Joined(c) THEN Carry(d, token') ELSE call[d]]
  /\ UNCHANGED <<runtime, used, store, toss, history>>

(* Toss refuses, or the request or its answer is lost: everyone who joined *)
(* fails, and the client keeps what token it had.                          *)
LoseToken(c) ==
  /\ call[c].at \in {"posting", "issued"}
  /\ asking' = NoCall
  /\ lost' = lost + (IF call[c].again THEN 1 ELSE 0)
  /\ call' = [d \in Calls |-> IF d \in Joined(c) THEN Missed(d) ELSE call[d]]
  /\ UNCHANGED <<runtime, token, due, used, store, toss, refused, reissues>>

-------------------------------------------------------------------------------
(* A GET, and what follows a 401. *)

Succeed(c) ==
  /\ call[c].at = "get"
  /\ call[c].tok = accepted
  /\ call' = [call EXCEPT ![c] =
       IF call[c].part <= Required
         THEN [Local("token", call[c].key) EXCEPT !.part = call[c].part + 1]
         ELSE Local("fetched", call[c].key)]
  /\ UNCHANGED <<runtime, client, store, toss, history>>

(* A 401: the first of a GET is followed by a repetition, if there can be. *)
Unauthorized(c) ==
  /\ call[c].at = "get"
  /\ call[c].tok # accepted
  /\ refused' = refused \union {call[c].tok}
  /\ call' = [call EXCEPT ![c] =
       IF call[c].again THEN Missed(c) ELSE [call[c] EXCEPT !.at = "unauthorized"]]
  /\ UNCHANGED <<runtime, client, store, toss, reissues, lost>>

(* Timeout, transport error, HTTP error, unexpected content. *)
Fail(c) ==
  /\ call[c].at = "get"
  /\ call' = [call EXCEPT ![c] = Missed(c)]
  /\ UNCHANGED <<runtime, client, store, toss, history>>

(* An http.client.HTTPException (a reply that is cut short) is neither an  *)
(* OSError nor a RuntimeError: it ends the whole call, whichever request   *)
(* it hits, and leaves the recent answer unused.                           *)
Break(c) ==
  /\ runtime = "python"
  /\ call[c].at \in {"get", "posting", "issued"}
  /\ IF call[c].at = "get" THEN UNCHANGED <<asking, lost>>
     ELSE asking' = NoCall /\ lost' = lost + (IF call[c].again THEN 1 ELSE 0)
  /\ call' = [call EXCEPT ![c] = Local("broken", call[c].key)]
  /\ UNCHANGED <<runtime, token, due, used, store, toss, refused, reissues>>

(* In Python the recovery needs the lock. *)
MayRecover(c) ==
  call[c].at = "unauthorized" /\ (runtime = "next" \/ asking = NoCall)

(* Another call has the new token already, or (Next) is about to. *)
UseOther(c) ==
  /\ MayRecover(c)
  /\ token # call[c].tok
  /\ call' = [call EXCEPT ![c] =
       IF token = None THEN [Local("token", call[c].key) EXCEPT !.part = call[c].part, !.again = TRUE]
       ELSE [Carry(c, token) EXCEPT !.again = TRUE]]
  /\ UNCHANGED <<runtime, client, store, toss, history>>

(* Mutation: the budget is not spent. *)
Reissue_Unbounded(c) ==
  /\ MayRecover(c)
  /\ token = call[c].tok /\ ~used
  /\ token' = IF runtime = "next" THEN None ELSE token
  /\ asking' = IF asking = NoCall THEN c ELSE asking
  /\ reissues' = reissues + (IF asking = NoCall THEN 1 ELSE 0)
  /\ call' = [call EXCEPT ![c] = [Local(IF asking = NoCall THEN "posting" ELSE "token", @.key)
                                    EXCEPT !.part = call[c].part, !.again = TRUE]]
  /\ UNCHANGED <<runtime, due, used, store, toss, refused, lost>>

(* The first time the current token is refused it is given up and another  *)
(* one asked for.  Python keeps the refused one until it has another.      *)
Reissue(c) ==
  /\ MayRecover(c)
  /\ token = call[c].tok /\ ~used
  /\ used' = TRUE
  /\ token' = IF runtime = "next" THEN None ELSE token
  /\ asking' = IF asking = NoCall THEN c ELSE asking
  /\ reissues' = reissues + (IF asking = NoCall THEN 1 ELSE 0)
  /\ call' = [call EXCEPT ![c] = [Local(IF asking = NoCall THEN "posting" ELSE "token", @.key)
                                    EXCEPT !.part = call[c].part, !.again = TRUE]]
  /\ UNCHANGED <<runtime, due, store, toss, refused, lost>>

(* Mutation: the budget is looked at before the tokens are compared. *)
Exhaust_AnyToken(c) ==
  /\ MayRecover(c)
  /\ used
  /\ Goto(c, "exhausted")
  /\ UNCHANGED <<runtime, client, store, toss, history>>

(* "Toss automatic token reissue budget is exhausted." *)
Exhaust(c) ==
  /\ MayRecover(c)
  /\ token = call[c].tok /\ used
  /\ Goto(c, "exhausted")
  /\ UNCHANGED <<runtime, client, store, toss, history>>

GiveUp(c) ==
  /\ call[c].at = "exhausted"
  /\ call' = [call EXCEPT ![c] = Missed(c)]
  /\ UNCHANGED <<runtime, client, store, toss, history>>

-------------------------------------------------------------------------------
(* Toss and the clock. *)

(* The token expires, or Toss issues one to another program. *)
Forget ==
  /\ accepted # None
  /\ accepted' = None
  /\ UNCHANGED <<runtime, client, store, call, issued, history>>

(* Next renews a token that expires within 30 seconds; Python never looks. *)
FallDue ==
  /\ runtime = "next" /\ token # None /\ ~due
  /\ due' = TRUE
  /\ UNCHANGED <<runtime, token, used, asking, store, call, toss, history>>

Recover(c) == UseOther(c) \/ Reissue(c) \/ Exhaust(c) \/ GiveUp(c)
Get(c) == Succeed(c) \/ Unauthorized(c) \/ Fail(c) \/ Break(c)
GetToken(c) == TakeToken(c) \/ AskToken(c) \/ Issue(c) \/ KeepToken(c) \/ LoseToken(c)
WokenUp(c) == call[c].at = "woken" /\ LookAgain(c)

(* What a call does once it has begun. *)
Step(c) == GetToken(c) \/ Get(c) \/ Recover(c) \/ Store(c) \/ Conclude(c) \/ WokenUp(c)

Next ==
  \/ \E c \in Calls : Step(c) \/ LookAgain(c) \/ (\E k \in Keys : Lookup(c, k) \/ Fetch(c, k))
  \/ \E k \in Keys : Age(k)
  \/ Forget \/ FallDue

Spec == Init /\ [][Next]_vars

(* A call goes on: each HTTP request ends, if only by its timeout, and who *)
(* waits for the lock gets it in the end.  Nobody needs to lose patience.  *)
FairSpec == Spec /\ \A c \in Calls : SF_vars(Step(c))

-------------------------------------------------------------------------------
Locals ==
  [at : Places, key : Keys \union {NoKey}, part : 1..(Required + 1), tok : Tokens, again : BOOLEAN]

TypeOK ==
  /\ runtime \in Runtimes
  /\ token \in Tokens /\ due \in BOOLEAN /\ used \in BOOLEAN
  /\ asking \in Calls \union {NoCall}
  /\ cache \in [Keys -> {"none", "fresh", "stale"}]
  /\ inflight \in [Keys -> Calls \union {NoCall}]
  /\ call \in [Calls -> Locals]
  /\ accepted \in Tokens /\ issued \in Tokens
  /\ refused \subseteq Tokens
  /\ reissues \in Nat /\ lost \in Nat

(* Concurrent requests never bring an older token back: a token the        *)
(* provider newly keeps is the one Toss issued last, so that its own        *)
(* requests do not make each other's token invalid.  What it has kept       *)
(* since can be out of date, after a token request whose answer was lost.   *)
TokenIsNewest == [][token' \notin {None, token} => token' = issued]_vars

(* A 401 leads to one token request in the provider's lifetime, however    *)
(* many GETs are refused; only Next may try again, for a request that      *)
(* brought nothing.                                                        *)
ReissueIsBounded ==
  reissues <= 1 + (IF runtime = "next" THEN lost ELSE 0)

(* Documentation and test: one token request because of a 401 in the        *)
(* provider's lifetime.                                                    *)
OneReissue == reissues <= 1

(* One token that is no longer accepted does not use the budget up, however *)
(* many calls it was refused to: the others repeat their GET with the new  *)
(* one.  Python counts a reissue that brought nothing.                     *)
ExhaustedMeansSpent ==
  \A c \in Calls : call[c].at = "exhausted" =>
    Cardinality(refused) > 1 \/ (runtime = "python" /\ lost > 0)

(* Concurrent requests of one key produce one request set, and none within *)
(* 30 seconds of an answer.                                                *)
OneRequestSet ==
  \A c \in Calls : call[c].at \in Fetching =>
    /\ cache[call[c].key] # "fresh"
    /\ \A d \in Calls : call[d].at \in Fetching /\ call[d].key = call[c].key => d = c

(* An error is the answer only if Toss gave none in the last 300 seconds,  *)
(* for the call that asked Toss and for those that waited for it.          *)
ErrorMeansNothingRecent ==
  [][\A c \in Calls : call'[c].at = "denied" /\ call[c].at \notin {"denied", "broken"} =>
       cache[call[c].key] = "none"]_vars

(* Every call is answered, be it by an error: no failure of Toss leaves    *)
(* the lock, the pending token request or the entry in flight behind.      *)
EveryCallIsAnswered ==
  \A c \in Calls : call[c].at \notin Done ~> call[c].at \in Done
===============================================================================
