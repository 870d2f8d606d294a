------------------------- MODULE TossProvider_proofs -------------------------
(***************************************************************************)
(* What TossProvider promises for any number of calls, keys, GETs and      *)
(* tokens, in either runtime.                                              *)
(***************************************************************************)
EXTENDS TossProvider, FiniteSetTheorems, TLAPS

-----------------------------------------------------------------------------
(* The inductive invariant.                                                *)

Owning == Fetching \union {"stored", "failed", "broken"}
Carrying == {"get", "unauthorized", "exhausted"}

(* Who fetches a key is in flight for it; what is fetched is not fresh. *)
Placed ==
  \A c \in Calls :
    /\ call[c].at \notin Done => call[c].key \in Keys
    /\ call[c].at \in Owning => inflight[call[c].key] = c
    /\ call[c].at \in Fetching => cache[call[c].key] # "fresh"

(* One call at most asks for a token. *)
OneAsks == \A c \in Calls : call[c].at \in {"posting", "issued"} <=> asking = c

(* The tokens in use are those Toss has issued, and the one being kept is  *)
(* newer than any of them.                                                 *)
TokensAreIssued ==
  /\ token <= issued /\ refused \subseteq 1..issued
  /\ \A c \in Calls :
       /\ call[c].at \in Carrying => call[c].tok \in 1..issued
       /\ call[c].at \in {"unauthorized", "exhausted"} => call[c].tok \in refused
NewestIsNew ==
  \A c \in Calls : call[c].at = "issued" =>
    /\ call[c].tok = issued /\ token < issued /\ issued \notin refused
    /\ \A d \in Calls : call[d].at \in Carrying => call[d].tok < issued

(* Whoever lacks a token after a 401 does so because the budget was spent, *)
(* which only Next answers by another request.                             *)
AgainIsSpent ==
  \A c \in Calls :
    /\ call[c].at \in Carrying /\ token = None => runtime = "next" /\ used
    /\ call[c].at = "token" /\ call[c].again => runtime = "next" /\ used /\ token = None
    /\ asking = c /\ call[c].again => used

Reasking == \E c \in Calls : asking = c /\ call[c].again

(* What of the reissues has neither failed nor been spent. *)
BudgetIsKept ==
  reissues <= (IF runtime = "next" THEN lost ELSE 0)
              + (IF used /\ (runtime = "python" \/ token # None \/ Reasking) THEN 1 ELSE 0)

(* The budget was spent on another token than the one kept now. *)
Replaced == \E t \in refused : t # token
SpentForCause ==
  /\ used /\ runtime = "next" => Replaced
  /\ used /\ runtime = "python" => lost > 0 \/ Replaced \/ (Reasking /\ refused # {})

(* ... so that a call that finds it spent was refused a second one. *)
Twice == \E t, u \in refused : t # u
ExhaustedForCause ==
  \A c \in Calls : call[c].at = "exhausted" => Twice \/ (runtime = "python" /\ lost > 0)

TossInv ==
  /\ TypeOK /\ Placed /\ OneAsks /\ TokensAreIssued /\ NewestIsNew
  /\ AgainIsSpent /\ BudgetIsKept /\ SpentForCause /\ ExhaustedForCause

USE TossAssumption DEF client, store, toss, history, None, Tokens

-----------------------------------------------------------------------------
(* The locals of a call. *)
LEMMA LocalFact ==
  ASSUME NEW l \in Places, NEW k \in Keys \union {NoKey} PROVE Local(l, k) \in Locals
BY DEF Local, Locals

LEMMA GotoFact ==
  ASSUME TypeOK, NEW c \in Calls, NEW l \in Places, Goto(c, l)
  PROVE  /\ call' \in [Calls -> Locals]
         /\ call'[c] = [call[c] EXCEPT !.at = l]
         /\ \A d \in Calls \ {c} : call'[d] = call[d]
<1>1. call[c] \in Locals
  BY DEF TypeOK
<1>2. [call[c] EXCEPT !.at = l] \in Locals
  BY <1>1 DEF Locals
<1> QED  BY <1>2 DEF Goto, TypeOK

LEMMA CarryFact ==
  ASSUME TypeOK, NEW c \in Calls, NEW t \in Tokens PROVE Carry(c, t) \in Locals
<1>1. call[c] \in Locals
  BY DEF TypeOK
<1> QED  BY <1>1 DEF Locals, Carry, Places, Fetching

LEMMA PartFact ==
  ASSUME NEW r \in Locals, NEW n \in 1..(Required + 1), NEW b \in BOOLEAN
  PROVE  [r EXCEPT !.part = n] \in Locals /\ [r EXCEPT !.part = n, !.again = b] \in Locals
BY DEF Locals

(* A step that only replaces the locals of one call. *)
LEMMA OneCall ==
  ASSUME TypeOK, NEW c \in Calls, NEW r \in Locals, call' = [call EXCEPT ![c] = r]
  PROVE  call' \in [Calls -> Locals]
BY DEF TypeOK

LEMMA InitInv == Init => TossInv
<1> SUFFICES ASSUME Init PROVE TossInv
  OBVIOUS
<1> USE DEF Init, Local
<1>1. TypeOK
  <2>1. Local("answered", NoKey) \in Locals
    BY LocalFact DEF Places, Done
  <2>2. call \in [Calls -> Locals]
    BY <2>1
  <2>3. 0 \in Tokens
    OBVIOUS
  <2>4. /\ cache \in [Keys -> {"none", "fresh", "stale"}]
        /\ inflight \in [Keys -> Calls \union {NoCall}]
    OBVIOUS
  <2>5. runtime \in Runtimes /\ asking \in Calls \union {NoCall} /\ refused \subseteq Tokens
    OBVIOUS
  <2>6. token = 0 /\ due = FALSE /\ used = FALSE /\ accepted = 0 /\ issued = 0 /\ reissues = 0 /\ lost = 0
    OBVIOUS
  <2> HIDE DEF Init
  <2> QED  BY <2>2, <2>3, <2>4, <2>5, <2>6 DEF TypeOK
<1>2. Placed /\ OneAsks
  BY DEF Placed, OneAsks, Owning, Fetching, Done
<1>3. TokensAreIssued /\ NewestIsNew /\ AgainIsSpent
  BY DEF TokensAreIssued, NewestIsNew, AgainIsSpent, Carrying
<1>4. BudgetIsKept /\ SpentForCause /\ ExhaustedForCause
  BY DEF BudgetIsKept, SpentForCause, ExhaustedForCause
<1> QED  BY <1>1, <1>2, <1>3, <1>4 DEF TossInv

-----------------------------------------------------------------------------
(* Steps that only concern one side.                                       *)

ClientInv ==
  /\ OneAsks /\ TokensAreIssued /\ NewestIsNew
  /\ AgainIsSpent /\ BudgetIsKept /\ SpentForCause /\ ExhaustedForCause

(* A call that gets out of the client, or begins to need a token, takes    *)
(* nothing along.                                                          *)
LEMMA OutsideClient ==
  ASSUME TypeOK, ClientInv, UNCHANGED <<runtime, client, toss, history>>,
         \A d \in Calls : call'[d] = call[d] \/
            /\ call[d].at \notin {"posting", "issued"}
            /\ call'[d].at \notin Carrying \union {"posting", "issued"}
            /\ call'[d].at = "token" => ~call'[d].again
  PROVE  ClientInv'
<1> USE DEF ClientInv, Carrying
<1>1. OneAsks'
  BY DEF OneAsks
<1>2. TokensAreIssued' /\ NewestIsNew'
  BY DEF TokensAreIssued, NewestIsNew
<1>3. \A d \in Calls : asking = d => call'[d] = call[d]
  BY DEF OneAsks
<1>4. AgainIsSpent'
  BY <1>3 DEF AgainIsSpent
<1>5. Reasking' = Reasking
  BY <1>3 DEF Reasking
<1>6. BudgetIsKept' /\ SpentForCause'
  BY <1>5 DEF BudgetIsKept, SpentForCause, Replaced
<1>7. ExhaustedForCause'
  BY DEF ExhaustedForCause, Twice
<1> QED  BY <1>1, <1>2, <1>4, <1>6, <1>7

(* A call that goes on with its request set, or ends it, stays in flight. *)
LEMMA StaysPlaced ==
  ASSUME Placed, UNCHANGED store,
         \A d \in Calls : call'[d] = call[d] \/
            /\ call[d].at \in Fetching /\ call'[d].key = call[d].key
            /\ call'[d].at \in Owning
  PROVE  Placed'
BY DEF Placed, Owning, Fetching, Done

(* What a failed GET leaves of the call. *)
LEMMA MissedFact ==
  ASSUME TypeOK, NEW c \in Calls
  PROVE  /\ Missed(c) \in Locals
         /\ Missed(c) \in [at : {"failed", "fetched"}, key : Keys \union {NoKey},
                           part : {1}, tok : {None}, again : {FALSE}]
         /\ Missed(c).key = call[c].key
BY DEF TypeOK, Missed, Local, Locals, Places, Done, Fetching

LEMMA RecentFact ==
  ASSUME NEW k
  PROVE  /\ Recent(k) \in Locals
         /\ Recent(k) \in [at : Done, key : {NoKey}, part : {1}, tok : {None}, again : {FALSE}]
BY DEF Recent, Local, Locals, Places, Done

-----------------------------------------------------------------------------
(* The cache and the requests in flight.                                   *)

LEMMA LookupInv ==
  ASSUME TossInv, NEW c \in Calls, NEW k \in Keys, Lookup(c, k) PROVE TossInv'
<1> USE DEF Lookup, TossInv, Local
<1>1. TypeOK'
  BY DEF TypeOK, Locals, Places, Done, Fetching
<1>2. Placed'
  BY DEF Placed, Owning, Fetching, Done, TypeOK
<1>3. ClientInv'
  BY OutsideClient DEF ClientInv, Carrying, Locals, Places, Done, Fetching, TypeOK
<1> QED  BY <1>1, <1>2, <1>3 DEF ClientInv

LEMMA FetchInv ==
  ASSUME TossInv, NEW c \in Calls, NEW k \in Keys, Fetch(c, k) PROVE TossInv'
<1> USE DEF Fetch, TossInv, Local
<1>1. TypeOK'
  BY DEF TypeOK, Locals, Places, Done, Fetching
<1>2. Placed'
  BY DEF Placed, Owning, Fetching, Done, TypeOK
<1>3. ClientInv'
  BY OutsideClient DEF ClientInv, Carrying, Locals, Places, Done, Fetching, TypeOK
<1> QED  BY <1>1, <1>2, <1>3 DEF ClientInv

LEMMA StoreInv ==
  ASSUME TossInv, NEW c \in Calls, Store(c) PROVE TossInv'
<1> USE DEF Store, TossInv, Goto
<1>1. TypeOK'
  <2>1. call' \in [Calls -> Locals]
    <3>1. Goto(c, "stored") /\ "stored" \in Places
      BY DEF Places, Goto
    <3> QED  BY <3>1, GotoFact DEF TossInv
  <2> QED  BY <2>1 DEF TypeOK
<1>2. Placed'
  BY DEF Placed, Owning, Fetching, Done, TypeOK
<1>3. ClientInv'
  BY OutsideClient DEF ClientInv, Carrying, Locals, Places, Done, Fetching, TypeOK
<1> QED  BY <1>1, <1>2, <1>3 DEF ClientInv

LEMMA LookAgainInv ==
  ASSUME TossInv, NEW c \in Calls, LookAgain(c) PROVE TossInv'
<1> USE DEF LookAgain, TossInv
<1>0. Recent(call[c].key) \in [at : Done, key : {NoKey}, part : {1}, tok : {None}, again : {FALSE}]
  BY RecentFact
<1>1. TypeOK'
  <2>1. call' \in [Calls -> Locals]
    BY RecentFact, OneCall
  <2> QED  BY <2>1 DEF TypeOK
<1>2. Placed'
  BY <1>0 DEF Placed, Owning, Fetching, Done, TypeOK
<1>3. ClientInv'
  BY <1>0, OutsideClient DEF ClientInv, Carrying, Locals, Places, Done, Fetching, TypeOK
<1> QED  BY <1>1, <1>2, <1>3 DEF ClientInv

LEMMA AgeInv ==
  ASSUME TossInv, NEW k \in Keys, Age(k) PROVE TossInv'
<1> USE DEF Age, TossInv
<1>1. TypeOK'
  BY DEF TypeOK, Locals, Places, Done, Fetching
<1>2. Placed'
  BY DEF Placed, Owning, Fetching, Done, TypeOK
<1>3. ClientInv'
  BY OutsideClient DEF ClientInv, Carrying, Locals, Places, Done, Fetching, TypeOK
<1> QED  BY <1>1, <1>2, <1>3 DEF ClientInv

LEMMA OutcomeFact ==
  ASSUME NEW c \in Calls, call[c].at \in {"stored", "failed", "broken"}
  PROVE  Outcome(c) \in Locals /\ Outcome(c).at \in Done
BY RecentFact DEF Outcome, Local, Locals, Places, Done

LEMMA ConcludeInv ==
  ASSUME TossInv, NEW c \in Calls, Conclude(c) PROVE TossInv'
<1> DEFINE k == call[c].key
           Free(d) == call'[d] \in Locals /\ call'[d].at \in Done
           Woken(d) == call'[d] \in Locals /\ call'[d].at = "woken" /\ call'[d].key = k
<1>1. call[c].at \in {"stored", "failed", "broken"} /\ k \in Keys /\ inflight[k] = c
  BY DEF Conclude, TossInv, Placed, Owning, Done
<1>2. /\ call' = [d \in Calls |->
             IF d = c THEN Outcome(c)
             ELSE IF call[d] # Local("waiting", k) THEN call[d]
             ELSE IF runtime = "next" THEN Recent(k) ELSE Local("woken", k)]
      /\ inflight' = [inflight EXCEPT ![k] = NoCall]
      /\ UNCHANGED <<runtime, client, cache, toss, history>>
  BY DEF Conclude
<1> HIDE DEF k
<1>3. ASSUME NEW d \in Calls
      PROVE  \/ call'[d] = call[d] /\ d # c
             \/ Free(d) /\ (d = c \/ call[d].at = "waiting")
             \/ Woken(d) /\ call[d].at = "waiting"
  <2>1. CASE d = c
    BY <1>1, <1>2, <2>1, OutcomeFact
  <2>2. CASE d # c /\ call[d] # Local("waiting", k)
    BY <1>2, <2>2
  <2>3. CASE d # c /\ call[d] = Local("waiting", k)
    <3>1. call[d].at = "waiting"
      BY <2>3 DEF Local
    <3>2. CASE runtime = "next"
      <4>1. call'[d] = Recent(k)
        BY <1>2, <2>3, <3>2
      <4> QED  BY <3>1, <4>1, RecentFact
    <3>3. CASE runtime # "next"
      <4>1. call'[d] = Local("woken", k)
        BY <1>2, <2>3, <3>3
      <4>2. Local("woken", k) \in Locals
        BY <1>1, LocalFact DEF Places
      <4> QED  BY <3>1, <4>1, <4>2 DEF Local
    <3> QED  BY <3>2, <3>3
  <2> QED  BY <2>1, <2>2, <2>3
<1>4. TypeOK'
  <2>1. \A d \in Calls : call'[d] \in Locals
    BY <1>3 DEF TossInv, TypeOK
  <2>2. call' = [d \in Calls |-> call'[d]]
    BY <1>2
  <2> QED  BY <1>1, <1>2, <2>1, <2>2 DEF TossInv, TypeOK
<1>5. Placed'
  <2>1. \A d \in Calls : d # c /\ call[d].at \in Owning => call[d].key # k
    BY <1>1 DEF TossInv, Placed
  <2>2. \A x \in Keys : x # k => inflight'[x] = inflight[x]
    BY <1>1, <1>2 DEF TossInv, TypeOK
  <2> QED  BY <1>1, <1>2, <1>3, <2>1, <2>2 DEF TossInv, Placed, Owning, Fetching, Done
<1>6. ClientInv'
  <2>1. \A d \in Calls : call'[d] = call[d] \/
          /\ call[d].at \notin {"posting", "issued"}
          /\ call'[d].at \notin Carrying \union {"posting", "issued", "token"}
    BY <1>1, <1>3 DEF Carrying, Done
  <2> QED  BY <1>2, <2>1, OutsideClient DEF TossInv, ClientInv
<1> QED  BY <1>4, <1>5, <1>6 DEF ClientInv, TossInv

-----------------------------------------------------------------------------
(* A GET that ends the matter.                                             *)

LEMMA SucceedInv ==
  ASSUME TossInv, NEW c \in Calls, Succeed(c) PROVE TossInv'
<1> USE DEF Succeed, TossInv, Local
<1>1. TypeOK'
  <2> DEFINE next == [Local("token", call[c].key) EXCEPT !.part = call[c].part + 1]
             last == Local("fetched", call[c].key)
  <2>1. call[c] \in Locals
    BY DEF TypeOK
  <2>2. call' = [call EXCEPT ![c] = IF call[c].part <= Required THEN next ELSE last]
    OBVIOUS
  <2>3. call[c].part <= Required => next \in Locals
    <3>1. ASSUME call[c].part <= Required PROVE call[c].part + 1 \in 1..(Required + 1)
      BY <2>1, <3>1 DEF Locals
    <3>2. Local("token", call[c].key) \in Locals
      BY <2>1, LocalFact DEF Locals, Places, Fetching
    <3> QED  BY <3>1, <3>2, PartFact
  <2>4. last \in Locals
    BY <2>1, LocalFact DEF Locals, Places, Fetching
  <2>5. call' \in [Calls -> Locals]
    <3> HIDE DEF next, last, Succeed
    <3> QED  BY <2>2, <2>3, <2>4 DEF TypeOK
  <2> QED  BY <2>5 DEF TypeOK
<1>2. Placed'
  BY StaysPlaced DEF Owning, Fetching, TypeOK
<1>3. ClientInv'
  BY OutsideClient DEF ClientInv, Carrying, Locals, Places, Done, Fetching, TypeOK
<1> QED  BY <1>1, <1>2, <1>3 DEF ClientInv

LEMMA FailInv ==
  ASSUME TossInv, NEW c \in Calls, Fail(c) PROVE TossInv'
<1> USE DEF Fail, TossInv
<1>0. /\ Missed(c) \in [at : {"failed", "fetched"}, key : Keys \union {NoKey},
                         part : {1}, tok : {None}, again : {FALSE}]
      /\ Missed(c).key = call[c].key
  BY MissedFact
<1>1. TypeOK'
  <2>1. call' \in [Calls -> Locals]
    BY MissedFact, OneCall
  <2> QED  BY <2>1 DEF TypeOK
<1>2. Placed'
  BY <1>0, StaysPlaced DEF Owning, Fetching, TypeOK
<1>3. ClientInv'
  BY <1>0, OutsideClient DEF ClientInv, Carrying, Locals, Places, Done, Fetching, TypeOK
<1> QED  BY <1>1, <1>2, <1>3 DEF ClientInv

LEMMA GiveUpInv ==
  ASSUME TossInv, NEW c \in Calls, GiveUp(c) PROVE TossInv'
<1> USE DEF GiveUp, TossInv
<1>0. /\ Missed(c) \in [at : {"failed", "fetched"}, key : Keys \union {NoKey},
                         part : {1}, tok : {None}, again : {FALSE}]
      /\ Missed(c).key = call[c].key
  BY MissedFact
<1>1. TypeOK'
  <2>1. call' \in [Calls -> Locals]
    BY MissedFact, OneCall
  <2> QED  BY <2>1 DEF TypeOK
<1>2. Placed'
  BY <1>0, StaysPlaced DEF Owning, Fetching, TypeOK
<1>3. ClientInv'
  BY <1>0, OutsideClient DEF ClientInv, Carrying, Locals, Places, Done, Fetching, TypeOK
<1> QED  BY <1>1, <1>2, <1>3 DEF ClientInv

-----------------------------------------------------------------------------
(* The access token.                                                       *)

LEMMA TakeTokenInv ==
  ASSUME TossInv, NEW c \in Calls, TakeToken(c) PROVE TossInv'
<1> USE DEF TakeToken, TossInv, Carry, Usable
<1>1. TypeOK'
  <2>1. call' \in [Calls -> Locals]
    BY CarryFact, OneCall DEF TypeOK
  <2> QED  BY <2>1 DEF TypeOK
<1>2. Placed'
  BY StaysPlaced DEF Owning, Fetching, TypeOK
<1>3. OneAsks'
  BY DEF OneAsks, TypeOK
<1>4. TokensAreIssued'
  BY DEF TokensAreIssued, Carrying, TypeOK
<1>5. NewestIsNew'
  BY DEF NewestIsNew, TokensAreIssued, Carrying, TypeOK
<1>6. AgainIsSpent'
  BY DEF AgainIsSpent, OneAsks, Carrying, TypeOK
<1>7. BudgetIsKept'
  BY DEF BudgetIsKept, Reasking, OneAsks, TypeOK
<1>8. SpentForCause'
  BY DEF SpentForCause, Replaced, Reasking, OneAsks, TypeOK
<1>9. ExhaustedForCause'
  BY DEF ExhaustedForCause, Twice, TypeOK
<1> QED  BY <1>1, <1>2, <1>3, <1>4, <1>5, <1>6, <1>7, <1>8, <1>9

LEMMA AskTokenInv ==
  ASSUME TossInv, NEW c \in Calls, AskToken(c) PROVE TossInv'
<1> USE DEF AskToken, TossInv, Goto, Usable
<1>1. TypeOK'
  <2>1. call' \in [Calls -> Locals]
    <3>1. Goto(c, "posting") /\ "posting" \in Places
      BY DEF Places, Fetching, Goto
    <3> QED  BY <3>1, GotoFact
  <2> QED  BY <2>1 DEF TypeOK
<1>2. Placed'
  BY StaysPlaced DEF Owning, Fetching, TypeOK
<1>3. OneAsks'
  BY DEF OneAsks, TypeOK
<1>4. TokensAreIssued'
  BY DEF TokensAreIssued, Carrying, TypeOK
<1>5. NewestIsNew'
  BY DEF NewestIsNew, TokensAreIssued, Carrying, TypeOK
<1>6. AgainIsSpent'
  BY DEF AgainIsSpent, OneAsks, Carrying, TypeOK
<1>7. BudgetIsKept'
  <2>1. call' = [call EXCEPT ![c].at = "posting"] /\ asking' = c /\ asking = NoCall
    OBVIOUS
  <2>2. call'[c].again = call[c].again
    BY <2>1 DEF TypeOK, Locals
  <2>3. ~Reasking
    BY <2>1 DEF Reasking
  <2>4. CASE call[c].again
    <3>1. Reasking' /\ used /\ token = None /\ runtime = "next"
      BY <2>1, <2>2, <2>4 DEF Reasking, AgainIsSpent
    <3> QED  BY <2>3, <2>4, <3>1 DEF BudgetIsKept, TypeOK
  <2>5. CASE ~call[c].again
    <3>1. ~Reasking'
      BY <2>1, <2>2, <2>5 DEF Reasking
    <3> QED  BY <2>3, <2>5, <3>1 DEF BudgetIsKept, TypeOK
  <2> QED  BY <2>4, <2>5
<1>8. SpentForCause'
  BY DEF SpentForCause, Replaced, Reasking, OneAsks, TypeOK
<1>9. ExhaustedForCause'
  BY DEF ExhaustedForCause, Twice, TypeOK
<1> QED  BY <1>1, <1>2, <1>3, <1>4, <1>5, <1>6, <1>7, <1>8, <1>9

LEMMA IssueInv ==
  ASSUME TossInv, NEW c \in Calls, Issue(c) PROVE TossInv'
<1> USE DEF Issue, TossInv
<1>1. TypeOK'
  <2>1. issued' \in Tokens /\ accepted' \in Tokens
    BY DEF TypeOK
  <2>2. [call[c] EXCEPT !.at = "issued", !.tok = issued'] \in Locals
    <3>1. call[c] \in Locals
      BY DEF TypeOK
    <3> QED  BY <2>1, <3>1 DEF Locals, Places, Fetching
  <2>3. call' \in [Calls -> Locals]
    BY <2>2 DEF TypeOK
  <2> QED  BY <2>1, <2>3 DEF TypeOK
<1>2. Placed'
  BY StaysPlaced DEF Owning, Fetching, TypeOK
<1>3. OneAsks'
  BY DEF OneAsks, TypeOK
<1>4. TokensAreIssued'
  BY DEF TokensAreIssued, Carrying, TypeOK
<1>5. NewestIsNew'
  <2>1. issued' = issued + 1 /\ call'[c].tok = issued' /\ call'[c].at = "issued"
    BY DEF TypeOK, Locals
  <2>2. \A d \in Calls \ {c} : call'[d] = call[d] /\ call[d].at # "issued"
    BY DEF TypeOK, OneAsks
  <2>3. issued \in Nat /\ token \in Nat
    BY DEF TypeOK
  <2>4. \A d \in Calls : call[d].at \in Carrying => call[d].tok \in 1..issued
    BY DEF TokensAreIssued
  <2>5. token < issued' /\ issued' \notin refused
    BY <2>1, <2>3 DEF TokensAreIssued
  <2>6. ASSUME NEW d \in Calls, call'[d].at \in Carrying PROVE call'[d].tok < issued'
    <3>1. d # c
      BY <2>1, <2>6 DEF Carrying
    <3>2. call[d].tok \in 1..issued
      BY <2>2, <2>4, <2>6, <3>1
    <3>3. call'[d] = call[d]
      BY <2>2, <3>1
    <3>4. call[d].tok < issued + 1
      BY <2>3, <3>2
    <3> QED  BY <2>1, <3>3, <3>4
  <2> QED  BY <2>1, <2>2, <2>5, <2>6 DEF NewestIsNew
<1>6. AgainIsSpent'
  BY DEF AgainIsSpent, OneAsks, Carrying, TypeOK
<1>7. BudgetIsKept'
  BY DEF BudgetIsKept, Reasking, OneAsks, TypeOK
<1>8. SpentForCause'
  BY DEF SpentForCause, Replaced, Reasking, OneAsks, TypeOK
<1>9. ExhaustedForCause'
  BY DEF ExhaustedForCause, Twice, TypeOK
<1> QED  BY <1>1, <1>2, <1>3, <1>4, <1>5, <1>6, <1>7, <1>8, <1>9

LEMMA KeepTokenInv ==
  ASSUME TossInv, NEW c \in Calls, KeepToken(c) PROVE TossInv'
<1> USE DEF TossInv
<1>a. /\ call[c].at = "issued" /\ asking = c /\ call[c].tok = issued
      /\ issued \in 1..MaxTokens /\ token < issued /\ issued \notin refused
      /\ \A d \in Calls : call[d].at \in Carrying => call[d].tok < issued
  <2>1. call[c].tok \in Tokens
    BY DEF TypeOK, Locals
  <2> QED  BY <2>1 DEF KeepToken, OneAsks, NewestIsNew, TypeOK
<1>b. /\ token' = issued /\ due' = FALSE /\ asking' = NoCall
      /\ UNCHANGED <<runtime, used, store, toss, history>>
  BY <1>a DEF KeepToken
<1>c. \A d \in Calls :
        \/ call'[d] = call[d] /\ d # c /\ (runtime = "next" => call[d].at # "token")
        \/ /\ d = c \/ (runtime = "next" /\ call[d].at = "token")
           /\ call'[d] = [call[d] EXCEPT !.at = "get", !.tok = issued]
  BY <1>a, <1>b DEF KeepToken, Joined, Carry
<1>d. \A d \in Calls : call[d] \in Locals
  BY DEF TypeOK
<1>e. \A d \in Calls :
        \/ call'[d] = call[d] /\ d # c /\ (runtime = "next" => call[d].at # "token")
        \/ /\ d = c \/ (runtime = "next" /\ call[d].at = "token")
           /\ call'[d] \in Locals /\ call'[d].at = "get" /\ call'[d].tok = issued
           /\ call'[d].key = call[d].key /\ call'[d].again = call[d].again
  <2>1. issued \in Tokens
    BY <1>a
  <2>2. \A d \in Calls :
          /\ [call[d] EXCEPT !.at = "get", !.tok = issued] \in Locals
          /\ [call[d] EXCEPT !.at = "get", !.tok = issued].at = "get"
          /\ [call[d] EXCEPT !.at = "get", !.tok = issued].tok = issued
          /\ [call[d] EXCEPT !.at = "get", !.tok = issued].key = call[d].key
          /\ [call[d] EXCEPT !.at = "get", !.tok = issued].again = call[d].again
    BY <1>d, <2>1 DEF Locals, Places, Fetching
  <2>3. ASSUME NEW d \in Calls, call'[d] = [call[d] EXCEPT !.at = "get", !.tok = issued]
        PROVE  /\ call'[d] \in Locals /\ call'[d].at = "get" /\ call'[d].tok = issued
               /\ call'[d].key = call[d].key /\ call'[d].again = call[d].again
    BY <2>2, <2>3
  <2> HIDE DEF TossInv
  <2> QED  BY <1>c, <2>3
<1>1. TypeOK'
  <2>1. call' \in [Calls -> Locals]
    <3>1. call' = [d \in Calls |-> call'[d]]
      BY DEF KeepToken
    <3> QED  BY <1>d, <1>e, <3>1
  <2> QED  BY <1>a, <1>b, <2>1 DEF TypeOK
<1>2. Placed'
  BY <1>a, <1>b, <1>e, StaysPlaced DEF Owning, Fetching
<1>3. OneAsks'
  BY <1>a, <1>b, <1>e DEF OneAsks
<1>4. TokensAreIssued'
  BY <1>a, <1>b, <1>e DEF TokensAreIssued, Carrying, TypeOK
<1>5. NewestIsNew'
  BY <1>a, <1>b, <1>e DEF NewestIsNew, OneAsks
<1>6. AgainIsSpent'
  BY <1>a, <1>b, <1>e DEF AgainIsSpent, OneAsks
<1>7. BudgetIsKept'
  <2>1. token' # None
    BY <1>a, <1>b
  <2>2. ~used => reissues <= (IF runtime = "next" THEN lost ELSE 0)
    BY DEF BudgetIsKept, TypeOK
  <2>3. reissues <= (IF runtime = "next" THEN lost ELSE 0) + 1
    BY DEF BudgetIsKept, TypeOK
  <2> QED  BY <1>b, <2>1, <2>2, <2>3 DEF BudgetIsKept, TypeOK
<1>8. SpentForCause'
  <2>1. refused # {} => Replaced'
    BY <1>a, <1>b DEF Replaced
  <2> QED  BY <1>b, <2>1 DEF SpentForCause, Replaced
<1>9. ExhaustedForCause'
  BY <1>b, <1>e DEF ExhaustedForCause, Twice
<1> QED  BY <1>1, <1>2, <1>3, <1>4, <1>5, <1>6, <1>7, <1>8, <1>9

LEMMA LoseTokenInv ==
  ASSUME TossInv, NEW c \in Calls, LoseToken(c) PROVE TossInv'
<1> USE DEF TossInv
<1>a. /\ call[c].at \in {"posting", "issued"} /\ asking = c /\ asking' = NoCall
      /\ lost' = lost + (IF call[c].again THEN 1 ELSE 0)
      /\ UNCHANGED <<runtime, token, due, used, store, toss, refused, reissues>>
  BY DEF LoseToken, OneAsks
<1>b. \A d \in Calls :
        \/ call'[d] = call[d] /\ d # c /\ (runtime = "next" => call[d].at # "token")
        \/ /\ d = c \/ (runtime = "next" /\ call[d].at = "token")
           /\ call'[d] \in Locals /\ call'[d].at \in {"failed", "fetched"}
           /\ call'[d].key = call[d].key /\ ~call'[d].again
  <2>1. \A d \in Calls : /\ Missed(d) \in Locals /\ Missed(d).at \in {"failed", "fetched"}
                         /\ Missed(d).key = call[d].key /\ ~Missed(d).again
    BY MissedFact
  <2> QED  BY <2>1 DEF LoseToken, Joined
<1>c. call[c].again \in BOOLEAN
  BY DEF TypeOK, Locals
<1>1. TypeOK'
  <2>1. call' \in [Calls -> Locals]
    <3>1. call' = [d \in Calls |-> call'[d]]
      BY DEF LoseToken
    <3>2. \A d \in Calls : call[d] \in Locals
      BY DEF TypeOK
    <3> QED  BY <1>b, <3>1, <3>2
  <2> QED  BY <1>a, <1>c, <2>1 DEF TypeOK
<1>2. Placed'
  BY <1>a, <1>b, StaysPlaced DEF Owning, Fetching
<1>3. OneAsks'
  BY <1>a, <1>b DEF OneAsks
<1>4. TokensAreIssued'
  BY <1>a, <1>b DEF TokensAreIssued, Carrying
<1>5. NewestIsNew'
  BY <1>a, <1>b DEF NewestIsNew, Carrying
<1>6. AgainIsSpent'
  BY <1>a, <1>b DEF AgainIsSpent, Carrying
<1>7. BudgetIsKept'
  <2>1. CASE call[c].again
    BY <1>a, <2>1 DEF BudgetIsKept, Reasking, TypeOK
  <2>2. CASE ~call[c].again
    <3>1. ~Reasking
      BY <1>a, <2>2 DEF Reasking
    <3> QED  BY <1>a, <2>2, <3>1 DEF BudgetIsKept, TypeOK
  <2> QED  BY <2>1, <2>2
<1>8. SpentForCause'
  <2>1. CASE call[c].again
    BY <1>a, <2>1 DEF SpentForCause, Replaced, TypeOK
  <2>2. CASE ~call[c].again
    <3>1. ~Reasking
      BY <1>a, <2>2 DEF Reasking
    <3> QED  BY <1>a, <2>2, <3>1 DEF SpentForCause, Replaced, TypeOK
  <2> QED  BY <2>1, <2>2
<1>9. ExhaustedForCause'
  BY <1>a, <1>b DEF ExhaustedForCause, Twice, TypeOK
<1> QED  BY <1>1, <1>2, <1>3, <1>4, <1>5, <1>6, <1>7, <1>8, <1>9

LEMMA BreakInv ==
  ASSUME TossInv, NEW c \in Calls, Break(c) PROVE TossInv'
<1> USE DEF Break, TossInv, Local
<1>1. TypeOK'
  <2>1. Local("broken", call[c].key) \in Locals
    BY LocalFact DEF TypeOK, Locals, Places
  <2>2. call' \in [Calls -> Locals]
    BY <2>1, OneCall DEF Local
  <2> QED  BY <2>2 DEF TypeOK
<1>2. Placed'
  BY StaysPlaced DEF Owning, Fetching, TypeOK
<1>3. OneAsks'
  BY DEF OneAsks, TypeOK
<1>4. TokensAreIssued'
  BY DEF TokensAreIssued, Carrying, TypeOK
<1>5. NewestIsNew'
  BY DEF NewestIsNew, TokensAreIssued, Carrying, TypeOK
<1>6. AgainIsSpent'
  BY DEF AgainIsSpent, OneAsks, Carrying, TypeOK
<1>7. BudgetIsKept'
  BY DEF BudgetIsKept, Reasking, OneAsks, TypeOK
<1>8. SpentForCause'
  BY DEF SpentForCause, Replaced, Reasking, OneAsks, TypeOK
<1>9. ExhaustedForCause'
  BY DEF ExhaustedForCause, Twice, TypeOK
<1> QED  BY <1>1, <1>2, <1>3, <1>4, <1>5, <1>6, <1>7, <1>8, <1>9

-----------------------------------------------------------------------------
(* What follows a 401.                                                     *)

LEMMA UnauthorizedInv ==
  ASSUME TossInv, NEW c \in Calls, Unauthorized(c) PROVE TossInv'
<1> USE DEF Unauthorized, TossInv
<1>0. /\ Missed(c) \in [at : {"failed", "fetched"}, key : Keys \union {NoKey},
                         part : {1}, tok : {None}, again : {FALSE}]
      /\ Missed(c).key = call[c].key
  BY MissedFact
<1>1. TypeOK'
  <2>1. call' \in [Calls -> Locals]
    <3>1. [call[c] EXCEPT !.at = "unauthorized"] \in Locals
      <4>1. call[c] \in Locals
        BY DEF TypeOK
      <4> QED  BY <4>1 DEF Locals, Places, Fetching
    <3> QED  BY <1>0, <3>1, MissedFact, OneCall
  <2>2. call[c].tok \in Tokens
    BY DEF TypeOK, Locals
  <2> QED  BY <2>1, <2>2 DEF TypeOK
<1>2. Placed'
  BY <1>0 , StaysPlaced DEF Owning, Fetching, TypeOK
<1>3. OneAsks'
  BY <1>0 DEF OneAsks, TypeOK
<1>4. TokensAreIssued'
  BY <1>0 DEF TokensAreIssued, Carrying, TypeOK
<1>5. NewestIsNew'
  BY <1>0 DEF NewestIsNew, TokensAreIssued, Carrying, TypeOK
<1>6. AgainIsSpent'
  BY <1>0 DEF AgainIsSpent, OneAsks, Carrying, TypeOK
<1>7. BudgetIsKept'
  BY <1>0 DEF BudgetIsKept, Reasking, OneAsks, TypeOK
<1>8. SpentForCause'
  BY <1>0 DEF SpentForCause, Replaced, Reasking, OneAsks, TypeOK
<1>9. ExhaustedForCause'
  BY <1>0 DEF ExhaustedForCause, Twice, TypeOK
<1> QED  BY <1>1, <1>2, <1>3, <1>4, <1>5, <1>6, <1>7, <1>8, <1>9

LEMMA UseOtherInv ==
  ASSUME TossInv, NEW c \in Calls, UseOther(c) PROVE TossInv'
<1> USE DEF UseOther, TossInv, MayRecover, Carry, Local
<1>1. TypeOK'
  <2>1. call[c] \in Locals
    BY DEF TypeOK
  <2>2. [[at |-> "token", key |-> call[c].key, part |-> 1, tok |-> None, again |-> FALSE]
           EXCEPT !.part = call[c].part, !.again = TRUE] \in Locals
    <3>1. [at |-> "token", key |-> call[c].key, part |-> 1, tok |-> None, again |-> FALSE] \in Locals
      BY <2>1 DEF Locals, Places, Fetching
    <3>2. call[c].part \in 1..(Required + 1)
      BY <2>1 DEF Locals
    <3> QED  BY <3>1, <3>2, PartFact
  <2>3. [[call[c] EXCEPT !.at = "get", !.tok = token] EXCEPT !.again = TRUE] \in Locals
    <3>1. [call[c] EXCEPT !.at = "get", !.tok = token] \in Locals
      BY CarryFact DEF TypeOK
    <3> QED  BY <3>1 DEF Locals
  <2>4. call' \in [Calls -> Locals]
    BY <2>2, <2>3, OneCall
  <2> QED  BY <2>4 DEF TypeOK
<1>2. Placed'
  BY StaysPlaced DEF Owning, Fetching, TypeOK
<1>3. OneAsks'
  BY DEF OneAsks, TypeOK
<1>4. TokensAreIssued'
  BY DEF TokensAreIssued, Carrying, TypeOK
<1>5. NewestIsNew'
  BY DEF NewestIsNew, TokensAreIssued, Carrying, TypeOK
<1>6. AgainIsSpent'
  BY DEF AgainIsSpent, OneAsks, Carrying, TypeOK
<1>7. BudgetIsKept'
  BY DEF BudgetIsKept, Reasking, OneAsks, TypeOK
<1>8. SpentForCause'
  BY DEF SpentForCause, Replaced, Reasking, OneAsks, TypeOK
<1>9. ExhaustedForCause'
  BY DEF ExhaustedForCause, Twice, TypeOK
<1> QED  BY <1>1, <1>2, <1>3, <1>4, <1>5, <1>6, <1>7, <1>8, <1>9

LEMMA ReissueInv ==
  ASSUME TossInv, NEW c \in Calls, Reissue(c) PROVE TossInv'
<1> USE DEF Reissue, TossInv, MayRecover, Local
<1>1. TypeOK'
  <2>1. call[c] \in Locals
    BY DEF TypeOK
  <2>2. \A l \in {"posting", "token"} :
          [at |-> l, key |-> call[c].key, part |-> call[c].part, tok |-> None, again |-> TRUE] \in Locals
    BY <2>1 DEF Locals, Places, Fetching
  <2>3. call' \in [Calls -> Locals]
    BY <2>2 DEF TypeOK
  <2> QED  BY <2>3 DEF TypeOK
<1>2. Placed'
  BY StaysPlaced DEF Owning, Fetching, TypeOK
<1>3. OneAsks'
  BY DEF OneAsks, TypeOK
<1>4. TokensAreIssued'
  BY DEF TokensAreIssued, Carrying, TypeOK
<1>5. NewestIsNew'
  BY DEF NewestIsNew, TokensAreIssued, Carrying, TypeOK
<1>6. AgainIsSpent'
  BY DEF AgainIsSpent, OneAsks, Carrying, TypeOK
<1>7. BudgetIsKept'
  BY DEF BudgetIsKept, Reasking, OneAsks, TypeOK
<1>8. SpentForCause'
  <2>1. call[c].tok \in refused /\ call[c].tok # None
    BY DEF TokensAreIssued, Carrying
  <2>2. CASE runtime = "next"
    BY <2>1, <2>2 DEF SpentForCause, Replaced
  <2>3. CASE runtime = "python"
    <3>1. asking' = c /\ call'[c].again
      BY <2>3 DEF TypeOK
    <3> QED  BY <2>1, <2>3, <3>1 DEF SpentForCause, Reasking
  <2>4. runtime \in {"next", "python"}
    BY DEF TypeOK
  <2> QED  BY <2>2, <2>3, <2>4
<1>9. ExhaustedForCause'
  BY DEF ExhaustedForCause, Twice, TypeOK
<1> QED  BY <1>1, <1>2, <1>3, <1>4, <1>5, <1>6, <1>7, <1>8, <1>9

LEMMA ExhaustInv ==
  ASSUME TossInv, NEW c \in Calls, Exhaust(c) PROVE TossInv'
<1> USE DEF Exhaust, TossInv, MayRecover, Goto
<1>1. TypeOK'
  <2>1. call' \in [Calls -> Locals]
    <3>1. Goto(c, "exhausted") /\ "exhausted" \in Places
      BY DEF Places, Fetching, Goto
    <3> QED  BY <3>1, GotoFact
  <2> QED  BY <2>1 DEF TypeOK
<1>2. Placed'
  BY StaysPlaced DEF Owning, Fetching, TypeOK
<1>3. OneAsks'
  BY DEF OneAsks, TypeOK
<1>4. TokensAreIssued'
  BY DEF TokensAreIssued, Carrying, TypeOK
<1>5. NewestIsNew'
  BY DEF NewestIsNew, TokensAreIssued, Carrying, TypeOK
<1>6. AgainIsSpent'
  BY DEF AgainIsSpent, OneAsks, Carrying, TypeOK
<1>7. BudgetIsKept'
  BY DEF BudgetIsKept, Reasking, OneAsks, TypeOK
<1>8. SpentForCause'
  BY DEF SpentForCause, Replaced, Reasking, OneAsks, TypeOK
<1>9. ExhaustedForCause'
  <2>1. call[c].tok \in refused
    BY DEF TokensAreIssued
  <2>2. Replaced => Twice
    BY <2>1 DEF Replaced, Twice
  <2>3. runtime = "python" => ~Reasking
    BY DEF Reasking
  <2>4. Twice \/ (runtime = "python" /\ lost > 0)
    BY <2>2, <2>3 DEF SpentForCause, TypeOK
  <2>5. \A d \in Calls \ {c} : call'[d] = call[d]
    BY DEF TypeOK
  <2> QED  BY <2>4, <2>5 DEF ExhaustedForCause, Twice
<1> QED  BY <1>1, <1>2, <1>3, <1>4, <1>5, <1>6, <1>7, <1>8, <1>9

LEMMA ForgetInv ==
  ASSUME TossInv, Forget PROVE TossInv'
<1> USE DEF Forget, TossInv
<1>1. TypeOK'
  BY DEF TypeOK, Locals, Places, Done, Fetching
<1>2. Placed'
  BY StaysPlaced DEF Owning, Fetching, TypeOK
<1>3. OneAsks'
  BY DEF OneAsks, TypeOK
<1>4. TokensAreIssued'
  BY DEF TokensAreIssued, Carrying, TypeOK
<1>5. NewestIsNew'
  BY DEF NewestIsNew, TokensAreIssued, Carrying, TypeOK
<1>6. AgainIsSpent'
  BY DEF AgainIsSpent, OneAsks, Carrying, TypeOK
<1>7. BudgetIsKept'
  BY DEF BudgetIsKept, Reasking, OneAsks, TypeOK
<1>8. SpentForCause'
  BY DEF SpentForCause, Replaced, Reasking, OneAsks, TypeOK
<1>9. ExhaustedForCause'
  BY DEF ExhaustedForCause, Twice, TypeOK
<1> QED  BY <1>1, <1>2, <1>3, <1>4, <1>5, <1>6, <1>7, <1>8, <1>9

LEMMA FallDueInv ==
  ASSUME TossInv, FallDue PROVE TossInv'
<1> USE DEF FallDue, TossInv
<1>1. TypeOK'
  BY DEF TypeOK, Locals, Places, Done, Fetching
<1>2. Placed'
  BY StaysPlaced DEF Owning, Fetching, TypeOK
<1>3. OneAsks'
  BY DEF OneAsks, TypeOK
<1>4. TokensAreIssued'
  BY DEF TokensAreIssued, Carrying, TypeOK
<1>5. NewestIsNew'
  BY DEF NewestIsNew, TokensAreIssued, Carrying, TypeOK
<1>6. AgainIsSpent'
  BY DEF AgainIsSpent, OneAsks, Carrying, TypeOK
<1>7. BudgetIsKept'
  BY DEF BudgetIsKept, Reasking, OneAsks, TypeOK
<1>8. SpentForCause'
  BY DEF SpentForCause, Replaced, Reasking, OneAsks, TypeOK
<1>9. ExhaustedForCause'
  BY DEF ExhaustedForCause, Twice, TypeOK
<1> QED  BY <1>1, <1>2, <1>3, <1>4, <1>5, <1>6, <1>7, <1>8, <1>9

-----------------------------------------------------------------------------
LEMMA StutterInv == TossInv /\ UNCHANGED vars => TossInv'
<1> SUFFICES ASSUME TossInv, UNCHANGED vars PROVE TossInv'
  OBVIOUS
<1> USE DEF vars, TossInv
<1>1. TypeOK' /\ Placed'
  BY DEF TypeOK, Placed
<1>2. ClientInv'
  BY OutsideClient DEF ClientInv
<1> QED  BY <1>1, <1>2 DEF ClientInv

LEMMA StepInv == TossInv /\ [Next]_vars => TossInv'
<1> SUFFICES ASSUME TossInv, [Next]_vars PROVE TossInv'
  OBVIOUS
<1>1. CASE \E c \in Calls : Step(c)
  <2> PICK c \in Calls : Step(c)
    BY <1>1
  <2>1. CASE GetToken(c)
    BY <2>1, TakeTokenInv, AskTokenInv, IssueInv, KeepTokenInv, LoseTokenInv DEF GetToken
  <2>2. CASE Get(c)
    BY <2>2, SucceedInv, UnauthorizedInv, FailInv, BreakInv DEF Get
  <2>3. CASE Recover(c)
    BY <2>3, UseOtherInv, ReissueInv, ExhaustInv, GiveUpInv DEF Recover
  <2> QED  BY <2>1, <2>2, <2>3, StoreInv, ConcludeInv, LookAgainInv DEF Step, WokenUp
<1>2. CASE \E c \in Calls : LookAgain(c)
  BY <1>2, LookAgainInv
<1>3. CASE \E c \in Calls, k \in Keys : Lookup(c, k) \/ Fetch(c, k)
  BY <1>3, LookupInv, FetchInv
<1>4. CASE \E k \in Keys : Age(k)
  BY <1>4, AgeInv
<1> QED  BY <1>1, <1>2, <1>3, <1>4, ForgetInv, FallDueInv, StutterInv DEF Next

(* The inductive invariant. *)
THEOREM TossCorrect == Spec => []TossInv
BY InitInv, StepInv, PTL DEF Spec

(* Every reachable state is well typed. *)
THEOREM TypeCorrect == Spec => []TypeOK
BY TossCorrect, PTL DEF TossInv

(* Concurrent requests of a key share one request set. *)
THEOREM OneRequestSetAlways == Spec => []OneRequestSet
<1>1. TossInv => OneRequestSet
  BY DEF TossInv, Placed, OneRequestSet, Owning
<1> QED  BY <1>1, TossCorrect, PTL

(* Refused GETs lead to one token request, and in Next to another for each *)
(* that brought nothing.                                                   *)
THEOREM ReissueIsBoundedAlways == Spec => []ReissueIsBounded
<1>1. TossInv => ReissueIsBounded
  BY DEF TossInv, BudgetIsKept, ReissueIsBounded, TypeOK
<1> QED  BY <1>1, TossCorrect, PTL

(* The budget is not used up by one token that is no longer accepted. *)
THEOREM ExhaustedMeansSpentAlways == Spec => []ExhaustedMeansSpent
<1>1. ASSUME TossInv PROVE ExhaustedMeansSpent
  <2>1. IsFiniteSet(refused)
    <3>1. IsFiniteSet(0..MaxTokens)
      BY FS_Interval
    <3> QED  BY <1>1, <3>1, FS_Subset DEF TossInv, TypeOK
  <2>2. ASSUME Twice PROVE Cardinality(refused) > 1
    <3>1. PICK t, u \in refused : t # u
      BY <2>2 DEF Twice
    <3>2. Cardinality({t, u}) = 2
      <4>1. Cardinality({t}) = 1 /\ IsFiniteSet({t})
        BY FS_Singleton
      <4>2. {t, u} = {t} \union {u} /\ u \notin {t}
        BY <3>1
      <4>3. Cardinality({t} \union {u}) = 1 + 1
        BY <4>1, <4>2, FS_AddElement
      <4> QED  BY <4>2, <4>3
    <3>3. Cardinality({t, u}) <= Cardinality(refused)
      BY <2>1, <3>1, FS_Subset
    <3>4. Cardinality(refused) \in Nat
      BY <2>1, FS_CardinalityType
    <3> QED  BY <3>2, <3>3, <3>4
  <2> QED  BY <1>1, <2>2 DEF TossInv, ExhaustedForCause, ExhaustedMeansSpent
<1> QED  BY <1>1, TossCorrect, PTL

-----------------------------------------------------------------------------
(* What a step may do.                                                     *)

LEMMA KeptIsNewest ==
  ASSUME TossInv, Next, token' \notin {None, token} PROVE token' = issued
<1>1. PICK c \in Calls : KeepToken(c)
  <2>1. ASSUME NEW c \in Calls, Step(c), ~KeepToken(c) PROVE FALSE
    <3>1. CASE GetToken(c)
      BY <2>1, <3>1 DEF GetToken, TakeToken, AskToken, Issue, LoseToken
    <3>2. CASE Get(c)
      BY <3>2 DEF Get, Succeed, Unauthorized, Fail, Break
    <3>3. CASE Recover(c)
      BY <3>3 DEF Recover, UseOther, Reissue, Exhaust, GiveUp
    <3>4. CASE Store(c) \/ Conclude(c) \/ WokenUp(c)
      BY <3>4 DEF Store, Conclude, WokenUp, LookAgain
    <3> QED  BY <2>1, <3>1, <3>2, <3>3, <3>4 DEF Step
  <2>2. ASSUME NEW c \in Calls, LookAgain(c) \/ (\E k \in Keys : Lookup(c, k) \/ Fetch(c, k)) PROVE FALSE
    BY <2>2 DEF LookAgain, Lookup, Fetch
  <2>3. ASSUME (\E k \in Keys : Age(k)) \/ Forget \/ FallDue PROVE FALSE
    BY <2>3 DEF Age, Forget, FallDue
  <2> QED  BY <2>1, <2>2, <2>3 DEF Next
<1> QED  BY <1>1 DEF KeepToken, TossInv, NewestIsNew

(* The provider never goes back to an older token. *)
THEOREM TokenIsNewestAlways == Spec => TokenIsNewest
<1>1. TossInv /\ [Next]_vars => [token' \notin {None, token} => token' = issued]_vars
  BY KeptIsNewest
<1> QED  BY <1>1, TossCorrect, PTL DEF Spec, TokenIsNewest

Refusal(c) ==
  call'[c].at = "denied" /\ call[c].at \notin {"denied", "broken"} => cache[call[c].key] = "none"

LEMMA RefusalIsMeant ==
  ASSUME TypeOK, Next, NEW d \in Calls PROVE Refusal(d)
<1> DEFINE Leaves == call'[d].at # "denied" \/ call'[d] = call[d]
<1>1. Leaves => Refusal(d)
  BY DEF Refusal
<1> HIDE DEF Leaves
<1>a. \A c \in Calls : call[c] \in Locals /\ Missed(c).at # "denied"
  BY MissedFact DEF TypeOK
<1>2. ASSUME NEW c \in Calls, GetToken(c) PROVE Leaves
  <2>1. CASE TakeToken(c) \/ AskToken(c) \/ Issue(c)
    <3>1. \/ call' = [call EXCEPT ![c] = [call[c] EXCEPT !.at = "get", !.tok = token]]
          \/ call' = [call EXCEPT ![c].at = "posting"]
          \/ call' = [call EXCEPT ![c].at = "issued", ![c].tok = issued']
      BY <2>1 DEF TakeToken, AskToken, Issue, Carry, Goto
    <3>2. d # c => call'[d] = call[d]
      BY <3>1 DEF TypeOK
    <3>3. call'[c].at # "denied"
      <4> HIDE DEF Leaves
      <4>1. call[c] \in Locals /\ c \in DOMAIN call
        BY <1>a DEF TypeOK
      <4>2. CASE call' = [call EXCEPT ![c] = [call[c] EXCEPT !.at = "get", !.tok = token]]
        BY <4>1, <4>2 DEF Locals
      <4>3. CASE call' = [call EXCEPT ![c].at = "posting"]
        BY <4>1, <4>3 DEF Locals
      <4>4. CASE call' = [call EXCEPT ![c].at = "issued", ![c].tok = issued']
        BY <4>1, <4>4 DEF Locals
      <4> QED  BY <3>1, <4>2, <4>3, <4>4
    <3> QED  BY <3>2, <3>3 DEF Leaves
  <2>2. CASE KeepToken(c)
    <3>1. call'[d] = call[d] \/ call'[d] = [call[d] EXCEPT !.at = "get", !.tok = token']
      BY <2>2 DEF KeepToken, Carry
    <3> QED  BY <1>a, <3>1 DEF Locals, Leaves
  <2>3. CASE LoseToken(c)
    <3>1. call'[d] = call[d] \/ call'[d] = Missed(d)
      BY <2>3 DEF LoseToken
    <3> QED  BY <1>a, <3>1 DEF Leaves
  <2> QED  BY <1>2, <2>1, <2>2, <2>3 DEF GetToken
<1>3. ASSUME NEW c \in Calls, Get(c) PROVE Leaves
  <2>1. CASE Succeed(c)
    BY <1>a, <2>1 DEF Succeed, Local, TypeOK, Leaves
  <2>2. CASE Unauthorized(c) \/ Fail(c)
    BY <1>a, <2>2 DEF Unauthorized, Fail, TypeOK, Locals, Leaves
  <2>3. CASE Break(c)
    BY <1>a, <2>3 DEF Break, Local, TypeOK, Leaves
  <2> QED  BY <1>3, <2>1, <2>2, <2>3 DEF Get
<1>4. ASSUME NEW c \in Calls, Recover(c) PROVE Leaves
  <2>1. CASE UseOther(c)
    BY <1>a, <2>1 DEF UseOther, Carry, Local, TypeOK, Locals, Leaves
  <2>2. CASE Reissue(c)
    BY <1>a, <2>2 DEF Reissue, Local, TypeOK, Leaves
  <2>3. CASE Exhaust(c) \/ GiveUp(c)
    BY <1>a, <2>3 DEF Exhaust, GiveUp, Goto, TypeOK, Locals, Leaves
  <2> QED  BY <1>4, <2>1, <2>2, <2>3 DEF Recover
<1>5. ASSUME NEW c \in Calls, Store(c) PROVE Leaves
  BY <1>5 DEF Store, Goto, TypeOK, Locals, Leaves
<1>6. ASSUME NEW c \in Calls, LookAgain(c) PROVE Refusal(d)
  BY <1>6 DEF LookAgain, Recent, Local, TypeOK, Locals, Refusal
<1>7. ASSUME NEW c \in Calls, Conclude(c) PROVE Refusal(d)
  BY <1>7 DEF Conclude, Outcome, Recent, Local, TypeOK, Locals, Refusal
<1>8. ASSUME NEW c \in Calls, NEW k \in Keys, Lookup(c, k) \/ Fetch(c, k) PROVE Leaves
  BY <1>8 DEF Lookup, Fetch, Local, TypeOK, Locals, Leaves
<1>9. ASSUME (\E k \in Keys : Age(k)) \/ Forget \/ FallDue PROVE Leaves
  BY <1>9 DEF Age, Forget, FallDue, Leaves
<1> QED  BY <1>1, <1>2, <1>3, <1>4, <1>5, <1>6, <1>7, <1>8, <1>9 DEF Next, Step, WokenUp

(* An error is the answer only if nothing recent is in the cache. *)
THEOREM ErrorMeansNothingRecentAlways == Spec => ErrorMeansNothingRecent
<1>1. TypeOK /\ [Next]_vars =>
        [\A c \in Calls : call'[c].at = "denied" /\ call[c].at \notin {"denied", "broken"} =>
           cache[call[c].key] = "none"]_vars
  BY RefusalIsMeant DEF Refusal
<1> QED  BY <1>1, TypeCorrect, PTL DEF Spec, ErrorMeansNothingRecent
=============================================================================
