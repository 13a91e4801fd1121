-------------------------- MODULE HttpStagesProofs --------------------------
(***************************************************************************)
(* Theorems about HttpStages, for any calls, tokens and observers and every *)
(* retry policy.  What one call keeps is the invariant CallOK; what one     *)
(* on_cancel() call keeps is ObserverOK.                                   *)
(***************************************************************************)
EXTENDS HttpStages, TLAPS

Places == {"idle", "mock", "check", "queue", "transfer", "backoff", "done"}

(* TypeOK with the domains of all functions, obs included. *)
Typed ==
  /\ TypeOK
  /\ obs \in [Observers -> [at : {"new", "tested", "listed", "ran"}, runs : Nat]]

(* The attempts a call has begun are those its retry_count tells, and one     *)
(* more from the moment a transfer begins until the backoff after it ends.  *)
AttemptsCounted(c) ==
  /\ pc[c] \in {"idle", "mock"} => attempts[c] = 0 /\ retries[c] = 0
  /\ pc[c] \in {"check", "queue"} => attempts[c] = retries[c]
  /\ pc[c] \in {"transfer", "backoff"} => attempts[c] = retries[c] + 1
  /\ pc[c] = "backoff" => retries[c] < MaxRetries
  /\ pc[c] = "done" => attempts[c] <= MaxRetries + 1

(* A call has an error only once it returned, and one worth a retry only when *)
(* no attempt was left.                                                    *)
ErrorIsLast(c) ==
  /\ pc[c] # "done" => code[c] = "none" /\ result[c] = "none"
  /\ pc[c] = "done" /\ ShouldRetry(code[c]) => attempts[c] = MaxRetries + 1

(* An attempt begun late was begun with the token canceled, and the next      *)
(* check of the token ends the call: no such call waits for curl_mutex_.    *)
LateOnce(c) ==
  /\ late[c] <= 1
  /\ late[c] > 0 => TokenOf[c] \in canceled /\ pc[c] # "queue"

(* Only a caller without a token has one of execute()'s own. *)
OwnOK(c) == own[c] # "none" => TokenOf[c] = NoToken

CanceledMeant(c) == result[c] = "Canceled" /\ KindOf[c] # "bare" => TokenOf[c] \in canceled

CallOK(c) == AttemptsCounted(c) /\ ErrorIsLast(c) /\ LateOnce(c) /\ OwnOK(c) /\ CanceledMeant(c)

(* A callback has run once if on_cancel() ran it, and otherwise only if it was *)
(* listed when the callbacks of the token, now canceled for good, were run. *)
ObserverOK(o) ==
  /\ obs[o].at \in {"new", "tested"} => obs[o].runs = 0
  /\ obs[o].at = "ran" => obs[o].runs = 1
  /\ obs[o].at = "listed" => obs[o].runs <= 1
  /\ obs[o].at = "listed" /\ obs[o].runs = 1 => Observed[o] \in canceled \ draining

HttpInv ==
  /\ Typed
  /\ \A c \in Calls : CallOK(c)
  /\ \A o \in Observers : ObserverOK(o)

-----------------------------------------------------------------------------
(* Doubling a backoff keeps it within the configured bounds. *)
LEMMA NextBackoffBounded ==
  ASSUME NEW b \in 0..Longest
  PROVE  NextBackoff(b) \in 0..Longest
<1>1. BackoffMultiplier \in Nat /\ MaxBackoff \in Nat /\ InitialBackoff \in Nat
  BY HttpAssumption
<1>2. Longest \in Nat /\ MaxBackoff <= Longest /\ b \in Nat
  BY <1>1 DEF Longest
<1>3. b * BackoffMultiplier \in Nat
  BY <1>1, <1>2
<1>4. QED
  BY <1>1, <1>2, <1>3 DEF NextBackoff

(* What a failed attempt does to the call: it backs off with an attempt left, *)
(* or returns the error.                                                   *)
LEMMA FailureEnds ==
  ASSUME HttpInv, NEW c \in Calls, NEW e \in Failures, TransferFails(c, e)
  PROVE  \/ /\ pc' = [pc EXCEPT ![c] = "backoff"] /\ left' = [left EXCEPT ![c] = backoff[c]]
            /\ retries[c] < MaxRetries /\ UNCHANGED <<result, code>>
         \/ /\ pc' = [pc EXCEPT ![c] = "done"] /\ result' = [result EXCEPT ![c] = Category(e)]
            /\ code' = [code EXCEPT ![c] = e] /\ UNCHANGED left
            /\ ShouldRetry(e) => retries[c] = MaxRetries
            /\ Category(e) = "Canceled" => e = "CANCELED"
            /\ Category(e) \in {"Network", "Timeout", "Canceled", "Pipeline", "Unknown"}
<1>1. Category(e) = "Canceled" => e = "CANCELED"
  BY DEF Category, Failures
<1>2. Category(e) \in {"Network", "Timeout", "Canceled", "Pipeline", "Unknown"}
  BY DEF Category, Failures
<1>3. retries[c] \in 0..MaxRetries /\ MaxRetries \in Nat
  BY HttpAssumption DEF HttpInv, Typed, TypeOK
<1>4. QED
  BY <1>1, <1>2, <1>3 DEF TransferFails, AttemptFailed, HasAttemptsLeft, Return

-----------------------------------------------------------------------------
(* The steps keep the types. *)
LEMMA CallKeepsTypes ==
  ASSUME HttpInv, NEW c \in Calls, Begin(c) \/ RejectInput(c) \/ CallGoesOn(c) \/ CancelRequest(c)
  PROVE  Typed'
<1> USE HttpAssumption
<1>1. CASE Begin(c)
  BY <1>1 DEF HttpInv, Typed, TypeOK, Begin, tokenVars, Longest
<1>2. CASE RejectInput(c)
  BY <1>2 DEF HttpInv, Typed, TypeOK, RejectInput, tokenVars, Return
<1>3. CASE MockStep(c)
  <2>1. left[c] \in Nat /\ (left[c] # 0 => left[c] - 1 \in Nat)
    BY DEF HttpInv, Typed, TypeOK
  <2>2. QED
    BY <1>3, <2>1 DEF HttpInv, Typed, TypeOK, MockStep, tokenVars, Return, SeesCancel
<1>4. CASE Check(c)
  BY <1>4 DEF HttpInv, Typed, TypeOK, Check, tokenVars, ReturnCanceled, Return, SeesCancel, Failures
<1>5. CASE BackoffSlice(c)
  <2>1. left[c] \in Nat /\ (left[c] > 0 => left[c] - 1 \in Nat)
    BY DEF HttpInv, Typed, TypeOK
  <2>2. CASE SeesCancel(c)
    BY <1>5, <2>2 DEF HttpInv, Typed, TypeOK, BackoffSlice, tokenVars, ReturnCanceled, Return, Failures
  <2>3. CASE ~SeesCancel(c)
    BY <1>5, <2>1, <2>3 DEF HttpInv, Typed, TypeOK, BackoffSlice, tokenVars
  <2>4. QED
    BY <2>2, <2>3
<1>6. CASE BackoffEnd(c)
  <2>1. retries[c] < MaxRetries /\ retries[c] \in 0..MaxRetries
    BY <1>6 DEF HttpInv, Typed, TypeOK, CallOK, AttemptsCounted, BackoffEnd
  <2>2. retries[c] + 1 \in 0..MaxRetries
    BY <2>1
  <2>3. NextBackoff(backoff[c]) \in 0..Longest
    BY NextBackoffBounded DEF HttpInv, Typed, TypeOK
  <2>4. QED
    BY <1>6, <2>2, <2>3 DEF HttpInv, Typed, TypeOK, BackoffEnd, tokenVars
<1>7. CASE BeginTransfer(c)
  BY <1>7 DEF HttpInv, Typed, TypeOK, BeginTransfer, tokenVars
<1>8. ASSUME NEW e \in Failures, TransferFails(c, e) PROVE Typed'
  <2>1. backoff[c] \in Nat
    BY DEF HttpInv, Typed, TypeOK, Longest
  <2>2. CASE pc' = [pc EXCEPT ![c] = "backoff"]
             /\ left' = [left EXCEPT ![c] = backoff[c]] /\ UNCHANGED <<result, code>>
    BY <1>8, <2>1, <2>2 DEF HttpInv, Typed, TypeOK, TransferFails, Release, tokenVars
  <2>3. CASE /\ pc' = [pc EXCEPT ![c] = "done"] /\ result' = [result EXCEPT ![c] = Category(e)]
             /\ code' = [code EXCEPT ![c] = e] /\ UNCHANGED left
             /\ Category(e) \in {"Network", "Timeout", "Canceled", "Pipeline", "Unknown"}
    BY <1>8, <2>3 DEF HttpInv, Typed, TypeOK, TransferFails, Release, tokenVars
  <2>4. QED
    BY <1>8, <2>2, <2>3, FailureEnds
<1>9. ASSUME NEW r \in Responses, TransferAnswers(c, r) PROVE Typed'
  <2>1. Verdict(c, r) \in {"Ok", "Network", "Pipeline"}
    BY DEF Verdict, Responses
  <2>2. QED
    BY <1>9, <2>1 DEF HttpInv, Typed, TypeOK, TransferAnswers, Return, Release, tokenVars
<1>10. CASE CancelRequest(c)
  <2>1. TokenOf[c] # NoToken => TokenOf[c] \in Tokens
    OBVIOUS
  <2>2. QED
    BY <1>10, <2>1 DEF HttpInv, Typed, TypeOK, CancelRequest, RequestCancel, tokenVars, callVars
<1>11. QED
  BY <1>1, <1>2, <1>3, <1>4, <1>5, <1>6, <1>7, <1>8, <1>9, <1>10 DEF CallGoesOn

(* The token and observer steps keep the types. *)
LEMMA TokensKeepTypes ==
  ASSUME HttpInv,
         \/ \E t \in Tokens : CancelToken(t) \/ RunCallbacks(t)
         \/ \E o \in Observers : OnCancelTest(o) \/ OnCancelAdd(o)
  PROVE  Typed'
<1>1. ASSUME NEW t \in Tokens, CancelToken(t) PROVE Typed'
  BY <1>1 DEF HttpInv, Typed, TypeOK, CancelToken, RequestCancel, callVars
<1>2. ASSUME NEW t \in Tokens, RunCallbacks(t) PROVE Typed'
  <2>1. \A o \in Observers : obs'[o] \in [at : {"new", "tested", "listed", "ran"}, runs : Nat]
    BY <1>2 DEF HttpInv, Typed, RunCallbacks
  <2>2. obs' \in [Observers -> [at : {"new", "tested", "listed", "ran"}, runs : Nat]]
    BY <1>2, <2>1 DEF RunCallbacks
  <2>3. QED
    BY <1>2, <2>2 DEF HttpInv, Typed, TypeOK, RunCallbacks, callVars
<1>3. ASSUME NEW o \in Observers, OnCancelTest(o) PROVE Typed'
  BY <1>3 DEF HttpInv, Typed, TypeOK, OnCancelTest, Tested, callVars
<1>4. ASSUME NEW o \in Observers, OnCancelAdd(o) PROVE Typed'
  BY <1>4 DEF HttpInv, Typed, TypeOK, OnCancelAdd, callVars
<1>5. QED
  BY <1>1, <1>2, <1>3, <1>4

-----------------------------------------------------------------------------
(* A call that does not move keeps its invariant, whatever becomes canceled. *)
LEMMA StillCallOK ==
  ASSUME NEW d \in Calls, CallOK(d), canceled \subseteq canceled',
         pc'[d] = pc[d], attempts'[d] = attempts[d], retries'[d] = retries[d],
         code'[d] = code[d], result'[d] = result[d], late'[d] = late[d],
         own'[d] \in {own[d], "none"}
  PROVE  CallOK(d)'
BY DEF CallOK, AttemptsCounted, ErrorIsLast, LateOnce, OwnOK, CanceledMeant, ShouldRetry

(* The steps of a call keep its own invariant and, since they only add to the *)
(* canceled tokens, that of every other call.                              *)
LEMMA CallKeepsCallOK ==
  ASSUME HttpInv, NEW c \in Calls, Begin(c) \/ RejectInput(c) \/ CallGoesOn(c) \/ CancelRequest(c)
  PROVE  \A d \in Calls : CallOK(d)'
<1>1. \A d \in Calls : CallOK(d)
  BY DEF HttpInv
<1>2. /\ canceled \subseteq Tokens /\ NoToken \notin Tokens /\ MaxRetries \in Nat
      /\ attempts[c] \in Nat /\ late[c] \in Nat /\ retries[c] \in 0..MaxRetries
      /\ pc[c] \in Places
  BY HttpAssumption DEF HttpInv, Typed, TypeOK, Places
<1>3. CallOK(c)
  BY <1>1
<1>4. KindOf[c] # "bare" => TokenOf[c] \in Tokens
  BY HttpAssumption
<1>5. CASE Begin(c)
  <2>1. CallOK(c)'
    BY <1>2, <1>3, <1>4, <1>5 DEF HttpInv, Typed, TypeOK, Begin, tokenVars,
       CallOK, AttemptsCounted, ErrorIsLast, LateOnce, OwnOK, CanceledMeant, ShouldRetry
  <2>2. ASSUME NEW d \in Calls, d # c PROVE CallOK(d)'
    BY <1>5, <1>1, <2>2, StillCallOK DEF HttpInv, Typed, TypeOK, Begin, tokenVars
  <2>3. QED
    BY <2>1, <2>2
<1>6. CASE RejectInput(c)
  <2>1. CallOK(c)'
    BY <1>2, <1>3, <1>4, <1>6 DEF HttpInv, Typed, TypeOK, RejectInput, tokenVars, Return,
       CallOK, AttemptsCounted, ErrorIsLast, LateOnce, OwnOK, CanceledMeant, ShouldRetry
  <2>2. ASSUME NEW d \in Calls, d # c PROVE CallOK(d)'
    BY <1>6, <1>1, <2>2, StillCallOK DEF HttpInv, Typed, TypeOK, RejectInput, tokenVars, Return
  <2>3. QED
    BY <2>1, <2>2
<1>7. CASE MockStep(c)
  <2>1. CallOK(c)'
    BY <1>2, <1>3, <1>4, <1>7 DEF HttpInv, Typed, TypeOK, MockStep, tokenVars, Return, SeesCancel,
       CallOK, AttemptsCounted, ErrorIsLast, LateOnce, OwnOK, CanceledMeant, ShouldRetry
  <2>2. ASSUME NEW d \in Calls, d # c PROVE CallOK(d)'
    BY <1>7, <1>1, <2>2, StillCallOK DEF HttpInv, Typed, TypeOK, MockStep, tokenVars, Return, SeesCancel
  <2>3. QED
    BY <2>1, <2>2
<1>8. CASE Check(c)
  <2>1. CallOK(c)'
    BY <1>2, <1>3, <1>4, <1>8 DEF HttpInv, Typed, TypeOK, Check, tokenVars, ReturnCanceled, Return, SeesCancel,
       CallOK, AttemptsCounted, ErrorIsLast, LateOnce, OwnOK, CanceledMeant, ShouldRetry
  <2>2. ASSUME NEW d \in Calls, d # c PROVE CallOK(d)'
    BY <1>8, <1>1, <2>2, StillCallOK DEF HttpInv, Typed, TypeOK, Check, tokenVars, ReturnCanceled, Return, SeesCancel
  <2>3. QED
    BY <2>1, <2>2
<1>9. CASE BackoffSlice(c)
  <2>1. CallOK(c)'
    BY <1>2, <1>3, <1>4, <1>9 DEF HttpInv, Typed, TypeOK, BackoffSlice, tokenVars, ReturnCanceled, Return, SeesCancel,
       CallOK, AttemptsCounted, ErrorIsLast, LateOnce, OwnOK, CanceledMeant, ShouldRetry
  <2>2. ASSUME NEW d \in Calls, d # c PROVE CallOK(d)'
    BY <1>9, <1>1, <2>2, StillCallOK DEF HttpInv, Typed, TypeOK, BackoffSlice, tokenVars, ReturnCanceled, Return, SeesCancel
  <2>3. QED
    BY <2>1, <2>2
<1>10. CASE BackoffEnd(c)
  <2>1. CallOK(c)'
    BY <1>2, <1>3, <1>4, <1>10 DEF HttpInv, Typed, TypeOK, BackoffEnd, tokenVars,
       CallOK, AttemptsCounted, ErrorIsLast, LateOnce, OwnOK, CanceledMeant, ShouldRetry
  <2>2. ASSUME NEW d \in Calls, d # c PROVE CallOK(d)'
    BY <1>10, <1>1, <2>2, StillCallOK DEF HttpInv, Typed, TypeOK, BackoffEnd, tokenVars
  <2>3. QED
    BY <2>1, <2>2
<1>11. CASE BeginTransfer(c)
  <2>1. CallOK(c)'
    BY <1>2, <1>3, <1>4, <1>11 DEF HttpInv, Typed, TypeOK, BeginTransfer, tokenVars,
       CallOK, AttemptsCounted, ErrorIsLast, LateOnce, OwnOK, CanceledMeant, ShouldRetry
  <2>2. ASSUME NEW d \in Calls, d # c PROVE CallOK(d)'
    BY <1>11, <1>1, <2>2, StillCallOK DEF HttpInv, Typed, TypeOK, BeginTransfer, tokenVars
  <2>3. QED
    BY <2>1, <2>2
<1>12. ASSUME NEW e \in Failures, TransferFails(c, e)
      PROVE  \A d \in Calls : CallOK(d)'
  <2>1. e = "CANCELED" /\ KindOf[c] # "bare" => TokenOf[c] \in canceled
    BY <1>2, <1>3, <1>4, <1>12 DEF TransferFails, TransferCanceled, CallOK, OwnOK
  <2>2. pc[c] = "transfer" /\ UNCHANGED <<retries, backoff, attempts, late, tokenVars>> /\ Release(c, e)
    BY <1>12 DEF TransferFails
  <2>3. CASE /\ pc' = [pc EXCEPT ![c] = "backoff"]
             /\ retries[c] < MaxRetries /\ UNCHANGED <<result, code>>
    <3>1. CallOK(c)'
      BY <1>2, <1>3, <2>2, <2>3 DEF HttpInv, Typed, TypeOK, Release, tokenVars,
         CallOK, AttemptsCounted, ErrorIsLast, LateOnce, OwnOK, CanceledMeant, ShouldRetry
    <3>2. ASSUME NEW d \in Calls, d # c PROVE CallOK(d)'
      BY <1>1, <2>2, <2>3, <3>2, StillCallOK DEF HttpInv, Typed, TypeOK, Release, tokenVars
    <3>3. QED
      BY <3>1, <3>2
  <2>4. CASE /\ pc' = [pc EXCEPT ![c] = "done"] /\ result' = [result EXCEPT ![c] = Category(e)]
             /\ code' = [code EXCEPT ![c] = e]
             /\ ShouldRetry(e) => retries[c] = MaxRetries
             /\ Category(e) = "Canceled" => e = "CANCELED"
    <3>1. CallOK(c)'
      BY <1>2, <1>3, <2>1, <2>2, <2>4 DEF HttpInv, Typed, TypeOK, Release, tokenVars,
         CallOK, AttemptsCounted, ErrorIsLast, LateOnce, OwnOK, CanceledMeant, ShouldRetry
    <3>2. ASSUME NEW d \in Calls, d # c PROVE CallOK(d)'
      BY <1>1, <2>2, <2>4, <3>2, StillCallOK DEF HttpInv, Typed, TypeOK, Release, tokenVars
    <3>3. QED
      BY <3>1, <3>2
  <2>5. QED
    BY <1>12, <2>3, <2>4, FailureEnds
<1>13. ASSUME NEW r \in Responses, TransferAnswers(c, r)
      PROVE  \A d \in Calls : CallOK(d)'
  <2>1. CallOK(c)'
    <3>1. Verdict(c, r) # "Canceled"
      BY DEF Verdict, Responses
    <3>2. QED
      BY <1>2, <1>3, <1>13, <3>1 DEF HttpInv, Typed, TypeOK, TransferAnswers, Return, Release, tokenVars,
         CallOK, AttemptsCounted, ErrorIsLast, LateOnce, OwnOK, CanceledMeant, ShouldRetry
  <2>2. ASSUME NEW d \in Calls, d # c PROVE CallOK(d)'
    BY <1>13, <1>1, <2>2, StillCallOK DEF HttpInv, Typed, TypeOK, TransferAnswers, tokenVars, Return, Release
  <2>3. QED
    BY <2>1, <2>2
<1>14. CASE CancelRequest(c)
  <2>1. canceled \subseteq canceled' /\ UNCHANGED <<pc, callVars>>
    BY <1>14 DEF CancelRequest, RequestCancel, tokenVars
  <2>2. ASSUME NEW d \in Calls, own'[d] \in {own[d], "none"} PROVE CallOK(d)'
    BY <1>1, <2>1, <2>2, StillCallOK DEF callVars
  <2>3. ASSUME NEW d \in Calls, own'[d] \notin {own[d], "none"} PROVE CallOK(d)'
    <3>1. TokenOf[d] = NoToken
      BY <1>14, <2>3 DEF HttpInv, Typed, TypeOK, CancelRequest
    <3>2. QED
      BY <1>1, <2>1, <2>3, <3>1 DEF callVars, CallOK, AttemptsCounted, ErrorIsLast, LateOnce, OwnOK, CanceledMeant, ShouldRetry
  <2>4. QED
    BY <2>2, <2>3
<1>15. QED
  BY <1>5, <1>6, <1>7, <1>8, <1>9, <1>10, <1>11, <1>12, <1>13, <1>14 DEF CallGoesOn

(* The steps of tokens and observers keep what the calls keep. *)
LEMMA TokensKeepCallOK ==
  ASSUME HttpInv,
         \/ \E t \in Tokens : CancelToken(t) \/ RunCallbacks(t)
         \/ \E o \in Observers : OnCancelTest(o) \/ OnCancelAdd(o)
  PROVE  \A d \in Calls : CallOK(d)'
<1>1. canceled \subseteq canceled' /\ UNCHANGED <<pc, callVars, own>>
  BY DEF CancelToken, RunCallbacks, OnCancelTest, OnCancelAdd, RequestCancel
<1>2. QED
  BY <1>1, StillCallOK DEF HttpInv, callVars

-----------------------------------------------------------------------------
(* A token is drained once: it enters draining only when it is canceled first, *)
(* so that no callback still listed has run when its token is drained.      *)
LEMMA CancelKeepsObservers ==
  ASSUME HttpInv, NEW t \in Tokens, RequestCancel(t)
  PROVE  \A o \in Observers : ObserverOK(o)'
BY DEF HttpInv, RequestCancel, ObserverOK

LEMMA DrainKeepsObservers ==
  ASSUME HttpInv, NEW t \in Tokens, RunCallbacks(t)
  PROVE  \A o \in Observers : ObserverOK(o)'
<1> SUFFICES ASSUME NEW o \in Observers PROVE ObserverOK(o)'
  OBVIOUS
<1>1. obs[o] \in [at : {"new", "tested", "listed", "ran"}, runs : Nat] /\ ObserverOK(o)
  BY DEF HttpInv, Typed
<1>2. t \in canceled /\ canceled' = canceled /\ draining' = draining \ {t}
  BY DEF RunCallbacks, HttpInv, Typed, TypeOK
<1>3. CASE Observed[o] = t /\ obs[o].at = "listed"
  <2>1. obs'[o] = [obs[o] EXCEPT !.runs = @ + 1]
    BY <1>3 DEF RunCallbacks
  <2>2. obs[o].runs = 0
    BY <1>1, <1>3 DEF ObserverOK, RunCallbacks
  <2>3. QED
    BY <1>1, <1>2, <1>3, <2>1, <2>2 DEF ObserverOK
<1>4. CASE ~(Observed[o] = t /\ obs[o].at = "listed")
  <2>1. obs'[o] = obs[o]
    BY <1>4 DEF RunCallbacks
  <2>2. QED
    BY <1>1, <1>2, <1>4, <2>1 DEF ObserverOK
<1>5. QED
  BY <1>3, <1>4

LEMMA OnCancelKeepsObservers ==
  ASSUME HttpInv, NEW p \in Observers, OnCancelTest(p) \/ OnCancelAdd(p)
  PROVE  \A o \in Observers : ObserverOK(o)'
<1> SUFFICES ASSUME NEW o \in Observers PROVE ObserverOK(o)'
  OBVIOUS
<1>1. obs[o] \in [at : {"new", "tested", "listed", "ran"}, runs : Nat] /\ ObserverOK(o)
  BY DEF HttpInv, Typed
<1>2. CASE OnCancelTest(p)
  BY <1>1, <1>2 DEF HttpInv, Typed, OnCancelTest, Tested, ObserverOK
<1>3. CASE OnCancelAdd(p)
  BY <1>1, <1>3 DEF HttpInv, Typed, OnCancelAdd, ObserverOK
<1>4. QED
  BY <1>2, <1>3

LEMMA NextKeepsObservers ==
  ASSUME HttpInv, [Next]_vars
  PROVE  \A o \in Observers : ObserverOK(o)'
<1>1. CASE UNCHANGED tokenVars
  BY <1>1 DEF HttpInv, tokenVars, ObserverOK
<1>2. ASSUME NEW t \in Tokens, CancelToken(t) PROVE \A o \in Observers : ObserverOK(o)'
  BY <1>2, CancelKeepsObservers DEF CancelToken
<1>3. ASSUME NEW t \in Tokens, RunCallbacks(t) PROVE \A o \in Observers : ObserverOK(o)'
  BY <1>3, DrainKeepsObservers
<1>4. ASSUME NEW p \in Observers, OnCancelTest(p) \/ OnCancelAdd(p)
      PROVE  \A o \in Observers : ObserverOK(o)'
  BY <1>4, OnCancelKeepsObservers
<1>5. ASSUME NEW c \in Calls, CancelRequest(c) PROVE \A o \in Observers : ObserverOK(o)'
  <2>1. CASE TokenOf[c] # NoToken
    <3>1. TokenOf[c] \in Tokens
      BY <2>1, HttpAssumption
    <3>2. QED
      BY <1>5, <2>1, <3>1, CancelKeepsObservers DEF CancelRequest
  <2>2. CASE TokenOf[c] = NoToken
    BY <1>1, <1>5, <2>2 DEF CancelRequest
  <2>3. QED
    BY <2>1, <2>2
<1>6. ASSUME NEW c \in Calls, Begin(c) \/ RejectInput(c) \/ CallGoesOn(c)
      PROVE  \A o \in Observers : ObserverOK(o)'
  <2>1. UNCHANGED tokenVars
    BY <1>6 DEF Begin, RejectInput, CallGoesOn, Check, MockStep, BackoffSlice, BackoffEnd,
       BeginTransfer, TransferFails, TransferAnswers
  <2>2. QED
    BY <1>1, <2>1
<1>7. CASE UNCHANGED vars
  BY <1>1, <1>7 DEF vars
<1>8. QED
  BY <1>2, <1>3, <1>4, <1>5, <1>6, <1>7 DEF Next

-----------------------------------------------------------------------------
(* The inductive invariant holds at the start and is kept by every step. *)
LEMMA InitHttpInv == Init => HttpInv
<1> SUFFICES ASSUME Init PROVE HttpInv
  OBVIOUS
<1>1. Typed
  BY HttpAssumption DEF Init, Typed, TypeOK, Longest
<1>2. ASSUME NEW c \in Calls PROVE CallOK(c)
  BY HttpAssumption DEF Init, CallOK, AttemptsCounted, ErrorIsLast, LateOnce, OwnOK, CanceledMeant, ShouldRetry
<1>3. ASSUME NEW o \in Observers PROVE ObserverOK(o)
  BY DEF Init, ObserverOK
<1>4. QED
  BY <1>1, <1>2, <1>3 DEF HttpInv

LEMMA NextHttpInv == HttpInv /\ [Next]_vars => HttpInv'
<1> SUFFICES ASSUME HttpInv, [Next]_vars PROVE HttpInv'
  OBVIOUS
<1>1. CASE UNCHANGED vars
  <2>1. Typed'
    BY <1>1 DEF HttpInv, Typed, TypeOK, vars, callVars, tokenVars
  <2>2. \A d \in Calls : CallOK(d)'
    BY <1>1, StillCallOK DEF HttpInv, vars, callVars, tokenVars
  <2>3. QED
    BY <2>1, <2>2, NextKeepsObservers DEF HttpInv
<1>2. CASE Next
  <2>1. Typed'
    BY <1>2, CallKeepsTypes, TokensKeepTypes DEF Next
  <2>2. \A d \in Calls : CallOK(d)'
    BY <1>2, CallKeepsCallOK, TokensKeepCallOK DEF Next
  <2>3. QED
    BY <2>1, <2>2, NextKeepsObservers DEF HttpInv
<1>3. QED
  BY <1>1, <1>2

LEMMA AlwaysHttpInv == Spec => []HttpInv
BY InitHttpInv, NextHttpInv, PTL DEF Spec

(* The values a call keeps have their types; no backoff of                    *)
(* RetryableHttpClient::execute exceeds the configured ones.               *)
THEOREM CallsTypeCorrect == Spec => []TypeOK
<1>1. HttpInv => TypeOK
  BY DEF HttpInv, Typed
<1>2. QED
  BY <1>1, AlwaysHttpInv, PTL

(* RetryableHttpClient::execute sends a request at most max_retries + 1 times, *)
(* and gives up with an error worth a retry only after that many.          *)
THEOREM RetriesAlwaysSpent == Spec => []RetriesAreSpent
<1>1. HttpInv => RetriesAreSpent
  <2> SUFFICES ASSUME HttpInv, NEW c \in Calls
               PROVE  /\ attempts[c] <= MaxRetries + 1
                      /\ pc[c] = "done" /\ ShouldRetry(code[c]) => attempts[c] = MaxRetries + 1
    BY DEF RetriesAreSpent
  <2>1. /\ MaxRetries \in Nat /\ retries[c] \in 0..MaxRetries /\ pc[c] \in Places
        /\ attempts[c] \in Nat
    BY HttpAssumption DEF HttpInv, Typed, TypeOK, Places
  <2>2. AttemptsCounted(c) /\ ErrorIsLast(c)
    BY DEF HttpInv, CallOK
  <2>3. QED
    BY <2>1, <2>2 DEF AttemptsCounted, ErrorIsLast, Places
<1>2. QED
  BY <1>1, AlwaysHttpInv, PTL

(* After a stage's token is canceled at most one more attempt begins, the one *)
(* that waited for curl_mutex_ at that moment.                             *)
THEOREM CancelAlwaysStopsRetries == Spec => []CancelStopsRetries
<1>1. HttpInv => CancelStopsRetries
  BY DEF HttpInv, CallOK, LateOnce, CancelStopsRetries
<1>2. QED
  BY <1>1, AlwaysHttpInv, PTL

(* A stage reports Canceled only if its token was canceled. *)
THEOREM CanceledAlwaysMeant == Spec => []CanceledIsMeant
<1>1. HttpInv => CanceledIsMeant
  BY DEF HttpInv, CallOK, CanceledMeant, CanceledIsMeant
<1>2. QED
  BY <1>1, AlwaysHttpInv, PTL

(* However request_cancel() and on_cancel() interleave, a callback runs at    *)
(* most once.                                                              *)
THEOREM CallbackAlwaysRunsOnce == Spec => []CallbackRunsOnce
<1>1. HttpInv => CallbackRunsOnce
  BY DEF HttpInv, Typed, ObserverOK, CallbackRunsOnce
<1>2. QED
  BY <1>1, AlwaysHttpInv, PTL
=============================================================================
