----------------------------- MODULE HttpStages -----------------------------
(***************************************************************************)
(* What a worker does while it executes a stage: the stages of              *)
(* infra/src/stages.cpp and core/src/pipeline.cpp, over RetryableHttpClient *)
(* (infra/src/http_client.cpp), over CurlHttpClient                        *)
(* (infra/src/curl_http_client.cpp), with the cancel token                 *)
(* (core/src/cancel_token.cpp) that any other thread may cancel.           *)
(*                                                                         *)
(* Every call runs on its own thread; all share one CurlHttpClient, whose   *)
(* curl_mutex_ lets one transfer through at a time.  Between the checks of  *)
(* the token anything may happen.  Bodies, headers and progress reports are *)
(* left out; a transfer is the set of ways it can end.                     *)
(***************************************************************************)
EXTENDS Integers, FiniteSets

CONSTANTS
  Calls,                       \* stage executions, or bare uses of the client
  KindOf,                      \* "http" and "mock" stages, "bare" uses
  Tokens, TokenOf,             \* the stage's cancel token; NoToken for bare calls
  NoToken,
  MaxRetries, InitialBackoff, BackoffMultiplier, MaxBackoff,  \* RetryPolicy, in slices
  MockSteps,                   \* steps of a mock stage
  Observers, Observed          \* on_cancel() callers, and the token of each

ASSUME HttpAssumption ==
  /\ NoToken \notin Tokens
  /\ KindOf \in [Calls -> {"http", "mock", "bare"}]
  /\ \A c \in Calls : TokenOf[c] \in Tokens <=> KindOf[c] # "bare"
  /\ \A c \in Calls : TokenOf[c] \in Tokens \cup {NoToken}
  /\ {MaxRetries, InitialBackoff, BackoffMultiplier, MaxBackoff, MockSteps} \subseteq Nat
  /\ Observed \in [Observers -> Tokens]

VARIABLES
  pc,        \* where the call is
  result,    \* category of the error it returned, or "Ok"
  code,      \* http_error_code of the client's error, "none" if it had none
  retries,   \* retry_count
  backoff,   \* backoff, in slices
  left,      \* slices left of a backoff, or steps left of a mock stage
  attempts,  \* inner execute() calls begun
  late,      \* those of them begun with the token canceled already
  holder,    \* the call inside curl_mutex_
  inFlight,  \* the calls with an entry in in_flight_requests_
  own,       \* the token execute() creates for a caller that has none
  canceled,  \* the tokens whose flag is set
  draining,  \* those of them whose callbacks have not been run yet
  obs        \* on_cancel() calls: where each is, and its callback's runs

tokenVars == <<canceled, draining, obs>>
callVars  == <<result, code, retries, backoff, left, attempts, late>>
vars == <<pc, callVars, holder, inFlight, own, tokenVars>>

Nobody == "Nobody"

-----------------------------------------------------------------------------
(* HttpErrorCode, as CurlHttpClient classifies a transfer's end, and the     *)
(* ErrorCategory make_http_error gives it.                                 *)
Failures == {"NETWORK_ERROR", "TIMEOUT", "CANCELED", "SERVER_ERROR", "RATE_LIMIT", "CLIENT_ERROR", "UNKNOWN"}

(* Faulty variant: a timeout counts as a cancellation. *)
CategoryTimeoutCanceled(e) ==
  IF e \in {"CANCELED", "TIMEOUT"} THEN "Canceled" ELSE "Network"

Category(e) ==
  CASE e \in {"NETWORK_ERROR", "SERVER_ERROR", "RATE_LIMIT"} -> "Network"
    [] e = "TIMEOUT" -> "Timeout"
    [] e = "CANCELED" -> "Canceled"
    [] e = "CLIENT_ERROR" -> "Pipeline"
    [] OTHER -> "Unknown"

ShouldRetry(e) == e \in {"NETWORK_ERROR", "TIMEOUT", "SERVER_ERROR", "RATE_LIMIT"}

(* Responses that are no error to the client: 200 with the field the stage    *)
(* wants, 200 without it, and any other status below 400.                  *)
Responses == {"complete", "incomplete", "other"}

(* The stage's verdict on a response; a bare caller takes any.  (The          *)
(* storyboard stage wants no field: for it no 200 is incomplete.)          *)
Verdict(c, r) ==
  CASE KindOf[c] = "bare" \/ r = "complete" -> "Ok"
    [] KindOf[c] # "bare" /\ r = "other" -> "Network"
    [] KindOf[c] # "bare" /\ r = "incomplete" -> "Pipeline"

-----------------------------------------------------------------------------
(* Tokens *)

(* Faulty variant: cancellation goes unnoticed between attempts. *)
SeesNothing(c) == FALSE

(* cancel_token && cancel_token->is_canceled(), as the retry loop asks. *)
SeesCancel(c) == TokenOf[c] \in canceled

(* The token a transfer's progress callback asks. *)
TransferCanceled(c) == TokenOf[c] \in canceled \/ own[c] = "canceled"

Return(c, cat) ==
  /\ pc' = [pc EXCEPT ![c] = "done"]
  /\ result' = [result EXCEPT ![c] = cat]

(* request_cancel(): the first call sets the flag and then, under cb_mutex_,  *)
(* runs the callbacks listed by that time.                                 *)
RequestCancel(t) ==
  /\ canceled' = canceled \cup {t}
  /\ draining' = IF t \in canceled THEN draining ELSE draining \cup {t}
  /\ UNCHANGED obs

CancelToken(t) ==
  /\ t \notin canceled
  /\ RequestCancel(t)
  /\ UNCHANGED <<pc, callVars, holder, inFlight, own>>

RunCallbacks(t) ==
  /\ t \in draining
  /\ draining' = draining \ {t}
  /\ obs' = [o \in Observers |-> IF Observed[o] = t /\ obs[o].at = "listed"
                                  THEN [obs[o] EXCEPT !.runs = @ + 1] ELSE obs[o]]
  /\ UNCHANGED <<pc, callVars, holder, inFlight, own, canceled>>

(* Faulty variant: having run the callback, on_cancel() goes on to list it. *)
RunsAndGoesOn(o) ==
  IF Observed[o] \in canceled THEN [at |-> "tested", runs |-> 1] ELSE [at |-> "tested", runs |-> 0]

(* on_cancel() tests the flag: canceled already, the callback runs at once;    *)
(* otherwise it is added to the list, later and under cb_mutex_.           *)
Tested(o) ==
  IF Observed[o] \in canceled THEN [at |-> "ran", runs |-> 1] ELSE [at |-> "tested", runs |-> 0]

OnCancelTest(o) ==
  /\ obs[o].at = "new"
  /\ obs' = [obs EXCEPT ![o] = Tested(o)]
  /\ UNCHANGED <<pc, callVars, holder, inFlight, own, canceled, draining>>

OnCancelAdd(o) ==
  /\ obs[o].at = "tested"
  /\ obs' = [obs EXCEPT ![o].at = "listed"]
  /\ UNCHANGED <<pc, callVars, holder, inFlight, own, canceled, draining>>

-----------------------------------------------------------------------------
(* The stages *)

(* The input the stage insists on is missing. *)
RejectInput(c) ==
  /\ pc[c] = "idle" /\ KindOf[c] = "http"
  /\ Return(c, "Pipeline")
  /\ UNCHANGED <<code, retries, backoff, left, attempts, late, holder, inFlight, own, tokenVars>>

Begin(c) ==
  /\ pc[c] = "idle"
  /\ pc' = [pc EXCEPT ![c] = IF KindOf[c] = "mock" THEN "mock" ELSE "check"]
  /\ left' = [left EXCEPT ![c] = IF KindOf[c] = "mock" THEN MockSteps ELSE 0]
  /\ backoff' = [backoff EXCEPT ![c] = InitialBackoff]
  /\ UNCHANGED <<result, code, retries, attempts, late, holder, inFlight, own, tokenVars>>

(* A mock stage looks at its token before every step. *)
MockStep(c) ==
  /\ pc[c] = "mock"
  /\ IF left[c] = 0 THEN Return(c, "Ok") /\ UNCHANGED left
     ELSE IF SeesCancel(c) THEN Return(c, "Canceled") /\ UNCHANGED left
     ELSE left' = [left EXCEPT ![c] = @ - 1] /\ UNCHANGED <<pc, result>>
  /\ UNCHANGED <<code, retries, backoff, attempts, late, holder, inFlight, own, tokenVars>>

-----------------------------------------------------------------------------
(* RetryableHttpClient::execute *)

ReturnCanceled(c) ==
  /\ Return(c, "Canceled")
  /\ code' = [code EXCEPT ![c] = "CANCELED"]

(* The head of the loop; then the call waits for curl_mutex_. *)
Check(c) ==
  /\ pc[c] = "check"
  /\ IF SeesCancel(c) THEN ReturnCanceled(c)
     ELSE pc' = [pc EXCEPT ![c] = "queue"] /\ UNCHANGED <<result, code>>
  /\ UNCHANGED <<retries, backoff, left, attempts, late, holder, inFlight, own, tokenVars>>

(* Faulty variant: one attempt more. *)
OneMoreAttempt(c) == retries[c] <= MaxRetries

HasAttemptsLeft(c) == retries[c] < MaxRetries

(* What becomes of an attempt that ended with error e. *)
AttemptFailed(c, e) ==
  IF ShouldRetry(e) /\ HasAttemptsLeft(c)
  THEN /\ pc' = [pc EXCEPT ![c] = "backoff"]
       /\ left' = [left EXCEPT ![c] = backoff[c]]
       /\ UNCHANGED <<result, code>>
  ELSE /\ Return(c, Category(e))
       /\ code' = [code EXCEPT ![c] = e]
       /\ UNCHANGED left

(* The backoff sleeps slice by slice and looks at the token before each. *)
BackoffSlice(c) ==
  /\ pc[c] = "backoff" /\ left[c] > 0
  /\ IF SeesCancel(c) THEN ReturnCanceled(c) /\ UNCHANGED left
     ELSE left' = [left EXCEPT ![c] = @ - 1] /\ UNCHANGED <<pc, result, code>>
  /\ UNCHANGED <<retries, backoff, attempts, late, holder, inFlight, own, tokenVars>>

(* Faulty variant: no cap. *)
LongerBackoff(b) == b * BackoffMultiplier

NextBackoff(b) == IF b * BackoffMultiplier > MaxBackoff THEN MaxBackoff ELSE b * BackoffMultiplier

BackoffEnd(c) ==
  /\ pc[c] = "backoff" /\ left[c] = 0
  /\ backoff' = [backoff EXCEPT ![c] = NextBackoff(@)]
  /\ retries' = [retries EXCEPT ![c] = @ + 1]
  /\ pc' = [pc EXCEPT ![c] = "check"]
  /\ UNCHANGED <<result, code, left, attempts, late, holder, inFlight, own, tokenVars>>

-----------------------------------------------------------------------------
(* CurlHttpClient *)

(* execute() takes curl_mutex_ and registers the request. *)
BeginTransfer(c) ==
  /\ pc[c] = "queue" /\ holder = Nobody
  /\ holder' = c
  /\ inFlight' = inFlight \cup {c}
  /\ own' = IF TokenOf[c] = NoToken THEN [own EXCEPT ![c] = "live"] ELSE own
  /\ attempts' = [attempts EXCEPT ![c] = @ + 1]
  /\ late' = [late EXCEPT ![c] = IF TokenOf[c] \in canceled THEN @ + 1 ELSE @]
  /\ pc' = [pc EXCEPT ![c] = "transfer"]
  /\ UNCHANGED <<result, code, retries, backoff, left, tokenVars>>

(* Faulty variant: the mutex is kept after an error. *)
ReleaseIfOk(c, e) ==
  /\ holder' = IF e \in Responses THEN Nobody ELSE c
  /\ own' = [own EXCEPT ![c] = "none"] /\ UNCHANGED inFlight

(* The end of execute(): the mutex is released and a token of its own dies.   *)
(* The guard that should unregister the request owns a null pointer, and its *)
(* deleter never runs.                                                     *)
Release(c, e) ==
  /\ holder' = Nobody
  /\ own' = [own EXCEPT ![c] = "none"] /\ UNCHANGED inFlight

(* A transfer may end in any way, aborted only if its token was canceled,     *)
(* and need not be aborted then.                                           *)
TransferFails(c, e) ==
  /\ pc[c] = "transfer"
  /\ e = "CANCELED" => TransferCanceled(c)
  /\ Release(c, e)
  /\ AttemptFailed(c, e)
  /\ UNCHANGED <<retries, backoff, attempts, late, tokenVars>>

TransferAnswers(c, r) ==
  /\ pc[c] = "transfer"
  /\ Release(c, r)
  /\ Return(c, Verdict(c, r))
  /\ UNCHANGED <<code, retries, backoff, left, attempts, late, tokenVars>>

(* cancel(request_id) finds the entry and cancels its token, if that lives;   *)
(* an entry whose token is gone is erased.                                 *)
CancelRequest(c) ==
  /\ c \in inFlight
  /\ IF TokenOf[c] # NoToken
     THEN RequestCancel(TokenOf[c]) /\ UNCHANGED <<own, inFlight>>
     ELSE IF own[c] = "none"
     THEN inFlight' = inFlight \ {c} /\ UNCHANGED <<own, tokenVars>>
     ELSE own' = [own EXCEPT ![c] = "canceled"] /\ UNCHANGED <<inFlight, tokenVars>>
  /\ UNCHANGED <<pc, callVars, holder>>

-----------------------------------------------------------------------------
Init ==
  /\ pc = [c \in Calls |-> "idle"]
  /\ result = [c \in Calls |-> "none"]
  /\ code = [c \in Calls |-> "none"]
  /\ retries = [c \in Calls |-> 0]
  /\ backoff = [c \in Calls |-> 0]
  /\ left = [c \in Calls |-> 0]
  /\ attempts = [c \in Calls |-> 0]
  /\ late = [c \in Calls |-> 0]
  /\ holder = Nobody
  /\ inFlight = {}
  /\ own = [c \in Calls |-> "none"]
  /\ canceled = {} /\ draining = {}
  /\ obs = [o \in Observers |-> [at |-> "new", runs |-> 0]]

(* The next step of the thread that makes the call. *)
CallGoesOn(c) ==
  \/ Check(c) \/ MockStep(c) \/ BackoffSlice(c) \/ BackoffEnd(c) \/ BeginTransfer(c)
  \/ \E e \in Failures : TransferFails(c, e)
  \/ \E r \in Responses : TransferAnswers(c, r)

Next ==
  \/ \E c \in Calls : Begin(c) \/ RejectInput(c) \/ CallGoesOn(c) \/ CancelRequest(c)
  \/ \E t \in Tokens : CancelToken(t) \/ RunCallbacks(t)
  \/ \E o \in Observers : OnCancelTest(o) \/ OnCancelAdd(o)

Spec == Init /\ [][Next]_vars

(* Threads go on; a transfer ends, by its timeout at the latest. *)
FairSpec == Spec /\ \A c \in Calls : WF_vars(CallGoesOn(c))

-----------------------------------------------------------------------------
Longest == IF InitialBackoff > MaxBackoff THEN InitialBackoff ELSE MaxBackoff

(* The values a call keeps have their types: in particular no backoff is      *)
(* longer than the configured ones, however often it is multiplied.        *)
TypeOK ==
  /\ pc \in [Calls -> {"idle", "mock", "check", "queue", "transfer", "backoff", "done"}]
  /\ result \in [Calls -> {"none", "Ok", "Network", "Timeout", "Canceled", "Pipeline", "Unknown"}]
  /\ code \in [Calls -> Failures \cup {"none"}]
  /\ retries \in [Calls -> 0..MaxRetries]
  /\ backoff \in [Calls -> 0..Longest]
  /\ left \in [Calls -> Nat] /\ attempts \in [Calls -> Nat] /\ late \in [Calls -> Nat]
  /\ holder \in Calls \cup {Nobody} /\ inFlight \subseteq Calls
  /\ own \in [Calls -> {"none", "live", "canceled"}]
  /\ canceled \subseteq Tokens /\ draining \subseteq canceled
  /\ \A o \in Observers : obs[o].at \in {"new", "tested", "listed", "ran"} /\ obs[o].runs \in Nat

(* A request is sent at most max_retries + 1 times, and given up with an       *)
(* error worth a retry only after that many.                               *)
RetriesAreSpent ==
  \A c \in Calls :
    /\ attempts[c] <= MaxRetries + 1
    /\ pc[c] = "done" /\ ShouldRetry(code[c]) => attempts[c] = MaxRetries + 1

(* Canceling a stage's token stops its retries: at most one attempt, the one   *)
(* already waiting for curl_mutex_, begins afterwards.                     *)
CancelStopsRetries == \A c \in Calls : late[c] <= 1

(* A call reports Canceled only if it was canceled: a task is not recorded     *)
(* Canceled because its server was slow or failed.                         *)
CanceledIsMeant ==
  \A c \in Calls : result[c] = "Canceled" /\ KindOf[c] # "bare" => TokenOf[c] \in canceled

(* An on_cancel() callback runs at most once, on whichever thread. *)
CallbackRunsOnce == \A o \in Observers : obs[o].runs <= 1

(* A cancel by id that comes after the request has completed misses: it        *)
(* cancels no token, which the stages of a whole workflow share.  The code    *)
(* does not keep this: the entry of the request is never removed (Release). *)
CompletedIsMissed ==
  [][\A c \in Calls : CancelRequest(c) /\ pc[c] = "done" => UNCHANGED canceled]_vars

(* Every call returns, although all of them compete for one curl handle and    *)
(* whatever their transfers end in.                                        *)
CallsReturn == \A c \in Calls : (pc[c] # "idle") ~> (pc[c] = "done")
=============================================================================
