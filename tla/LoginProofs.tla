------------------------------ MODULE LoginProofs -----------------------------
(***************************************************************************)
(* What the parts of a login promise, each for every value of its          *)
(* constants: LoginTimer, that the token is refreshed while the job works; *)
(* TokenCache, that the refresh token in the cache is one Salesforce       *)
(* accepts; BrowserLogin, that the login ends as a callback said and       *)
(* nobody is told otherwise.                                               *)
(***************************************************************************)
EXTENDS LoginTimer, TokenCache, BrowserLogin, TLAPS

(***************************************************************************)
(* LoginTimer.                                                             *)
(***************************************************************************)

-----------------------------------------------------------------------------
(* The inductive invariant. *)

\* Only the main thread's cancel sets the event of the current Timer.
OnlyMainCancels == cancelled => main \in {"exit", "gone"}

\* The main thread leaves its own login through StartTimer alone.
MainLogsIn == main \in {"login", "refused"} => login # "idle"

\* A Timer waits only while no login runs: login() arms it as its last step.
OneLogin == timer = "armed" => login = "idle"

\* The age of the token, by the step of the refresh: the time left of a live
\* timer and the time an exchange has taken are within the bound.
Allowance == failures * (Period + LoginTime)

AgeBound ==
    /\ main = "login" => age = 0
    /\ main = "work" =>
         /\ login = "idle" => age + left <= Allowance + Period
         /\ login = "exchange" => age <= Allowance + Period + took
         /\ login \in {"create", "start"} => age <= Allowance

TimerInv ==
    /\ TimerTypeOK
    /\ OnlyMainCancels
    /\ MainLogsIn
    /\ OneLogin
    /\ RefreshKeepsGoing
    /\ AgeBound

-----------------------------------------------------------------------------
(* The allowance is a natural number, and each failed exchange adds one    *)
(* period and one exchange to it.                                          *)
LEMMA AllowanceGrows ==
    ASSUME NEW f \in Nat
    PROVE  /\ f * (Period + LoginTime) \in Nat
           /\ (f + 1) * (Period + LoginTime)
                = f * (Period + LoginTime) + Period + LoginTime
  <1>1. Period \in Nat /\ LoginTime \in Nat
    BY TimerAssumption
  <1> QED
    BY <1>1

(* The cap on the counted age is a natural number. *)
LEMMA MaxAgeType == MaxAge \in Nat
  BY AllowanceGrows, TimerAssumption DEF MaxAge

(* Every step keeps every variable in its type. *)
LEMMA TimerTypeStep == TimerTypeOK /\ [TimerNext]_timerVars => TimerTypeOK'
  <1> SUFFICES ASSUME TimerTypeOK, [TimerNext]_timerVars
               PROVE  TimerTypeOK'
    OBVIOUS
  <1> USE TimerAssumption, MaxAgeType DEF TimerTypeOK
  <1>1. CASE ExchangeSucceeds
    BY <1>1 DEF ExchangeSucceeds
  <1>2. CASE ExchangeFails
    BY <1>2 DEF ExchangeFails
  <1>3. CASE CreateTimer
    BY <1>3 DEF CreateTimer, clockVars
  <1>4. CASE StartTimer
    BY <1>4 DEF StartTimer
  <1>5. CASE TimerFires
    BY <1>5 DEF TimerFires
  <1>6. CASE Main
    BY <1>6 DEF Main, FinishJob, LoadTimer, CancelTimer, Exit, clockVars
  <1>7. CASE Tick
    BY <1>7 DEF Tick, threadVars
  <1>8. CASE UNCHANGED timerVars
    BY <1>8 DEF timerVars
  <1> QED
    BY <1>1, <1>2, <1>3, <1>4, <1>5, <1>6, <1>7, <1>8 DEF TimerNext, Login, Ended

(* No step cancels the timer, stops the refreshing or leaves the main      *)
(* thread's login half done before the job is over.                        *)
LEMMA RefreshStep ==
    TimerInv /\ [TimerNext]_timerVars => (OnlyMainCancels /\ MainLogsIn /\ OneLogin /\ RefreshKeepsGoing)'
  <1> SUFFICES ASSUME TimerInv, [TimerNext]_timerVars
               PROVE  (OnlyMainCancels /\ MainLogsIn /\ OneLogin /\ RefreshKeepsGoing)'
    OBVIOUS
  <1> USE DEF TimerInv, TimerTypeOK, OnlyMainCancels, MainLogsIn, OneLogin, RefreshKeepsGoing
  <1>1. CASE ExchangeSucceeds
    BY <1>1 DEF ExchangeSucceeds
  <1>2. CASE ExchangeFails
    BY <1>2 DEF ExchangeFails
  <1>3. CASE CreateTimer
    BY <1>3 DEF CreateTimer
  <1>4. CASE StartTimer
    BY <1>4 DEF StartTimer
  <1>5. CASE TimerFires
    BY <1>5 DEF TimerFires
  <1>6. CASE Main
    BY <1>6 DEF Main, FinishJob, LoadTimer, CancelTimer, Exit
  <1>7. CASE Tick
    BY <1>7 DEF Tick, threadVars
  <1>8. CASE UNCHANGED timerVars
    BY <1>8 DEF timerVars
  <1> QED
    BY <1>1, <1>2, <1>3, <1>4, <1>5, <1>6, <1>7, <1>8 DEF TimerNext, Login, Ended

(* Every step keeps the token's age within the bound of its stage. *)
LEMMA AgeStep == TimerInv /\ [TimerNext]_timerVars => AgeBound'
  <1> SUFFICES ASSUME TimerInv, [TimerNext]_timerVars
               PROVE  AgeBound'
    OBVIOUS
  <1>1. Allowance \in Nat /\ (UNCHANGED failures => Allowance' = Allowance)
    BY AllowanceGrows DEF TimerInv, TimerTypeOK, Allowance
  <1>2. Period \in Nat /\ LoginTime \in Nat
    BY TimerAssumption
  <1> USE <1>1, <1>2 DEF TimerInv, TimerTypeOK, AgeBound
  <1>3. CASE ExchangeSucceeds
    <2>1. Allowance' \in Nat
      BY <1>3, AllowanceGrows DEF ExchangeSucceeds, Allowance
    <2> QED
      BY <1>3, <2>1 DEF ExchangeSucceeds
  <1>4. CASE ExchangeFails
    <2>1. Allowance' = Allowance + Period + LoginTime
      BY <1>4, AllowanceGrows DEF ExchangeFails, Allowance
    <2> QED
      BY <1>4, <2>1 DEF ExchangeFails
  <1>5. CASE CreateTimer
    BY <1>5 DEF CreateTimer, clockVars
  <1>6. CASE StartTimer
    BY <1>6 DEF StartTimer
  <1>7. CASE TimerFires
    BY <1>7 DEF TimerFires, OneLogin
  <1>8. CASE Main
    BY <1>8 DEF Main, FinishJob, LoadTimer, CancelTimer, Exit, clockVars
  <1>9. CASE Tick
    BY <1>9 DEF Tick, threadVars, RefreshKeepsGoing
  <1>10. CASE UNCHANGED timerVars
    BY <1>10 DEF timerVars
  <1> QED
    BY <1>3, <1>4, <1>5, <1>6, <1>7, <1>8, <1>9, <1>10 DEF TimerNext, Login, Ended

(* The invariant holds at first and is kept by every step. *)
LEMMA TimerInductive == TimerSpec => []TimerInv
  <1>1. TimerInit => TimerInv
    <2>1. TimerInit => TimerTypeOK
      <3>1. TimerInit => age \in 0..MaxAge
        BY MaxAgeType DEF TimerInit
      <3>2. TimerInit => cancelled \in BOOLEAN /\ held \in BOOLEAN
        BY DEF TimerInit
      <3> QED
        BY <3>1, <3>2, TimerAssumption DEF TimerInit, TimerTypeOK
    <2>2. TimerInit => OnlyMainCancels /\ MainLogsIn /\ OneLogin /\ RefreshKeepsGoing
      BY DEF TimerInit, OnlyMainCancels, MainLogsIn, OneLogin, RefreshKeepsGoing
    <2>3. TimerInit => AgeBound
      BY DEF TimerInit, AgeBound
    <2> QED
      BY <2>1, <2>2, <2>3 DEF TimerInv
  <1>2. TimerInv /\ [TimerNext]_timerVars => TimerInv'
    BY TimerTypeStep, RefreshStep, AgeStep DEF TimerInv
  <1> QED
    BY <1>1, <1>2, PTL DEF TimerSpec

-----------------------------------------------------------------------------
(* While the job works a login is in progress or a live timer will start   *)
(* one, whatever logins fail: credentials.py re-arms the timer in a        *)
(* `finally`.                                                              *)
THEOREM RefreshNeverStops == TimerSpec => []RefreshKeepsGoing
  <1>1. TimerInv => RefreshKeepsGoing
    BY DEF TimerInv
  <1> QED
    BY <1>1, TimerInductive, PTL

(* The token is at most one period and one exchange old, and as much again *)
(* for every exchange that failed since it was received.                   *)
THEOREM TokenAgeIsBounded == TimerSpec => []TokenStaysFresh
  <1>1. TimerInv => TokenStaysFresh
    <2> SUFFICES ASSUME TimerInv, main = "work"
                 PROVE  age <= (failures + 1) * (Period + LoginTime)
      BY DEF TokenStaysFresh
    <2>1. Allowance \in Nat /\ (failures + 1) * (Period + LoginTime)
                                 = Allowance + Period + LoginTime
      BY AllowanceGrows DEF TimerInv, TimerTypeOK, Allowance
    <2> QED
      BY <2>1, TimerAssumption DEF TimerInv, TimerTypeOK, AgeBound
  <1> QED
    BY <1>1, TimerInductive, PTL

(* Every variable of the login timer has its type. *)
THEOREM TimerTypeCorrect == TimerSpec => []TimerTypeOK
  <1>1. TimerInv => TimerTypeOK
    BY DEF TimerInv
  <1> QED
    BY <1>1, TimerInductive, PTL

(***************************************************************************)
(* TokenCache.                                                             *)
(***************************************************************************)

\* A token on its way to the cache is accepted, and no one else can use it up:
\* it is in no cache yet and no other process holds it.
InTransit ==
    \A p \in Process : Storing(p) =>
        /\ token[p] \in valid
        /\ token[p] \notin {keyring, file}
        /\ \A q \in Process \ {p} : token[q] # token[p]

\* The file is written only for want of a keychain, which then holds nothing.
NoKeyring ==
    /\ ~hasKeyring => keyring = None
    /\ \A p \in Process : pc[p] = "write" => ~hasKeyring

CacheInv ==
    /\ CacheTypeOK
    /\ past = {} => InTransit /\ NoKeyring /\ CacheIsFresh

-----------------------------------------------------------------------------
(* A new token is a token that nothing refers to. *)
LEMMA NewTokenIsNew ==
    ASSUME NEW t \in NewTokens
    PROVE  /\ t \in Token /\ t # keyring /\ t # file
           /\ \A p \in Process : t # token[p]
  BY DEF NewTokens

(* What is cached is in the keychain or in the file. *)
LEMMA CachedIsKept ==
    ASSUME CacheTypeOK
    PROVE  Cached \in {keyring, file} /\ Cached \in Token \cup {None}
  BY DEF Cached, CacheTypeOK

(* Every step keeps every variable in its type. *)
LEMMA CacheTypeStep == CacheTypeOK /\ [CacheNext]_cacheVars => CacheTypeOK'
  <1> SUFFICES ASSUME CacheTypeOK, [CacheNext]_cacheVars
               PROVE  CacheTypeOK'
    OBVIOUS
  <1> USE DEF CacheTypeOK
  <1>a. UNCHANGED hasKeyring
    BY DEF CacheNext, cacheVars
  <1>1. ASSUME NEW p \in Process, NEW t \in Token \cup {None}, Start(p, t),
               past' \subseteq Faults
        PROVE  CacheTypeOK'
    BY <1>a, <1>1 DEF Start
  <1>2. ASSUME NEW p \in Process, LoadRefreshToken(p) \/ KeyringLookupFails(p)
        PROVE  CacheTypeOK'
    BY <1>a, <1>1, <1>2, CachedIsKept DEF LoadRefreshToken, KeyringLookupFails, Happens
  <1>3. ASSUME NEW p \in Process, Rotate(p) \/ RunBrowserFlow(p)
        PROVE  CacheTypeOK'
    BY <1>a, <1>3, NewTokenIsNew DEF Rotate, RunBrowserFlow
  <1>4. ASSUME NEW p \in Process, Reuse(p) \/ Reject(p)
        PROVE  CacheTypeOK'
    BY <1>a, <1>4 DEF Reuse, Reject, Return
  <1>5. ASSUME NEW p \in Process, StoreToKeyring(p) \/ WriteFile(p)
        PROVE  CacheTypeOK'
    BY <1>a, <1>5 DEF StoreToKeyring, WriteFile, Return
  <1>6. ASSUME NEW p \in Process, WithoutKeyring(p) \/ KeyringStoreFails(p)
        PROVE  CacheTypeOK'
    BY <1>a, <1>6 DEF WithoutKeyring, KeyringStoreFails, TruncateFile, Happens
  <1>7. ASSUME NEW p \in Process, Crash(p) \/ LoseAnswer(p)
        PROVE  CacheTypeOK'
    BY <1>a, <1>7 DEF Crash, LoseAnswer, Return, Happens
  <1>8. CASE UNCHANGED cacheVars
    BY <1>8 DEF cacheVars
  <1> QED
    BY <1>a, <1>2, <1>3, <1>4, <1>5, <1>6, <1>7, <1>8 DEF CacheNext, AcquireToken, Fault

(* No fault is ever taken back: a step after which none has happened is a  *)
(* step of acquire_token.                                                  *)
LEMMA NoFaultStep ==
    ASSUME [CacheNext]_cacheVars, past' = {}
    PROVE  /\ past = {}
           /\ UNCHANGED hasKeyring
           /\ UNCHANGED cacheVars \/ \E p \in Process : AcquireToken(p)
  <1>1. ASSUME NEW p \in Process, Fault(p)
        PROVE  FALSE
    BY <1>1 DEF Fault, KeyringLookupFails, KeyringStoreFails, Crash, LoseAnswer, Happens
  <1> QED
    BY <1>1 DEF CacheNext, AcquireToken, LoadRefreshToken, Rotate, Reuse, Reject,
       RunBrowserFlow, StoreToKeyring, WithoutKeyring, WriteFile, cacheVars

(* A step of acquire_token leaves the tokens in transit accepted and       *)
(* unshared, and the cache fresh.                                          *)
LEMMA FreshStep ==
    ASSUME CacheTypeOK, InTransit, NoKeyring, CacheIsFresh,
           NEW p \in Process, AcquireToken(p), UNCHANGED hasKeyring
    PROVE  (InTransit /\ NoKeyring /\ CacheIsFresh)'
  <1> USE CacheAssumption DEF CacheTypeOK, InTransit, NoKeyring, CacheIsFresh, Storing
  <1>1. CASE LoadRefreshToken(p)
    BY <1>1, CachedIsKept DEF LoadRefreshToken, Start, Cached
  <1>2. CASE Rotate(p)
    <2>1. PICK t \in NewTokens : /\ valid' = (valid \ {token[p]}) \cup {t}
                                 /\ token' = [token EXCEPT ![p] = t]
      BY <1>2 DEF Rotate
    <2> QED
      BY <1>2, <2>1, NewTokenIsNew DEF Rotate
  <1>3. CASE RunBrowserFlow(p)
    <2>1. PICK t \in NewTokens : /\ valid' = valid \cup {t}
                                 /\ token' = [token EXCEPT ![p] = t]
      BY <1>3 DEF RunBrowserFlow
    <2> QED
      BY <1>3, <2>1, NewTokenIsNew DEF RunBrowserFlow
  <1>4. CASE Reuse(p) \/ Reject(p)
    BY <1>4 DEF Reuse, Reject, Return, Cached
  <1>5. CASE StoreToKeyring(p) \/ WriteFile(p)
    BY <1>5 DEF StoreToKeyring, WriteFile, Return, Cached
  <1>6. CASE WithoutKeyring(p)
    BY <1>6 DEF WithoutKeyring, TruncateFile
  <1> QED
    BY <1>1, <1>2, <1>3, <1>4, <1>5, <1>6 DEF AcquireToken

(* The invariant holds at first and is kept by every step. *)
LEMMA CacheInductive == CacheSpec => []CacheInv
  <1>1. CacheInit => CacheInv
    BY DEF CacheInit, CacheInv, CacheTypeOK, InTransit, NoKeyring, CacheIsFresh, Storing, Cached
  <1>2. CacheInv /\ [CacheNext]_cacheVars => CacheInv'
    <2> SUFFICES ASSUME CacheInv, [CacheNext]_cacheVars
                 PROVE  CacheInv'
      OBVIOUS
    <2>1. CacheTypeOK'
      BY CacheTypeStep DEF CacheInv
    <2>2. CASE past' = {}
      <3>1. CASE \E p \in Process : AcquireToken(p)
        BY <2>1, <2>2, <3>1, NoFaultStep, FreshStep DEF CacheInv
      <3>2. CASE UNCHANGED cacheVars
        BY <2>1, <3>2 DEF cacheVars, CacheInv, InTransit, NoKeyring, CacheIsFresh, Storing, Cached
      <3> QED
        BY <2>2, <3>1, <3>2, NoFaultStep
    <2> QED
      BY <2>1, <2>2 DEF CacheInv
  <1> QED
    BY <1>1, <1>2, PTL DEF CacheSpec

-----------------------------------------------------------------------------
(* Without faults the cached token is accepted, or a process is about to   *)
(* store one that is: however many processes load, exchange and store      *)
(* tokens at the same time.                                                *)
THEOREM CacheStaysFresh == CacheSpec => []CachedTokenIsAccepted
  <1>1. CacheInv => CachedTokenIsAccepted
    BY DEF CacheInv, CachedTokenIsAccepted
  <1> QED
    BY <1>1, CacheInductive, PTL

(* Every variable of the processes and their caches has its type. *)
THEOREM CacheTypeCorrect == CacheSpec => []CacheTypeOK
  <1>1. CacheInv => CacheTypeOK
    BY DEF CacheInv
  <1> QED
    BY <1>1, CacheInductive, PTL

(***************************************************************************)
(* BrowserLogin.                                                           *)
(***************************************************************************)

\* The main thread has read the result.
Read == Outcomes \cup {"check", "exchange"}

\* The result is the callback answered last.
Answered == IF result = "none" THEN told = {} ELSE result \in told

\* The result is read once no connection is handled and none will be.
Stopped ==
  /\ server = "stopped" => handling = "none"
  /\ stage \in Read => server = "stopped"

\* What the main thread made of the result.
Outcome ==
  /\ stage = "timeout" => result = "none"
  /\ stage = "denied" => result = "error"
  /\ stage = "mismatch" => result = "stale"
  /\ stage \in {"exchange", "token"} => result = "code"

BrowserInv == BrowserTypeOK /\ Answered /\ Stopped /\ Outcome

LEMMA BrowserInitHolds == BrowserInit => BrowserInv
<1> SUFFICES ASSUME BrowserInit PROVE BrowserInv
  OBVIOUS
<1>1. backlog \in Seq(Connections) /\ opened \in 0 .. MaxConnections
  BY BrowserAssumption DEF BrowserInit
<1> QED
  BY <1>1 DEF BrowserInit, BrowserInv, BrowserTypeOK, Answered, Stopped, Outcome, Read, Outcomes

LEMMA BrowserStepHolds == BrowserInv /\ [BrowserNext]_browserVars => BrowserInv'
<1> SUFFICES ASSUME BrowserInv, [BrowserNext]_browserVars PROVE BrowserInv'
  OBVIOUS
<1> USE DEF BrowserInv, BrowserTypeOK, Answered, Stopped, Outcome, Read, Outcomes, Callbacks
<1>1. CASE Connect
  <2>1. backlog' \in Seq(Connections) /\ opened' \in 0 .. MaxConnections
    BY <1>1, BrowserAssumption DEF Connect
  <2> QED
    BY <1>1, <2>1 DEF Connect
<1>2. CASE Close \/ Expire
  BY <1>2 DEF Close, Expire
<1>3. CASE Accept
  <2>1. backlog' \in Seq(Connections) /\ handling' \in Connections
    BY <1>3 DEF Accept
  <2> QED
    BY <1>3, <2>1 DEF Accept
<1>4. CASE Ignore \/ HandleCallback
  BY <1>4 DEF Ignore, HandleCallback
<1>5. CASE StopServing
  BY <1>5 DEF StopServing
<1>6. CASE EndPoll \/ Interrupt \/ Shutdown
  BY <1>6 DEF EndPoll, Interrupt, Shutdown
<1>7. CASE CheckResult
  <2>1. \/ result = "none" /\ stage' = "timeout"
        \/ result = "error" /\ stage' = "denied"
        \/ result = "stale" /\ stage' = "mismatch"
        \/ result = "code" /\ stage' = "exchange"
    BY <1>7 DEF CheckResult
  <2> QED
    BY <1>7, <2>1 DEF CheckResult
<1>8. CASE ExchangeCode
  BY <1>8 DEF ExchangeCode
<1>9. CASE UNCHANGED browserVars
  BY <1>9 DEF browserVars
<1> QED
  BY <1>1, <1>2, <1>3, <1>4, <1>5, <1>6, <1>7, <1>8, <1>9 DEF BrowserNext, MainThread, ServerThread

\* The invariant: it holds at the start and every step keeps it.
LEMMA BrowserInductive == BrowserSpec => []BrowserInv
BY BrowserInitHolds, BrowserStepHolds, PTL DEF BrowserSpec

\* Every variable of a browser login has its type, for any number of connections.
THEOREM BrowserTypeCorrect == BrowserSpec => []BrowserTypeOK
BY BrowserInductive, PTL DEF BrowserInv

\* What the login ends with is what a callback said, and a login that timed out
\* has told nobody anything.
THEOREM LoginEndsAsTold == BrowserSpec => []OutcomeIsExplained
<1>1. BrowserInv => OutcomeIsExplained
  BY DEF BrowserInv, Answered, Outcome, OutcomeIsExplained
<1> QED
  BY <1>1, BrowserInductive, PTL

\* No callback is stored or answered once the main thread has read the result.
THEOREM NobodyIsToldLate == BrowserSpec => NoAnswerAfterTheResult
<1>1. BrowserInv /\ [BrowserNext]_browserVars => [(stage \in Read) => UNCHANGED <<result, told>>]_browserVars
  <2> SUFFICES ASSUME BrowserInv, BrowserNext, stage \in Read PROVE UNCHANGED <<result, told>>
    OBVIOUS
  <2>1. handling = "none"
    BY DEF BrowserInv, Stopped
  <2> QED
    BY <2>1 DEF BrowserNext, MainThread, ServerThread, Connect, Close, Expire, Accept, Ignore, HandleCallback,
                StopServing, EndPoll, Interrupt, Shutdown, CheckResult, ExchangeCode, Callbacks
<1> QED
  BY <1>1, BrowserInductive, PTL DEF BrowserSpec, NoAnswerAfterTheResult, Read
=============================================================================
