----------------------------- MODULE LoginTimer -----------------------------
(***************************************************************************)
(* The OAuth logins of credentials.py that keep their token fresh: login() *)
(* exchanges the credentials for a token and, whether the exchange         *)
(* succeeded or not, replaces self.login_timer by a new threading.Timer    *)
(* that runs login() again after REFRESH_TOKEN_EXPIRATION_PERIOD.  The main *)
(* thread logs in, works, and cancels the timer in the `finally` of        *)
(* main_impl (tap_salesforce/__init__.py).  Both threads read and write    *)
(* self.login_timer without a lock.  The three OAuth classes share this    *)
(* body; the password login has no timer and is left out.                  *)
(***************************************************************************)
EXTENDS Naturals

CONSTANTS
    Period,       \* REFRESH_TOKEN_EXPIRATION_PERIOD, in ticks
    LoginTime,    \* the longest token exchange, in ticks (a bound)
    JobTime,      \* the longest job, in ticks (a bound)
    MaxFailures,  \* failed exchanges in a row (a bound)
    LateThreads   \* the interpreter starts threads while it shuts down

ASSUME TimerAssumption ==
    /\ Period \in Nat \ {0}
    /\ LoginTime \in Nat
    /\ JobTime \in Nat
    /\ MaxFailures \in Nat
    /\ LateThreads \in BOOLEAN

VARIABLES
    main,       \* where the main thread is
    login,      \* the step of the login() in progress, whoever runs it
    timer,      \* the Timer that self.login_timer refers to
    cancelled,  \* that Timer's event is set
    held,       \* the main thread's loaded reference is still that Timer
    left,       \* ticks until that Timer fires
    took,       \* ticks the exchange in progress has taken
    age,        \* ticks since self._access_token was received
    failures,   \* failed exchanges since then
    worked      \* ticks the job has run

threadVars == <<main, login, timer, cancelled, held>>
clockVars == <<left, took, age, failures, worked>>
timerVars == <<main, login, timer, cancelled, held, left, took, age, failures, worked>>

\* The age above which the model stops counting: one refresh too late.
MaxAge == (MaxFailures + 1) * (Period + LoginTime) + 1

TimerInit ==
    /\ main = "login" /\ login = "exchange"
    /\ timer = "none" /\ cancelled = FALSE /\ held = FALSE
    /\ left = 0 /\ took = 0 /\ age = 0 /\ failures = 0 /\ worked = 0

-----------------------------------------------------------------------------
(* login(), run by the main thread once and by each Timer's thread after. *)

\* Mutant of ExchangeSucceeds: the refreshed token is not stored.
TokenNotStored ==
    /\ login = "exchange"
    /\ login' = "create"
    /\ failures' = 0
    /\ UNCHANGED <<main, timer, cancelled, held, left, took, age, worked>>

\* The answer of the token endpoint: a token, or an exception that the
\* `finally` of login() lets through only after it has armed the next timer.
ExchangeSucceeds ==
    /\ login = "exchange"
    /\ login' = "create"
    /\ age' = 0 /\ failures' = 0
    /\ UNCHANGED <<main, timer, cancelled, held, left, took, worked>>

\* Mutant of ExchangeFails: no `finally`, the exception arms no timer.
FailureEndsTheRefresh ==
    /\ login = "exchange" /\ failures < MaxFailures
    /\ login' = "idle"
    /\ failures' = failures + 1
    /\ main' = IF main = "login" THEN "finally" ELSE main
    /\ UNCHANGED <<timer, cancelled, held, left, took, age, worked>>

ExchangeFails ==
    /\ login = "exchange" /\ failures < MaxFailures
    /\ login' = "create"
    /\ failures' = failures + 1
    /\ main' = IF main = "login" THEN "refused" ELSE main
    /\ UNCHANGED <<timer, cancelled, held, left, took, age, worked>>

CreateTimer ==
    /\ login = "create"
    /\ login' = "start"
    /\ timer' = "created" /\ cancelled' = FALSE /\ held' = FALSE
    /\ UNCHANGED <<main, clockVars>>

\* Mutant of StartTimer: the timer waits for two periods.
StartSlowTimer ==
    /\ login = "start"
    /\ login' = "idle"
    /\ timer' = IF cancelled \/ (main = "exit" /\ ~LateThreads) THEN "over" ELSE "armed"
    /\ left' = 2 * Period
    /\ main' = CASE main = "login" -> "work"
                 [] main = "refused" -> "finally"
                 [] OTHER -> main
    /\ UNCHANGED <<cancelled, held, took, age, failures, worked>>

\* A Timer cancelled before it starts ends at once.  Once the interpreter is
\* shutting down it may refuse the new thread: start() then raises.
StartTimer ==
    /\ login = "start"
    /\ login' = "idle"
    /\ timer' = IF cancelled \/ (main = "exit" /\ ~LateThreads) THEN "over" ELSE "armed"
    /\ left' = Period
    /\ main' = CASE main = "login" -> "work"
                 [] main = "refused" -> "finally"
                 [] OTHER -> main
    /\ UNCHANGED <<cancelled, held, took, age, failures, worked>>

\* The Timer's thread wakes up, finds its event unset and calls login().
TimerFires ==
    /\ timer = "armed" /\ ~cancelled /\ left = 0
    /\ timer' = "fired" /\ login' = "exchange" /\ took' = 0
    /\ UNCHANGED <<main, cancelled, held, left, age, failures, worked>>

-----------------------------------------------------------------------------
(* The main thread. *)

FinishJob ==
    /\ main = "work"
    /\ main' = "finally"
    /\ UNCHANGED <<login, timer, cancelled, held, clockVars>>

\* sf.auth.login_timer is loaded ...
LoadTimer ==
    /\ main = "finally"
    /\ main' = "cancel" /\ held' = TRUE
    /\ UNCHANGED <<login, timer, cancelled, clockVars>>

\* Mutant of CancelTimer: the main thread joins the timer's thread.
JoinTimer ==
    /\ main = "cancel" /\ timer = "over"
    /\ main' = "exit"
    /\ UNCHANGED <<login, timer, cancelled, held, clockVars>>

\* ... and cancelled, though login() may have replaced it in between, and
\* though cancel() does nothing to a Timer whose function already runs.
CancelTimer ==
    /\ main = "cancel"
    /\ main' = "exit"
    /\ cancelled' = (cancelled \/ held)
    /\ UNCHANGED <<login, timer, held, clockVars>>

\* The interpreter joins every thread that is not a daemon before it ends.
Exit ==
    /\ main = "exit"
    /\ login = "idle" /\ (timer = "armed" => cancelled)
    /\ main' = "gone"
    /\ UNCHANGED <<login, timer, cancelled, held, clockVars>>

\* Time passes.  A timer fires when it is due, an exchange ends within
\* LoginTime, a job within JobTime; arming a timer takes no time.
Tick ==
    /\ login \in {"idle", "exchange"} /\ main # "gone"
    /\ login = "exchange" => took < LoginTime
    /\ (timer = "armed" /\ ~cancelled) => left > 0
    /\ main = "work" => worked < JobTime
    /\ left' = IF timer = "armed" /\ left > 0 THEN left - 1 ELSE left
    /\ took' = IF login = "exchange" THEN took + 1 ELSE took
    /\ age' = IF age < MaxAge /\ main # "login" THEN age + 1 ELSE age
    /\ worked' = IF main = "work" THEN worked + 1 ELSE worked
    /\ UNCHANGED <<failures, threadVars>>

Login == ExchangeSucceeds \/ ExchangeFails \/ CreateTimer \/ StartTimer
Main == FinishJob \/ LoadTimer \/ CancelTimer \/ Exit

\* The process has ended.
Ended == main = "gone" /\ UNCHANGED timerVars

TimerNext == Login \/ TimerFires \/ Main \/ Tick \/ Ended

\* The operating system runs every thread that can run, and time passes.
TimerFairness ==
  /\ WF_timerVars(Login) /\ WF_timerVars(TimerFires)
  /\ WF_timerVars(Main) /\ WF_timerVars(Tick)

TimerSpec == TimerInit /\ [][TimerNext]_timerVars /\ TimerFairness

-----------------------------------------------------------------------------
TimerTypeOK ==
    /\ main \in {"login", "refused", "work", "finally", "cancel", "exit", "gone"}
    /\ login \in {"idle", "exchange", "create", "start"}
    /\ timer \in {"none", "created", "armed", "fired", "over"}
    /\ cancelled \in BOOLEAN /\ held \in BOOLEAN
    /\ left \in 0..Period /\ took \in 0..LoginTime /\ age \in 0..MaxAge
    /\ failures \in 0..MaxFailures /\ worked \in 0..JobTime

(* While the job works there is always a login in progress or a live timer *)
(* that will start one: no failure of a login, and no order of the steps   *)
(* that replace self.login_timer, stops the refreshing (the `finally` of   *)
(* login(), credentials.py).                                               *)
RefreshKeepsGoing ==
    main = "work" => login # "idle" \/ (timer = "armed" /\ ~cancelled)

(* The token that new requests carry was received at most one period and   *)
(* one exchange ago, plus as much again for each exchange that failed      *)
(* since (credentials.py: the timer is re-armed after the exchange, not    *)
(* when it starts, so the bound is not the period alone).                  *)
TokenStaysFresh ==
    main = "work" => age <= (failures + 1) * (Period + LoginTime)

(* After its work the process ends: the cancel in main_impl leaves no      *)
(* timer that keeps the interpreter alive (CHANGELOG.md:169, "Don't run    *)
(* indefinitely when using OAuth and job runs for more than 15 minutes").  *)
ProcessExits == main = "finally" ~> main = "gone"
=============================================================================
