---------------------------- MODULE BrowserLogin ----------------------------
(***************************************************************************)
(* _run_browser_flow of salesforce/browser_auth.py: the main thread polls  *)
(* for the result of the OAuth callback while a second thread serves the   *)
(* browser's connections one at a time, then stops that thread and         *)
(* exchanges the code it got.                                              *)
(*                                                                         *)
(* A connection of a browser (external) is one of: "code" or "error", the  *)
(* callback of this login; "stale", the callback of an earlier login, with *)
(* another state; "page", anything without code or error; "idle", one that *)
(* is opened in advance and on which nothing is sent for a while.          *)
(***************************************************************************)
EXTENDS Naturals, Sequences

CONSTANT MaxConnections   \* bound: connections in a behaviour

ASSUME BrowserAssumption == MaxConnections \in Nat

VARIABLES
  stage,     \* main: "poll", "shutdown", "check", "exchange", then the outcome
  result,    \* server.oauth_result: "none" or the callback handled last
  expired,   \* TRUE when time.time() has reached the deadline
  server,    \* "serving" or "stopped"
  handling,  \* the connection the server thread handles, or "none"
  backlog,   \* connections not yet accepted
  opened,    \* connections so far
  told       \* callbacks answered with a page that says how the login went

browserVars == <<stage, result, expired, server, handling, backlog, opened, told>>

Callbacks == {"code", "error", "stale"}
Connections == Callbacks \cup {"page", "idle"}
Outcomes == {"token", "timeout", "denied", "mismatch", "failed"}

BrowserInit ==
  /\ stage = "poll"
  /\ result = "none"
  /\ expired = FALSE
  /\ server = "serving" /\ handling = "none" /\ backlog = <<>>
  /\ opened = 0
  /\ told = {}

-----------------------------------------------------------------------------
(* The browser and the clock. *)

Connect ==
  /\ opened < MaxConnections
  /\ opened' = opened + 1
  /\ \E c \in Connections : backlog' = Append(backlog, c)
  /\ UNCHANGED <<stage, result, expired, server, handling, told>>

\* An idle connection is closed by the browser in the end.
Close ==
  /\ handling = "idle"
  /\ handling' = "none"
  /\ UNCHANGED <<stage, result, expired, server, backlog, opened, told>>

Expire ==
  /\ expired' = TRUE
  /\ UNCHANGED <<stage, result, server, handling, backlog, opened, told>>

-----------------------------------------------------------------------------
(* The server thread: serve_forever and do_GET. *)

Accept ==
  /\ server = "serving" /\ stage = "poll"
  /\ handling = "none" /\ backlog # <<>>
  /\ handling' = Head(backlog)
  /\ backlog' = Tail(backlog)
  /\ UNCHANGED <<stage, result, expired, server, opened, told>>

\* Mutant of Ignore: a request without code or error is taken for the callback.
TakePage ==
  /\ handling = "page"
  /\ result' = handling
  /\ handling' = "none"
  /\ UNCHANGED <<stage, expired, server, backlog, opened, told>>

\* 404 for anything that is not the callback.
Ignore ==
  /\ handling = "page"
  /\ handling' = "none"
  /\ UNCHANGED <<stage, result, expired, server, backlog, opened, told>>

\* The result is stored, then the page that says so is written.
HandleCallback ==
  /\ handling \in Callbacks
  /\ result' = handling
  /\ told' = told \cup {handling}
  /\ handling' = "none"
  /\ UNCHANGED <<stage, expired, server, backlog, opened>>

\* serve_forever sees the request to shut down between two connections.
StopServing ==
  /\ server = "serving" /\ stage \in {"shutdown", "abort"}
  /\ handling = "none"
  /\ server' = "stopped"
  /\ UNCHANGED <<stage, result, expired, handling, backlog, opened, told>>

-----------------------------------------------------------------------------
(* The main thread. *)

\* Mutant of EndPoll: only a callback ends the wait.
WaitForCallback ==
  /\ stage = "poll"
  /\ result # "none"
  /\ stage' = "shutdown"
  /\ UNCHANGED <<result, expired, server, handling, backlog, opened, told>>

\* There is a result, or the deadline has passed: server.shutdown() is called.
EndPoll ==
  /\ stage = "poll"
  /\ result # "none" \/ expired
  /\ stage' = "shutdown"
  /\ UNCHANGED <<result, expired, server, handling, backlog, opened, told>>

\* An exception while waiting (Ctrl-C): the server is shut down all the same.
Interrupt ==
  /\ stage = "poll"
  /\ stage' = "abort"
  /\ UNCHANGED <<result, expired, server, handling, backlog, opened, told>>

\* Mutant of Shutdown: it does not wait for the connection being handled.
ShutdownAtOnce ==
  /\ stage \in {"shutdown", "abort"}
  /\ stage' = IF stage = "abort" THEN "failed" ELSE "check"
  /\ UNCHANGED <<result, expired, server, handling, backlog, opened, told>>

\* shutdown() returns when serve_forever has; the join then has nothing to wait for.
Shutdown ==
  /\ stage \in {"shutdown", "abort"}
  /\ server = "stopped"
  /\ stage' = IF stage = "abort" THEN "failed" ELSE "check"
  /\ UNCHANGED <<result, expired, server, handling, backlog, opened, told>>

\* Mutant of CheckResult: the state parameter is not compared.
CheckErrorOnly ==
  /\ stage = "check"
  /\ stage' = CASE result = "none" -> "timeout" [] result = "error" -> "denied"
             [] OTHER -> "exchange"
  /\ UNCHANGED <<result, expired, server, handling, backlog, opened, told>>

\* The result is read once, after the server has stopped.
CheckResult ==
  /\ stage = "check"
  /\ stage' = CASE result = "none"  -> "timeout"
             [] result = "error" -> "denied"
             [] result = "stale" -> "mismatch"
             [] result = "code"  -> "exchange"
  /\ UNCHANGED <<result, expired, server, handling, backlog, opened, told>>

\* The token endpoint accepts the code and the verifier of this login, or not.
ExchangeCode ==
  /\ stage = "exchange"
  /\ stage' \in {"token", "failed"}
  /\ UNCHANGED <<result, expired, server, handling, backlog, opened, told>>

-----------------------------------------------------------------------------
MainThread == EndPoll \/ Interrupt \/ Shutdown \/ CheckResult \/ ExchangeCode
ServerThread == Accept \/ Ignore \/ HandleCallback \/ StopServing

BrowserNext == MainThread \/ ServerThread \/ Connect \/ Close \/ Expire

BrowserSpec == BrowserInit /\ [][BrowserNext]_browserVars

\* The threads and the clock go on, and an idle connection is closed some day;
\* nobody has to log in.
BrowserFairSpec ==
  /\ BrowserSpec
  /\ WF_browserVars(EndPoll \/ Shutdown \/ CheckResult \/ ExchangeCode)
  /\ WF_browserVars(ServerThread) /\ WF_browserVars(Close) /\ WF_browserVars(Expire)

-----------------------------------------------------------------------------
(* Every variable has its type. *)
BrowserTypeOK ==
  /\ stage \in Outcomes \cup {"poll", "shutdown", "abort", "check", "exchange"}
  /\ result \in Callbacks \cup {"none"}
  /\ expired \in BOOLEAN
  /\ server \in {"serving", "stopped"}
  /\ handling \in Connections \cup {"none"}
  /\ backlog \in Seq(Connections) /\ opened \in 0 .. MaxConnections
  /\ told \subseteq Callbacks

(* What the login ends with is what a callback said, and a callback whose     *)
(* page was shown is never lost: not to a follow-up request of the browser,   *)
(* nor to the deadline passing while it was handled.                          *)
OutcomeIsExplained ==
  /\ stage = "timeout" => told = {}
  /\ stage = "denied" => "error" \in told
  /\ stage = "mismatch" => "stale" \in told
  /\ stage \in {"exchange", "token"} => result = "code"

(* No callback is answered once the main thread has read the result: whoever  *)
(* saw "Login successful" had a say in it.                                    *)
NoAnswerAfterTheResult ==
  [][(stage \in Outcomes \cup {"check", "exchange"}) => UNCHANGED <<result, told>>]_browserVars

(* The login ends, by its deadline if nothing else.                           *)
LoginEnds == <>(stage \in Outcomes)
=============================================================================
