------------------------------ MODULE RestSync ------------------------------
(***************************************************************************)
(* A stream synced with the REST API: salesforce/rest.py.  The query is    *)
(* run over a window of the replication key; when Salesforce answers       *)
(* QUERY_TIMEOUT the window is halved and read again, and once a halved    *)
(* window is exhausted a query from its end to now follows.                *)
(***************************************************************************)
EXTENDS StreamSync

CONSTANTS
  Day,          \* one day, in ticks of the clock
  MaxRetries    \* MAX_RETRIES

ASSUME RestAssumption ==
  /\ Day \in Nat \ {0}
  /\ MaxRetries \in Nat \ {0}

VARIABLES
  from,       \* start_date of the query string
  upto,       \* end_date of the query string, NoEnd when it has none
  syncStart,  \* sync_start of _query_recur
  retries     \* retries of _query_recur

windowVars == <<from, upto, syncStart, retries>>
vars == <<syncVars, windowVars>>

RestInit ==
  /\ SyncInit
  /\ from = 0
  /\ upto = NoEnd
  /\ syncStart = 0
  /\ retries = 0

\* end_date of _query_recur: the one passed in, or now.
EndDate == IF upto = NoEnd THEN syncStart ELSE upto

\* Rest.query: from the bookmark, without an end.
RestQuery ==
  /\ pc = "query"
  /\ from' = GetStartDate(mem)
  /\ upto' = NoEnd
  /\ retries' = MaxRetries
  /\ pc' = "window"
  /\ UNCHANGED <<mem, persisted, target, process, startTime, version, todo, cur,
                 lastVersion, faults, syncStart>>

\* The first request of a window; its cursor pages over what it matched.
OpenWindow ==
  /\ pc = "window"
  /\ syncStart' = clock
  /\ todo' = Snapshot(from, upto)
  /\ pc' = "rows"
  /\ UNCHANGED <<mem, persisted, target, process, startTime, version, cur,
                 lastVersion, faults, from, upto, retries>>

EmitNextRecord == (\E row \in todo : IsNext(row) /\ EmitRecord(row)) /\ UNCHANGED windowVars

HalfRange == (EndDate - from) \div 2

\* A page of the window times out: half of it is read again from its start.
HalveWindow ==
  /\ pc = "rows"
  /\ faults < MaxFaults
  /\ HalfRange >= Day
  /\ retries > 1
  /\ upto' = EndDate - HalfRange
  /\ retries' = retries - 1
  /\ todo' = {}
  /\ pc' = "window"
  /\ faults' = faults + 1
  /\ UNCHANGED <<mem, persisted, target, process, startTime, version, cur,
                 lastVersion, from, syncStart>>

\* The half would be shorter than a day, or the retries are used up.
GiveUp ==
  /\ pc = "rows"
  /\ faults < MaxFaults
  /\ HalfRange < Day \/ retries <= 1
  /\ faults' = faults + 1
  /\ Fail
  /\ UNCHANGED windowVars

\* Mutant of NextWindow: a window that ended now has a next one too.
NextWindowForEver ==
  /\ pc = "rows"
  /\ todo = {}
  /\ EndDate <= syncStart
  /\ from' = EndDate
  /\ upto' = NoEnd
  /\ pc' = "window"
  /\ UNCHANGED <<mem, persisted, target, process, startTime, version, todo, cur,
                 lastVersion, faults, syncStart, retries>>

\* The window ended before now: the rest follows, with the retries left.
NextWindow ==
  /\ pc = "rows"
  /\ todo = {}
  /\ EndDate < syncStart
  /\ from' = EndDate
  /\ upto' = NoEnd
  /\ pc' = "window"
  /\ UNCHANGED <<mem, persisted, target, process, startTime, version, todo, cur,
                 lastVersion, faults, syncStart, retries>>

QueryExhausted ==
  /\ pc = "rows"
  /\ todo = {}
  /\ EndDate >= syncStart
  /\ pc' = "synced"
  /\ UNCHANGED <<mem, persisted, target, process, startTime, version, todo, cur,
                 lastVersion, faults>>
  /\ UNCHANGED windowVars

Reading ==
  \/ RestQuery \/ OpenWindow \/ EmitNextRecord \/ NextWindow \/ QueryExhausted
  \/ WriteBookmark /\ UNCHANGED windowVars

RestNext ==
  \/ StreamNext /\ UNCHANGED windowVars
  \/ (Reading \/ HalveWindow \/ GiveUp) /\ UNCHANGED orgVars

Spec == RestInit /\ [][RestNext]_vars

\* The threads run, committed saves become visible, time passes, and the
\* tap is started again and again; failures and timeouts are not required.
Fairness ==
  /\ WF_vars(StreamProgress /\ UNCHANGED windowVars)
  /\ WF_vars(Reading /\ UNCHANGED orgVars)
  /\ WF_vars(OrgProgress /\ UNCHANGED windowVars)

FairSpec == Spec /\ Fairness

-----------------------------------------------------------------------------
(* Every variable has its type. *)
TypeOK ==
  /\ SyncTypeOK
  /\ mem \in StateEntry({None}, {None})
  /\ persisted \in StateEntry({None}, {None})
  /\ from \in Instant \cup {Earliest}
  /\ upto \in 0 .. NoEnd
  /\ syncStart \in Instant
  /\ retries \in 0 .. MaxRetries
=============================================================================
