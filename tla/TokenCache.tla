----------------------------- MODULE TokenCache -----------------------------
(***************************************************************************)
(* The browser login's refresh token: acquire_token of browser_auth.py and *)
(* the two places token_cache.py keeps the token in, the OS keychain and a *)
(* file.  Several processes of one user share both; nothing is locked.     *)
(* Salesforce (external) may rotate the token at each use: the one that    *)
(* was used is then rejected from that moment on.                          *)
(***************************************************************************)
CONSTANTS
    Process,      \* the user's processes that log in, again and again
    Token,        \* names of refresh tokens: one no one refers to is reused
    None,         \* no token
    Faults        \* the faults of a behaviour, none twice (a bound)

ASSUME CacheAssumption == None \notin Token

VARIABLES
    hasKeyring,  \* the keyring package is installed: it never changes
    valid,       \* refresh tokens Salesforce accepts (external)
    keyring,     \* the token in the OS keychain, None if it has none
    file,        \* the token in the cache file, None if it has no readable one
    pc,          \* pc[p]: where process p is in acquire_token
    token,       \* token[p]: the token p loaded, or is about to store
    past         \* the faults that happened

cacheVars == <<hasKeyring, valid, keyring, file, pc, token, past>>

CacheInit ==
    /\ hasKeyring \in BOOLEAN
    /\ keyring = None
    /\ file \in Token \cup {None}
    /\ valid = {file} \ {None}
    /\ pc = [p \in Process |-> "idle"]
    /\ token = [p \in Process |-> None]
    /\ past = {}

\* load_refresh_token: the keychain first, then the file.
Cached == IF keyring # None THEN keyring ELSE file

\* A token that no process and no cache refers to.
NewTokens == Token \ ({keyring, file} \cup {token[p] : p \in Process})

Happens(fault) == fault \in Faults \ past /\ past' = past \cup {fault}

-----------------------------------------------------------------------------
(* acquire_token, run by process p. *)

Start(p, t) ==
    /\ pc[p] = "idle"
    /\ token' = [token EXCEPT ![p] = t]
    /\ pc' = [pc EXCEPT ![p] = IF t = None THEN "browser" ELSE "exchange"]
    /\ UNCHANGED <<valid, keyring, file>>

LoadRefreshToken(p) == Start(p, Cached) /\ UNCHANGED past

\* The keychain's backend raises: the file is looked up instead.
KeyringLookupFails(p) == hasKeyring /\ Happens("lookup") /\ Start(p, file)

\* Mutant of Rotate: acquire_token does not store the rotated token.
RotateInMemory(p) ==
    /\ pc[p] = "exchange" /\ token[p] \in valid
    /\ \E t \in NewTokens : valid' = (valid \ {token[p]}) \cup {t}
    /\ pc' = [pc EXCEPT ![p] = "idle"]
    /\ token' = [token EXCEPT ![p] = None]
    /\ UNCHANGED <<keyring, file, past>>

\* _exchange_refresh_token: the answer carries a new refresh token ...
Rotate(p) ==
    /\ pc[p] = "exchange" /\ token[p] \in valid
    /\ \E t \in NewTokens :
         /\ valid' = (valid \ {token[p]}) \cup {t}
         /\ token' = [token EXCEPT ![p] = t]
    /\ pc' = [pc EXCEPT ![p] = "store"]
    /\ UNCHANGED <<keyring, file, past>>

Return(p) ==
    /\ pc' = [pc EXCEPT ![p] = "idle"]
    /\ token' = [token EXCEPT ![p] = None]

\* ... or none, and the cache is left as it is.
Reuse(p) ==
    /\ pc[p] = "exchange" /\ token[p] \in valid
    /\ Return(p)
    /\ UNCHANGED <<valid, keyring, file, past>>

\* Mutant of Reject: the rejection ends the login.
RejectWithoutBrowser(p) ==
    /\ pc[p] = "exchange" /\ token[p] \notin valid
    /\ Return(p)
    /\ UNCHANGED <<valid, keyring, file, past>>

\* An HTTPError: the browser flow is the fallback.
Reject(p) ==
    /\ pc[p] = "exchange" /\ token[p] \notin valid
    /\ pc' = [pc EXCEPT ![p] = "browser"]
    /\ token' = [token EXCEPT ![p] = None]
    /\ UNCHANGED <<valid, keyring, file, past>>

\* The user completes the login in the browser: a token of its own.
RunBrowserFlow(p) ==
    /\ pc[p] = "browser"
    /\ \E t \in NewTokens :
         /\ valid' = valid \cup {t}
         /\ token' = [token EXCEPT ![p] = t]
    /\ pc' = [pc EXCEPT ![p] = "store"]
    /\ UNCHANGED <<keyring, file, past>>

\* store_refresh_token: in the keychain, and then not in the file ...
StoreToKeyring(p) ==
    /\ hasKeyring /\ pc[p] = "store"
    /\ keyring' = token[p]
    /\ Return(p)
    /\ UNCHANGED <<valid, file, past>>

\* ... or in the file, which is emptied before it is written.
TruncateFile(p) ==
    /\ pc[p] = "store"
    /\ file' = None
    /\ pc' = [pc EXCEPT ![p] = "write"]
    /\ UNCHANGED <<valid, keyring, token>>

WithoutKeyring(p) == ~hasKeyring /\ TruncateFile(p) /\ UNCHANGED past
KeyringStoreFails(p) == hasKeyring /\ Happens("store") /\ TruncateFile(p)

\* Mutant of WriteFile: the answer is written in place of its refresh token.
WriteAnswer(p) ==
    /\ pc[p] = "write"
    /\ file' = [refresh_token |-> token[p]]
    /\ Return(p)
    /\ UNCHANGED <<valid, keyring, past>>

WriteFile(p) ==
    /\ pc[p] = "write"
    /\ file' = token[p]
    /\ Return(p)
    /\ UNCHANGED <<valid, keyring, past>>

\* The process ends, or the user does not complete the login in time.
Crash(p) ==
    /\ pc[p] # "idle"
    /\ Happens("crash")
    /\ Return(p)
    /\ UNCHANGED <<valid, keyring, file>>

\* Salesforce rotates the token and the answer is lost: an exception that is
\* not an HTTPError ends the login.
LoseAnswer(p) ==
    /\ pc[p] = "exchange" /\ token[p] \in valid
    /\ Happens("lost answer")
    /\ valid' = valid \ {token[p]}
    /\ Return(p)
    /\ UNCHANGED <<keyring, file>>

AcquireToken(p) ==
    \/ LoadRefreshToken(p) \/ Rotate(p) \/ Reuse(p) \/ Reject(p)
    \/ RunBrowserFlow(p) \/ StoreToKeyring(p) \/ WithoutKeyring(p) \/ WriteFile(p)

Fault(p) ==
    KeyringLookupFails(p) \/ KeyringStoreFails(p) \/ Crash(p) \/ LoseAnswer(p)

CacheNext == (\E p \in Process : AcquireToken(p) \/ Fault(p)) /\ UNCHANGED hasKeyring

CacheSpec == CacheInit /\ [][CacheNext]_cacheVars

\* Each process logs in every period and its user completes the browser's
\* login; faults are not required.
CacheFairSpec ==
  /\ CacheSpec
  /\ \A p \in Process : WF_cacheVars(AcquireToken(p) /\ UNCHANGED hasKeyring)

-----------------------------------------------------------------------------
(* Every variable has its type. *)
CacheTypeOK ==
    /\ hasKeyring \in BOOLEAN
    /\ valid \subseteq Token
    /\ keyring \in Token \cup {None} /\ file \in Token \cup {None}
    /\ pc \in [Process -> {"idle", "exchange", "browser", "store", "write"}]
    /\ token \in [Process -> Token \cup {None}]
    /\ past \subseteq Faults

Storing(p) == pc[p] \in {"store", "write"}

\* The cached token is accepted, or a process is about to replace it.
CacheIsFresh == Cached \in valid \cup {None} \/ \E p \in Process : Storing(p)

(* Without faults, no order of the loads, exchanges and stores of several  *)
(* processes leaves a token in the cache that Salesforce rejects           *)
(* (browser_auth.py: the rotated token is stored, and so is the browser's; *)
(* each process writes a token that no other has used).                    *)
CachedTokenIsAccepted == past = {} => CacheIsFresh

(* After the last fault the cache comes to hold an accepted token again:   *)
(* the browser flow replaces one that went stale.                          *)
CacheRecovers == <>[]CacheIsFresh
=============================================================================
