------------------------------ MODULE KISClient ------------------------------
(***************************************************************************)
(* auth.KIClient: commands of the system call the KIS REST API with a      *)
(* bearer token that is kept in memory (AuthToken) and in a token file.    *)
(*                                                                         *)
(* A command first ensures it has a token (EnsureAuthToken), then several  *)
(* of its goroutines make calls (doWithRetry) on the one client they       *)
(* share.  AuthToken has no lock.  A call is retried, and refreshes the    *)
(* token once when KIS answers that it has expired.  The token file is     *)
(* replaced as AtomicWrite says, by all goroutines of all commands.        *)
(***************************************************************************)
EXTENDS Naturals

CONSTANTS
    Commands,     \* running commands; also the goroutine that ensures the token
    Calls,        \* goroutines that make calls
    CommandOf,    \* the command each goroutine belongs to
    MaxAttempts,  \* RetryPolicy.MaxAttempts
    MaxTokens,    \* bound: tokens KIS ever grants
    Length,       \* length of the file that keeps each token, its expiry and the time
    Absent, Nobody

Tokens == 1..MaxTokens
Threads == Commands \cup Calls

ASSUME ThreadsAssumption == Commands \cap Calls = {}
ASSUME CommandOfAssumption ==
    /\ CommandOf \in [Threads -> Commands]
    /\ \A p \in Commands : CommandOf[p] = p
ASSUME MaxAttemptsAssumption == MaxAttempts \in Nat \ {0}
ASSUME MaxTokensAssumption == MaxTokens \in Nat
ASSUME LengthAssumption == Length \in [Tokens -> Nat \ {0}]
ASSUME SentinelsAssumption ==
    Nobody \notin Tokens /\ Absent \notin [last : Tokens \cup {Nobody}, size : Nat]

VARIABLES
    issued,     \* KIS: tokens granted so far, numbered in that order
    expired,    \* KIS: the tokens it no longer accepts
    token,      \* AuthToken of each command's client, 0 when empty
    pc,         \* where each goroutine is
    attempt,    \* retryAttempt of its call
    refreshed,  \* the call has used its refresh (~allowRefresh)
    bearer,     \* the token its last request carries
    got,        \* the token it was granted
    sends,      \* history: requests the call has sent
    old,        \* history: tokens granted before the command became busy
    mixed       \* history: another save overlapped the one that put the file there
VARIABLES tmp, target, fd, save, value, broken, overlap, refused   \* see AtomicWrite

callVars == <<attempt, refreshed, bearer, sends>>
fileVars == <<tmp, target, fd, save, value, broken, overlap, refused>>
vars == <<issued, expired, token, pc, callVars, got, old, mixed, fileVars>>

File == INSTANCE AtomicWrite
            WITH Writers <- Threads, Values <- Tokens, Remover <- {},
                 Size <- Length, pc <- save

Ended == {"idle", "done", "failed"}
Waiting == {"start", "sent", "backoff", "request"}   \* each ends when ctx does
States == Ended \cup Waiting \cup {"granted", "saving"}

TypeOK ==
    /\ issued \in 0..MaxTokens
    /\ expired \subseteq Tokens
    /\ token \in [Commands -> 0..issued]
    /\ pc \in [Threads -> States]
    /\ attempt \in [Calls -> 0..(MaxAttempts - 1)]
    /\ refreshed \in [Calls -> BOOLEAN]
    /\ bearer \in [Calls -> 0..issued]
    /\ got \in [Threads -> 0..issued]
    /\ sends \in [Calls -> Nat]
    /\ old \in [Commands -> 0..issued]
    /\ mixed \in BOOLEAN

Init ==
    /\ issued = 0
    /\ expired = {}
    /\ token = [p \in Commands |-> 0]
    /\ pc = [g \in Threads |-> "idle"]
    /\ attempt = [c \in Calls |-> 0]
    /\ refreshed = [c \in Calls |-> FALSE]
    /\ bearer = [c \in Calls |-> 0]
    /\ got = [g \in Threads |-> 0]
    /\ sends = [c \in Calls |-> 0]
    /\ old = [p \in Commands |-> 0]
    /\ mixed = FALSE
    /\ File!Init

Goto(g, s) == pc' = [pc EXCEPT ![g] = s]
Goroutines(p) == {g \in Threads : CommandOf[g] = p}
Quiet(p) == \A g \in Goroutines(p) : pc[g] \in Ended

-----------------------------------------------------------------------------
(* KIS.                                                                    *)

\* A token lives for a day and a command for minutes: while a command is busy,
\* no token granted since it became busy expires.
Expire(t) ==
    /\ t <= issued
    /\ t \notin expired
    /\ \A p \in Commands : Quiet(p) \/ t <= old[p]
    /\ expired' = expired \cup {t}
    /\ UNCHANGED <<issued, token, pc, callVars, got, old, mixed, fileVars>>

-----------------------------------------------------------------------------
(* EnsureAuthToken, by the command before its goroutines start.            *)

\* The file can be read and its token IsValid; the minute by which IsValid is
\* ahead of KIS is left out.
FileValid ==
    IF target = Absent THEN FALSE ELSE File!Complete(target) /\ target.last \notin expired

EnsureFromFile(p) ==
    /\ Quiet(p)
    /\ FileValid
    /\ token' = [token EXCEPT ![p] = target.last]
    /\ Goto(p, "done")
    /\ UNCHANGED <<issued, expired, callVars, got, old, mixed, fileVars>>

\* No file, one that cannot be read, or a token that is no longer valid.
EnsureByRefresh(p) ==
    /\ Quiet(p)
    /\ ~FileValid
    /\ Goto(p, "request")
    /\ old' = [old EXCEPT ![p] = issued]
    /\ UNCHANGED <<issued, expired, token, callVars, got, mixed, fileVars>>

-----------------------------------------------------------------------------
(* RefreshAuthToken.                                                       *)

Grant(g) ==
    /\ pc[g] = "request"
    /\ issued < MaxTokens
    /\ issued' = issued + 1
    /\ got' = [got EXCEPT ![g] = issued + 1]
    /\ Goto(g, "granted")
    /\ UNCHANGED <<expired, token, callVars, old, mixed, fileVars>>

RequestFails(g) ==
    /\ pc[g] = "request"
    /\ Goto(g, "failed")
    /\ UNCHANGED <<issued, expired, token, callVars, got, old, mixed, fileVars>>

\* (mutant) The token is saved and not set.
SetNothing(g) ==
    /\ pc[g] = "granted"
    /\ Goto(g, "saving")
    /\ UNCHANGED <<issued, expired, token, callVars, got, old, mixed, fileVars>>

SetAuthToken(g) ==
    /\ pc[g] = "granted"
    /\ token' = [token EXCEPT ![CommandOf[g]] = got[g]]
    /\ Goto(g, "saving")
    /\ UNCHANGED <<issued, expired, callVars, got, old, mixed, fileVars>>

SaveStep(g) ==
    /\ pc[g] = "saving"
    /\ (save[g] \in File!Rest /\ File!Open(g, got[g])) \/ File!Write(g)
    /\ UNCHANGED <<issued, expired, token, pc, callVars, got, old, mixed>>

\* The token is saved: the call is made again with allowRefresh = false and the
\* same retryAttempt, and EnsureAuthToken returns.
Saved(g) ==
    /\ pc[g] = "saving"
    /\ File!Rename(g)
    /\ Goto(g, IF g \in Calls THEN "start" ELSE "done")
    /\ refreshed' = [c \in Calls |-> c = g \/ refreshed[c]]
    /\ mixed' = overlap
    /\ UNCHANGED <<issued, expired, token, attempt, bearer, sends, got, old>>

\* The directory or the file cannot be made, the write or the rename fails, or
\* the temporary file has gone: the error is returned although the token has been set.
SaveFails(g) ==
    /\ pc[g] = "saving"
    /\ \/ save[g] \in File!Rest /\ UNCHANGED fileVars
       \/ File!WriteFails(g) \/ File!RenameFails(g)
    /\ Goto(g, "failed")
    /\ UNCHANGED <<issued, expired, token, callVars, got, old, mixed>>

-----------------------------------------------------------------------------
(* doWithRetry.                                                            *)

Begin(c) ==
    /\ pc[c] \in Ended
    /\ pc[CommandOf[c]] = "done"
    /\ Goto(c, "start")
    /\ attempt' = [attempt EXCEPT ![c] = 0]
    /\ refreshed' = [refreshed EXCEPT ![c] = FALSE]
    /\ sends' = [sends EXCEPT ![c] = 0]
    /\ old' = IF Quiet(CommandOf[c]) THEN [old EXCEPT ![CommandOf[c]] = issued] ELSE old
    /\ UNCHANGED <<issued, expired, token, bearer, got, mixed, fileVars>>

\* The headers are built from AuthToken as it is after the limiter's wait.  It is
\* not empty: calls follow EnsureAuthToken.
Send(c) ==
    /\ pc[c] = "start"
    /\ bearer' = [bearer EXCEPT ![c] = token[CommandOf[c]]]
    /\ sends' = [sends EXCEPT ![c] = @ + 1]
    /\ Goto(c, "sent")
    /\ UNCHANGED <<issued, expired, token, attempt, refreshed, got, old, mixed, fileVars>>

Refuses(t) == t = 0 \/ t \in expired

CanRetry(c) == attempt[c] + 1 < MaxAttempts

\* A transport error, a status 429 or 5xx whatever its body says, an empty or
\* unreadable body, or the message code of the rate limit.
Unavailable(c) ==
    /\ pc[c] = "sent"
    /\ Goto(c, IF CanRetry(c) THEN "backoff" ELSE "failed")
    /\ UNCHANGED <<issued, expired, token, callVars, got, old, mixed, fileVars>>

\* (mutant) The wait has no timer.
BackoffUntilCancelled(c) == pc[c] = "backoff" /\ UNCHANGED vars

Backoff(c) ==
    /\ pc[c] = "backoff"
    /\ attempt' = [attempt EXCEPT ![c] = @ + 1]
    /\ Goto(c, "start")
    /\ UNCHANGED <<issued, expired, token, refreshed, bearer, sends, got, old, mixed, fileVars>>

\* rt_cd "0", or any other error of the request itself.
Answered(c) ==
    /\ pc[c] = "sent"
    /\ ~Refuses(bearer[c])
    /\ \E s \in {"done", "failed"} : Goto(c, s)
    /\ UNCHANGED <<issued, expired, token, callVars, got, old, mixed, fileVars>>

\* (mutant) The request after a refresh may be refreshed as well.
RefreshAgain(c) ==
    /\ pc[c] = "sent"
    /\ Goto(c, "request")
    /\ UNCHANGED <<issued, expired, token, callVars, got, old, mixed, fileVars>>

\* EGW00123, which KIS may answer to any token (one revoked early): the first time
\* the token is refreshed, after that it is an error.
Refused(c) ==
    /\ pc[c] = "sent"
    /\ Goto(c, IF refreshed[c] THEN "failed" ELSE "request")
    /\ UNCHANGED <<issued, expired, token, callVars, got, old, mixed, fileVars>>

-----------------------------------------------------------------------------

\* The context ends in a wait: the limiter's, the request's or the backoff's.
Cancel(g) ==
    /\ pc[g] \in Waiting
    /\ Goto(g, "failed")
    /\ UNCHANGED <<issued, expired, token, callVars, got, old, mixed, fileVars>>

\* The command's process dies with all its goroutines.
Die(p) ==
    /\ ~Quiet(p)
    /\ LET writers == {g \in Goroutines(p) : save[g] \in File!Busy}
       IN  IF writers = {} THEN UNCHANGED fileVars ELSE File!Crash(writers)
    /\ token' = [token EXCEPT ![p] = 0]
    /\ pc' = [g \in Threads |-> IF CommandOf[g] = p THEN "idle" ELSE pc[g]]
    /\ UNCHANGED <<issued, expired, callVars, got, old, mixed>>

Refresh(g) ==
    Grant(g) \/ RequestFails(g) \/ SetAuthToken(g) \/ SaveStep(g) \/ Saved(g) \/ SaveFails(g)

Call(c) == Send(c) \/ Unavailable(c) \/ Backoff(c) \/ Answered(c) \/ Refused(c)

Next ==
    \/ \E t \in Tokens : Expire(t)
    \/ \E p \in Commands : EnsureFromFile(p) \/ EnsureByRefresh(p) \/ Die(p)
    \/ \E g \in Threads : Refresh(g) \/ Cancel(g)
    \/ \E c \in Calls : Begin(c) \/ Call(c)

Spec == Init /\ [][Next]_vars

\* A goroutine goes on: the HTTP client gives up after 15 seconds, the limiter
\* and the backoff let it go in the end.  Nothing makes the context end.
FairSpec ==
    /\ Spec
    /\ \A g \in Threads : WF_vars(Refresh(g))
    /\ \A c \in Calls : WF_vars(Call(c))

-----------------------------------------------------------------------------
(* Properties.                                                             *)

\* A refresh does not use up an attempt, and is used once even when KIS refuses the
\* new token as well: a call sends at most one request more than MaxAttempts.
SendsBounded == \A c \in Calls : sends[c] <= MaxAttempts + 1

\* A call that has refreshed the token does not send an expired one again,
\* whatever other goroutines set AuthToken to in the meantime, and however late.
RefreshSuffices ==
    \A c \in Calls : (pc[c] = "sent" /\ refreshed[c]) => ~Refuses(bearer[c])

\* Unless the save that put the token file there overlapped another, the file holds
\* a whole token that was granted, at any time, whoever saves, fails or dies now or
\* did before: the next command reads it back.  After an overlap too, the file is
\* not left short: if no write has been cut short, all bytes of a granted token are
\* there once nobody saves, though a longer one's tail may make it unreadable.
FileHoldsToken ==
    target # Absent =>
        /\ ~mixed => File!Complete(target) /\ target.last <= issued
        /\ (~broken /\ \A g \in Threads : save[g] \in File!Rest) =>
               File!Written(target) /\ target.last <= issued

\* Every call ends without its context's help.
CallEnds == \A c \in Calls : pc[c] = "start" ~> pc[c] \in Ended

\* api_test.go says the client "refreshes an expired token and retries the request":
\* a call that was granted a token and wrote it to the temporary file retries,
\* unless its process dies.
RefreshedCallRetries ==
    [][\A c \in Calls :
           (pc[c] = "saving" /\ save[c] = "renaming" /\ pc'[c] # "saving")
               => pc'[c] \in {"start", "idle"}]_vars

=============================================================================
