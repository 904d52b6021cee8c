--------------------------- MODULE KISClientProofs ---------------------------
(***************************************************************************)
(* The safety properties of KISClient, for any commands, goroutines,       *)
(* attempts and tokens: first those of a call, in which what the token     *)
(* file holds plays no part, then those of the token file, which its       *)
(* savers use as AtomicWrite says.                                         *)
(***************************************************************************)
EXTENDS KISClient, TLAPS

Typed ==
    /\ issued \in Nat
    /\ expired \subseteq 1..issued
    /\ token \in [Commands -> Nat]
    /\ pc \in [Threads -> States]
    /\ attempt \in [Calls -> Nat]
    /\ refreshed \in [Calls -> BOOLEAN]
    /\ bearer \in [Calls -> Nat]
    /\ got \in [Threads -> Nat]
    /\ sends \in [Calls -> Nat]
    /\ old \in [Commands -> 0..issued]

\* A call under way has sent one request per attempt, one more after its
\* refresh, and not yet the one it is about to send.
Sent(c) == attempt[c] + (IF refreshed[c] THEN 1 ELSE 0) + (IF pc[c] = "start" THEN 0 ELSE 1)

Counted ==
    \A c \in Calls :
        /\ attempt[c] < MaxAttempts
        /\ sends[c] <= MaxAttempts + 1
        /\ pc[c] \notin Ended => sends[c] = Sent(c)
        /\ pc[c] = "backoff" => CanRetry(c)
        /\ pc[c] \in {"request", "granted", "saving"} => ~refreshed[c]

CountInv == Typed /\ Counted

\* The command of a goroutine under way is busy, so that only tokens granted
\* before have expired; a goroutine that refreshed has set a later one, and no
\* goroutine of the command sets an earlier one again.
Later(g) ==
    /\ pc[g] \notin Ended => expired \subseteq 1..old[CommandOf[g]]
    /\ pc[g] = "granted" => got[g] > old[CommandOf[g]]
    /\ pc[g] = "saving" => token[CommandOf[g]] > old[CommandOf[g]]

LaterCall(c) ==
    /\ pc[c] \notin Ended /\ refreshed[c] => token[CommandOf[c]] > old[CommandOf[c]]
    /\ pc[c] = "sent" /\ refreshed[c] => bearer[c] > old[CommandOf[c]]

Fresh == (\A g \in Threads : Later(g)) /\ (\A c \in Calls : LaterCall(c))

FreshInv == Typed /\ Fresh

-----------------------------------------------------------------------------

LEMMA Belongs == \A g \in Threads : CommandOf[g] \in Commands
  BY CommandOfAssumption

LEMMA Disjoint == Calls \subseteq Threads /\ Commands \subseteq Threads
  BY DEF Threads

LEMMA InitTyped == Init => Typed
  BY DEF Init, Typed, States, Ended

LEMMA TypedStep == Typed /\ [Next]_vars => Typed'
<1> SUFFICES ASSUME Typed, [Next]_vars PROVE Typed'
  OBVIOUS
<1> USE Belongs, Disjoint DEF Typed, Goto, States, Ended, Waiting, callVars
<1>1. ASSUME NEW t \in Tokens, Expire(t) PROVE Typed'
  BY <1>1, MaxTokensAssumption DEF Expire, Tokens
<1>2. ASSUME NEW p \in Commands, EnsureFromFile(p) PROVE Typed'
  <2>1. target.last \in Nat
    BY <1>2, MaxTokensAssumption DEF EnsureFromFile, FileValid, File!Complete, Tokens
  <2> QED BY <2>1, <1>2 DEF EnsureFromFile
<1>3. ASSUME NEW p \in Commands, EnsureByRefresh(p) PROVE Typed'
  BY <1>3 DEF EnsureByRefresh
<1>4. ASSUME NEW p \in Commands, Die(p) PROVE Typed'
  BY <1>4 DEF Die
<1>5. ASSUME NEW g \in Threads, Grant(g) PROVE Typed'
  BY <1>5 DEF Grant
<1>6. ASSUME NEW g \in Threads, RequestFails(g) PROVE Typed'
  BY <1>6 DEF RequestFails
<1>7. ASSUME NEW g \in Threads, SetAuthToken(g) PROVE Typed'
  BY <1>7 DEF SetAuthToken
<1>8. ASSUME NEW g \in Threads, SaveStep(g) PROVE Typed'
  BY <1>8 DEF SaveStep
<1>9. ASSUME NEW g \in Threads, Saved(g) PROVE Typed'
  BY <1>9 DEF Saved
<1>10. ASSUME NEW g \in Threads, SaveFails(g) PROVE Typed'
  BY <1>10 DEF SaveFails
<1>11. ASSUME NEW g \in Threads, Cancel(g) PROVE Typed'
  BY <1>11 DEF Cancel
<1>12. ASSUME NEW c \in Calls, Begin(c) PROVE Typed'
  BY <1>12 DEF Begin
<1>13. ASSUME NEW c \in Calls, Send(c) PROVE Typed'
  BY <1>13 DEF Send
<1>14. ASSUME NEW c \in Calls, Unavailable(c) PROVE Typed'
  BY <1>14 DEF Unavailable
<1>15. ASSUME NEW c \in Calls, Backoff(c) PROVE Typed'
  BY <1>15 DEF Backoff
<1>16. ASSUME NEW c \in Calls, Answered(c) PROVE Typed'
  BY <1>16 DEF Answered
<1>17. ASSUME NEW c \in Calls, Refused(c) PROVE Typed'
  BY <1>17 DEF Refused
<1>18. CASE UNCHANGED vars
  BY <1>18 DEF vars
<1> QED
  BY <1>1, <1>2, <1>3, <1>4, <1>5, <1>6, <1>7, <1>8, <1>9, <1>10, <1>11, <1>12,
     <1>13, <1>14, <1>15, <1>16, <1>17, <1>18
     DEF Next, Refresh, Call

-----------------------------------------------------------------------------
(* A call's requests are counted.                                          *)

LEMMA InitCounted == Init => Counted
  BY Disjoint, MaxAttemptsAssumption DEF Init, Counted, Ended

LEMMA CountedStep == CountInv /\ [Next]_vars => Counted'
<1> SUFFICES ASSUME Typed, Counted, [Next]_vars PROVE Counted'
  BY DEF CountInv
<1> USE Belongs, Disjoint, MaxAttemptsAssumption
    DEF Typed, Counted, Sent, CanRetry, Goto, Ended, callVars
<1>1. ASSUME UNCHANGED <<callVars, pc>> PROVE Counted'
  BY <1>1
<1>2. ASSUME NEW p \in Commands, EnsureFromFile(p) \/ EnsureByRefresh(p) PROVE Counted'
  BY <1>2, ThreadsAssumption DEF EnsureFromFile, EnsureByRefresh
<1>3. ASSUME NEW p \in Commands, Die(p) PROVE Counted'
  BY <1>3 DEF Die
<1>4. CASE \E g \in Threads : Grant(g) \/ RequestFails(g) \/ SetAuthToken(g) \/ SaveFails(g) \/ Cancel(g)
  BY <1>4 DEF Grant, RequestFails, SetAuthToken, SaveFails, Cancel
<1>5. ASSUME NEW g \in Threads, Saved(g) PROVE Counted'
  <2>1. ASSUME NEW c \in Calls, c # g
        PROVE  pc'[c] = pc[c] /\ refreshed'[c] = refreshed[c]
    BY <1>5, <2>1 DEF Saved
  <2>2. ASSUME g \in Calls
        PROVE  pc[g] = "saving" /\ ~refreshed[g] /\ pc'[g] = "start" /\ refreshed'[g] = TRUE
    BY <1>5, <2>2 DEF Saved
  <2>3. UNCHANGED <<attempt, sends>>
    BY <1>5 DEF Saved
  <2>4. ASSUME g \in Calls PROVE sends[g] = attempt[g] + 1 /\ Sent(g)' = attempt[g] + 1
    <3>1. sends[g] = attempt[g] + 0 + 1
      BY <2>2, <2>4
    <3>2. Sent(g)' = attempt[g] + 1 + 0
      BY <2>2, <2>3, <2>4
    <3> QED
      BY <3>1, <3>2, <2>4
  <2>5. ASSUME NEW c \in Calls, c # g PROVE Sent(c)' = Sent(c)
    BY <2>1, <2>3, <2>5
  <2> QED
    BY <2>1, <2>2, <2>3, <2>4, <2>5
<1>6. ASSUME NEW d \in Calls, Begin(d) PROVE Counted'
  BY <1>6 DEF Begin
<1>7. ASSUME NEW d \in Calls, Send(d) PROVE Counted'
  BY <1>7 DEF Send
<1>8. ASSUME NEW d \in Calls, Unavailable(d) PROVE Counted'
  BY <1>8 DEF Unavailable
<1>9. ASSUME NEW d \in Calls, Backoff(d) PROVE Counted'
  BY <1>9 DEF Backoff
<1>10. ASSUME NEW d \in Calls, Answered(d) PROVE Counted'
  BY <1>10 DEF Answered
<1>11. ASSUME NEW d \in Calls, Refused(d) PROVE Counted'
  BY <1>11 DEF Refused
<1>12. CASE (\E t \in Tokens : Expire(t)) \/ (\E g \in Threads : SaveStep(g)) \/ UNCHANGED vars
  BY <1>1, <1>12 DEF Expire, SaveStep, vars
<1> QED
  BY <1>2, <1>3, <1>4, <1>5, <1>6, <1>7, <1>8, <1>9, <1>10, <1>11, <1>12
     DEF Next, Refresh, Call

\* A call sends at most one request more than MaxAttempts: doWithRetry's refresh
\* happens once and costs no attempt.
THEOREM CallsSendBounded == Spec => []SendsBounded
<1>1. Init => CountInv
  BY InitTyped, InitCounted DEF CountInv
<1>2. CountInv /\ [Next]_vars => CountInv'
  BY TypedStep, CountedStep DEF CountInv
<1>3. CountInv => SendsBounded
  BY DEF CountInv, Counted, SendsBounded
<1> QED
  BY <1>1, <1>2, <1>3, PTL DEF Spec

-----------------------------------------------------------------------------
(* A token set by a refresh stays good for the call that refreshed.        *)

LEMMA InitFresh == Init => FreshInv
  BY InitTyped, Disjoint DEF FreshInv, Fresh, Later, LaterCall, Init, Ended

LEMMA BusyCommand ==
    ASSUME NEW g \in Threads, pc[g] \notin Ended
    PROVE  ~Quiet(CommandOf[g])
  BY Belongs DEF Quiet, Goroutines

LEMMA FreshStep == FreshInv /\ [Next]_vars => Fresh'
<1> SUFFICES ASSUME Typed, Fresh, [Next]_vars PROVE Fresh'
  BY DEF FreshInv, Fresh
<1> USE Belongs, Disjoint DEF Typed, Fresh, Later, LaterCall, Goto, Ended, callVars
<1>1. ASSUME NEW t \in Tokens, Expire(t) PROVE Fresh'
  <2>1. t \in Nat \ {0}
    BY MaxTokensAssumption DEF Tokens
  <2>2. ASSUME NEW g \in Threads, pc[g] \notin Ended
        PROVE  expired' \subseteq 1..old[CommandOf[g]]
    <3>1. t <= old[CommandOf[g]]
      BY <1>1, <2>2, BusyCommand DEF Expire
    <3> QED
      BY <1>1, <2>1, <2>2, <3>1 DEF Expire
  <2> QED
    BY <1>1, <2>2 DEF Expire
<1>2. ASSUME NEW p \in Commands, EnsureFromFile(p) PROVE Fresh'
  BY <1>2, BusyCommand DEF EnsureFromFile
<1>3. ASSUME NEW p \in Commands, EnsureByRefresh(p) PROVE Fresh'
  <2>1. ASSUME NEW g \in Threads PROVE Later(g)'
    <3>1. CASE pc[g] \in Ended /\ g # p
      BY <1>3, <3>1 DEF EnsureByRefresh
    <3>2. CASE g = p
      BY <1>3, <3>2, CommandOfAssumption DEF EnsureByRefresh
    <3>3. CASE pc[g] \notin Ended
      BY <1>3, <3>3, BusyCommand DEF EnsureByRefresh
    <3> QED
      BY <3>1, <3>2, <3>3
  <2>2. ASSUME NEW c \in Calls PROVE LaterCall(c)'
    BY <1>3, BusyCommand, ThreadsAssumption DEF EnsureByRefresh
  <2> QED
    BY <2>1, <2>2
<1>4. ASSUME NEW p \in Commands, Die(p) PROVE Fresh'
  BY <1>4 DEF Die
<1>5. ASSUME NEW g \in Threads, Grant(g) PROVE Fresh'
  BY <1>5 DEF Grant
<1>6. ASSUME NEW g \in Threads, RequestFails(g) PROVE Fresh'
  BY <1>6 DEF RequestFails
<1>7. ASSUME NEW g \in Threads, SetAuthToken(g) PROVE Fresh'
  BY <1>7 DEF SetAuthToken
<1>8. ASSUME NEW g \in Threads, SaveStep(g) PROVE Fresh'
  BY <1>8 DEF SaveStep
<1>9. ASSUME NEW g \in Threads, Saved(g) PROVE Fresh'
  BY <1>9 DEF Saved
<1>10. ASSUME NEW g \in Threads, SaveFails(g) PROVE Fresh'
  BY <1>10 DEF SaveFails
<1>11. ASSUME NEW g \in Threads, Cancel(g) PROVE Fresh'
  BY <1>11 DEF Cancel, Waiting
<1>12. ASSUME NEW c \in Calls, Begin(c) PROVE Fresh'
  <2> DEFINE p == CommandOf[c]
  <2>1. CASE Quiet(p)
    <3>1. old' = [old EXCEPT ![p] = issued]
      BY <1>12, <2>1 DEF Begin
    <3>2. ASSUME NEW g \in Threads, g # c, pc[g] \notin Ended
          PROVE  CommandOf[g] # p
      BY <2>1, <3>2, BusyCommand
    <3> HIDE DEF p
    <3>3. p = CommandOf[c]
      BY DEF p
    <3>4. ASSUME NEW g \in Threads PROVE Later(g)'
      BY <1>12, <3>1, <3>2, <3>3 DEF Begin
    <3>5. ASSUME NEW d \in Calls PROVE LaterCall(d)'
      BY <1>12, <3>1, <3>2, <3>3 DEF Begin
    <3> QED
      BY <3>4, <3>5
  <2>2. CASE ~Quiet(p)
    <3>1. old' = old
      BY <1>12, <2>2 DEF Begin
    <3>2. expired \subseteq 1..old[p]
      BY <2>2 DEF Quiet, Goroutines
    <3> QED
      BY <1>12, <3>1, <3>2 DEF Begin
  <2> QED
    BY <2>1, <2>2
<1>13. ASSUME NEW c \in Calls, Send(c) PROVE Fresh'
  BY <1>13 DEF Send
<1>14. ASSUME NEW c \in Calls, Unavailable(c) PROVE Fresh'
  BY <1>14 DEF Unavailable
<1>15. ASSUME NEW c \in Calls, Backoff(c) PROVE Fresh'
  BY <1>15 DEF Backoff
<1>16. ASSUME NEW c \in Calls, Answered(c) PROVE Fresh'
  BY <1>16 DEF Answered
<1>17. ASSUME NEW c \in Calls, Refused(c) PROVE Fresh'
  BY <1>17 DEF Refused
<1>18. CASE UNCHANGED vars
  BY <1>18 DEF vars
<1> QED
  BY <1>1, <1>2, <1>3, <1>4, <1>5, <1>6, <1>7, <1>8, <1>9, <1>10, <1>11, <1>12,
     <1>13, <1>14, <1>15, <1>16, <1>17, <1>18
     DEF Next, Refresh, Call

\* A call that has refreshed the token does not send an expired one again,
\* whatever the command's other goroutines set AuthToken to meanwhile.
THEOREM RefreshIsEnough == Spec => []RefreshSuffices
<1>1. Init => FreshInv
  BY InitFresh
<1>2. FreshInv /\ [Next]_vars => FreshInv'
  BY TypedStep, FreshStep DEF FreshInv, Fresh
<1>3. FreshInv => RefreshSuffices
  BY Belongs, Disjoint DEF FreshInv, Fresh, Typed, Later, LaterCall, RefreshSuffices, Refuses, Ended
<1> QED
  BY <1>1, <1>2, <1>3, PTL DEF Spec

-----------------------------------------------------------------------------
(* The token file: AtomicWrite with its theorems.                          *)

Store == INSTANCE AtomicWriteProofs
            WITH Writers <- Threads, Values <- Tokens, Remover <- {},
                 Size <- Length, pc <- save

LEMMA FileParameters ==
    /\ Length \in [Tokens -> Nat \ {0}]
    /\ {} \subseteq Threads
    /\ Nobody \notin Tokens
    /\ Absent \notin [last : Tokens \cup {Nobody}, size : Nat]
  BY SentinelsAssumption, LengthAssumption

LEMMA SameFile ==
    /\ File!Init <=> Store!Init
    /\ File!vars = Store!vars
    /\ File!Rest = Store!Rest /\ File!Busy = Store!Busy
    /\ \A c : File!Complete(c) <=> Store!Complete(c)
    /\ \A g \in Threads :
           /\ \A v : File!Open(g, v) <=> Store!Open(g, v)
           /\ File!Write(g) <=> Store!Write(g)
           /\ File!WriteFails(g) <=> Store!WriteFails(g)
           /\ File!Rename(g) <=> Store!Rename(g)
           /\ File!RenameFails(g) <=> Store!RenameFails(g)
           /\ File!Remove(g) <=> Store!Remove(g)
    /\ \A S : File!Crash(S) <=> Store!Crash(S)
<1> USE DEF File!Rest, Store!Rest, File!Busy, Store!Busy, File!Goto, Store!Goto,
    File!Close, Store!Close, File!Begin, Store!Begin, File!Follow, Store!Follow,
    File!Overwrite, Store!Overwrite, File!Empty, Store!Empty
<1>1. (File!Init <=> Store!Init) /\ File!vars = Store!vars
  BY DEF File!Init, Store!Init, File!vars, Store!vars
<1>2. \A c : File!Complete(c) <=> Store!Complete(c)
  BY DEF File!Complete, Store!Complete
<1>3. ASSUME NEW g \in Threads
      PROVE  /\ \A v : File!Open(g, v) <=> Store!Open(g, v)
             /\ File!Write(g) <=> Store!Write(g)
             /\ File!WriteFails(g) <=> Store!WriteFails(g)
             /\ File!Rename(g) <=> Store!Rename(g)
             /\ File!RenameFails(g) <=> Store!RenameFails(g)
             /\ File!Remove(g) <=> Store!Remove(g)
  BY DEF File!Open, Store!Open, File!Write, Store!Write, File!WriteFails, Store!WriteFails,
     File!Rename, Store!Rename, File!RenameFails, Store!RenameFails, File!Remove, Store!Remove
<1>4. \A S : File!Crash(S) <=> Store!Crash(S)
  BY DEF File!Crash, Store!Crash
<1> QED BY <1>1, <1>2, <1>3, <1>4


-----------------------------------------------------------------------------
(* What is known of the tokens and of the token file.                      *)

\* A goroutine that sets or saves a token was granted it.
Granted ==
    /\ issued \in 0..MaxTokens
    /\ token \in [Commands -> 0..issued]
    /\ bearer \in [Calls -> 0..issued]
    /\ got \in [Threads -> 0..issued]
    /\ \A g \in Threads : pc[g] \in {"granted", "saving"} => got[g] # 0

\* What is in the file, or about to be, was granted.
Stored ==
    /\ tmp # Absent /\ tmp.last \in Tokens => tmp.last <= issued
    /\ target # Absent /\ target.last \in Tokens => target.last <= issued
    /\ \A g \in Threads : value[g] \in Tokens => value[g] <= issued

\* A file put there by a save without overlap is whole, and nobody has it open.
Unmixed ==
    ~mixed /\ target # Absent =>
        /\ File!Complete(target)
        /\ \A g \in Threads : fd[g] # "target"

FileInv == Typed /\ Granted /\ Stored /\ mixed \in BOOLEAN /\ Unmixed /\ Store!Inv

LEMMA NoFileYet == Init => Stored /\ Granted /\ Unmixed
  BY SentinelsAssumption, MaxTokensAssumption DEF Init, Stored, Unmixed, Granted, File!Init, Ended

\* Every step of a command is a step of the file's protocol or leaves the file
\* alone: the saves of all goroutines, and what a death takes with it.
LEMMA FileStep ==
    ASSUME Typed, Granted, [Next]_vars
    PROVE  [File!Next]_(File!vars)
<1>1. ASSUME UNCHANGED fileVars PROVE File!vars' = File!vars
  BY <1>1 DEF fileVars, File!vars
<1>2. ASSUME NEW p \in Commands, Die(p) PROVE [File!Next]_(File!vars)
  <2> DEFINE writers == {g \in Goroutines(p) : save[g] \in File!Busy}
  <2>1. CASE writers = {}
    BY <1>1, <1>2, <2>1 DEF Die
  <2>2. CASE writers # {}
    <3>1. File!Crash(writers) /\ writers \in SUBSET Threads
      BY <1>2, <2>2 DEF Die, Goroutines
    <3> QED BY <3>1 DEF File!Next
  <2> QED BY <2>1, <2>2
<1>3. ASSUME NEW g \in Threads, SaveStep(g) PROVE File!Next
  <2>1. got[g] \in Tokens
    BY <1>3, MaxTokensAssumption DEF SaveStep, Granted, Tokens
  <2> QED BY <1>3, <2>1 DEF SaveStep, File!Next
<1>4. ASSUME NEW g \in Threads, Saved(g) PROVE File!Next
  BY <1>4 DEF Saved, File!Next
<1>5. ASSUME NEW g \in Threads, SaveFails(g) PROVE [File!Next]_(File!vars)
  BY <1>1, <1>5 DEF SaveFails, File!Next
<1>6. ASSUME NEW g \in Threads,
             Grant(g) \/ RequestFails(g) \/ SetAuthToken(g) \/ Cancel(g)
      PROVE  UNCHANGED fileVars
  BY <1>6 DEF Grant, RequestFails, SetAuthToken, Cancel
<1>7. ASSUME NEW p \in Commands, EnsureFromFile(p) \/ EnsureByRefresh(p)
      PROVE  UNCHANGED fileVars
  BY <1>7 DEF EnsureFromFile, EnsureByRefresh
<1>8. ASSUME NEW c \in Calls, Begin(c) \/ Call(c) PROVE UNCHANGED fileVars
  BY <1>8 DEF Begin, Call, Send, Unavailable, Backoff, Answered, Refused
<1>9. CASE (\E t \in Tokens : Expire(t)) \/ UNCHANGED vars
  BY <1>1, <1>9 DEF Expire, vars
<1> QED BY <1>1, <1>2, <1>3, <1>4, <1>5, <1>6, <1>7, <1>8, <1>9 DEF Next, Refresh

LEMMA StoreStep ==
    ASSUME [File!Next]_(File!vars)
    PROVE  [Store!Next]_(Store!vars)
<1>1. File!Next => Store!Next
  BY SameFile, Zenon DEF File!Next, Store!Next
<1>2. File!vars' = File!vars => Store!vars' = Store!vars
  BY DEF File!vars, Store!vars
<1> QED BY <1>1, <1>2

LEMMA GrantedStep ==
    ASSUME Typed, Granted, Stored, [Next]_vars
    PROVE  Granted'
<1> USE Belongs, Disjoint, MaxTokensAssumption DEF Typed, Granted, Goto, callVars
<1>1. CASE \E t \in Tokens : Expire(t)
  BY <1>1 DEF Expire
<1>2. ASSUME NEW p \in Commands, EnsureFromFile(p) PROVE Granted'
  <2>1. target.last \in 0..issued
    BY <1>2 DEF EnsureFromFile, FileValid, File!Complete, Tokens, Stored
  <2> QED BY <1>2, <2>1 DEF EnsureFromFile
<1>3. ASSUME NEW p \in Commands, EnsureByRefresh(p) \/ Die(p) PROVE Granted'
  BY <1>3 DEF EnsureByRefresh, Die
<1>4. ASSUME NEW g \in Threads, Grant(g) PROVE Granted'
  BY <1>4 DEF Grant
<1>5. ASSUME NEW g \in Threads, RequestFails(g) \/ Cancel(g) PROVE Granted'
  BY <1>5 DEF RequestFails, Cancel
<1>6. ASSUME NEW g \in Threads, SetAuthToken(g) PROVE Granted'
  BY <1>6 DEF SetAuthToken
<1>7. ASSUME NEW g \in Threads, SaveStep(g) PROVE Granted'
  BY <1>7 DEF SaveStep
<1>8. ASSUME NEW g \in Threads, Saved(g) PROVE Granted'
  BY <1>8 DEF Saved
<1>9. ASSUME NEW g \in Threads, SaveFails(g) PROVE Granted'
  BY <1>9 DEF SaveFails
<1>10. ASSUME NEW c \in Calls, Begin(c) PROVE Granted'
  BY <1>10 DEF Begin
<1>11. ASSUME NEW c \in Calls, Send(c) PROVE Granted'
  BY <1>11 DEF Send
<1>12. ASSUME NEW c \in Calls, Unavailable(c) \/ Backoff(c) \/ Answered(c) \/ Refused(c)
       PROVE  Granted'
  BY <1>12 DEF Unavailable, Backoff, Answered, Refused
<1>13. CASE UNCHANGED vars
  BY <1>13 DEF vars
<1> QED BY <1>1, <1>2, <1>3, <1>4, <1>5, <1>6, <1>7, <1>8, <1>9, <1>10, <1>11, <1>12,
           <1>13 DEF Next, Refresh, Call

LEMMA StoredStep ==
    ASSUME Typed, Granted, Stored, Store!Inv, [Next]_vars
    PROVE  Stored'
<1>1. issued' \in Nat /\ issued <= issued' /\ issued \in Nat
  <2>1. ASSUME NEW g \in Threads, Grant(g) PROVE issued' = issued + 1
    BY <2>1 DEF Grant
  <2>2. (\E g \in Threads : Grant(g)) \/ issued' = issued
    BY DEF Next, Refresh, Call, Expire, EnsureFromFile, EnsureByRefresh, Die, RequestFails,
           SetAuthToken, SaveStep, Saved, SaveFails, Cancel, Begin, Send, Unavailable,
           Backoff, Answered, Refused, vars
  <2> QED BY <2>1, <2>2 DEF Typed
<1>2. Tokens \subseteq Nat
  BY MaxTokensAssumption DEF Tokens
<1>3. CASE File!vars' = File!vars
  <2>1. \A t : t \in Tokens /\ t <= issued => t <= issued'
    BY <1>1, <1>2
  <2>2. tmp' = tmp /\ target' = target /\ value' = value
    BY <1>3 DEF File!vars
  <2> QED BY <2>1, <2>2, Zenon DEF Stored, Tokens
<1>4. ASSUME NEW g \in Threads, SaveStep(g) PROVE Stored'
  <2>1. got[g] \in Tokens /\ got[g] <= issued /\ issued' = issued
    BY <1>4, MaxTokensAssumption DEF SaveStep, Granted, Tokens
  <2>2. CASE File!Open(g, got[g])
    BY <2>1, <2>2, SentinelsAssumption
       DEF File!Open, File!Begin, File!Empty, Stored, Store!Inv, Store!TypeOK
  <2>3. CASE File!Write(g)
    BY <2>1, <2>3 DEF File!Write, File!Overwrite, Stored, Store!Inv, Store!Descriptors
  <2> QED BY <1>4, <2>2, <2>3 DEF SaveStep
<1>5. ASSUME NEW g \in Threads, Saved(g) PROVE Stored'
  BY <1>5 DEF Saved, File!Rename, Stored
<1>6. ASSUME NEW g \in Threads, SaveFails(g) PROVE Stored'
  BY <1>5, <1>6 DEF SaveFails, File!WriteFails, File!RenameFails, Stored, fileVars
<1>7. ASSUME NEW p \in Commands, Die(p) PROVE Stored'
  BY <1>7 DEF Die, File!Crash, Stored, fileVars
<1>8. \/ \E g \in Threads : SaveStep(g) \/ Saved(g) \/ SaveFails(g)
      \/ \E p \in Commands : Die(p)
      \/ File!vars' = File!vars
  BY DEF Next, Refresh, Call, Expire, EnsureFromFile, EnsureByRefresh, RequestFails, Grant,
         SetAuthToken, Cancel, Begin, Send, Unavailable, Backoff, Answered, Refused, vars,
         fileVars, File!vars
<1> QED BY <1>3, <1>4, <1>5, <1>6, <1>7, <1>8

LEMMA MixedStep ==
    ASSUME mixed \in BOOLEAN, Store!Inv, [Next]_vars
    PROVE  mixed' \in BOOLEAN
<1>1. mixed' = mixed \/ mixed' = overlap
  BY DEF Next, Refresh, Call, Expire, EnsureFromFile, EnsureByRefresh, RequestFails, Grant,
         SetAuthToken, SaveStep, Saved, SaveFails, Cancel, Begin, Send, Unavailable, Backoff,
         Answered, Refused, Die, vars
<1>2. overlap \in BOOLEAN
  BY DEF Store!Inv, Store!TypeOK
<1> QED BY <1>1, <1>2

LEMMA UnmixedStep ==
    ASSUME Typed, Unmixed, Store!Inv, [Next]_vars
    PROVE  Unmixed'
<1>1. CASE UNCHANGED <<mixed, target, fd>>
  BY <1>1 DEF Unmixed, File!Complete
<1>2. ASSUME NEW g \in Threads, Saved(g) PROVE Unmixed'
  <2> SUFFICES ASSUME ~overlap
               PROVE  File!Complete(target') /\ \A h \in Threads : fd'[h] # "target"
    BY <1>2 DEF Saved, Unmixed, File!Complete
  <2>1. save[g] = "renaming" /\ target' = tmp
    BY <1>2 DEF Saved, File!Rename
  <2>2. tmp = Store!Whole(value[g]) /\ value[g] \in Tokens
    BY <2>1 DEF Store!Inv, Store!Lone, Store!Descriptors, Store!Busy
  <2>3. \A h \in Threads : fd[h] # "tmp"
    BY <2>1 DEF Store!Inv, Store!Lone, Store!Descriptors, Store!Busy
  <2>4. \A h \in Threads : fd'[h] # "target"
    BY <1>2, <2>3 DEF Saved, File!Rename, File!Follow
  <2> QED BY <2>1, <2>2, <2>4 DEF Store!Whole, File!Complete
<1>3. ASSUME NEW g \in Threads, SaveStep(g) PROVE Unmixed'
  <2>1. CASE File!Open(g, got[g])
    BY <1>3, <2>1 DEF SaveStep, File!Open, Unmixed, File!Complete, Store!Inv, Store!TypeOK
  <2>2. CASE File!Write(g)
    BY <1>3, <2>2 DEF SaveStep, File!Write, File!Close, Unmixed, File!Complete,
                      Store!Inv, Store!TypeOK, Store!Descriptors
  <2> QED BY <1>3, <2>1, <2>2 DEF SaveStep
<1>4. ASSUME NEW g \in Threads, SaveFails(g) PROVE Unmixed'
  BY <1>1, <1>4 DEF SaveFails, File!WriteFails, File!RenameFails, File!Close, Unmixed,
                    File!Complete, Store!Inv, Store!TypeOK, fileVars
<1>5. ASSUME NEW p \in Commands, Die(p) PROVE Unmixed'
  BY <1>1, <1>5 DEF Die, File!Crash, Unmixed, File!Complete, fileVars
<1>6. \/ \E g \in Threads : SaveStep(g) \/ Saved(g) \/ SaveFails(g)
      \/ \E p \in Commands : Die(p)
      \/ UNCHANGED <<mixed, target, fd>>
  BY DEF Next, Refresh, Call, Expire, EnsureFromFile, EnsureByRefresh, RequestFails, Grant,
         SetAuthToken, Cancel, Begin, Send, Unavailable, Backoff, Answered, Refused, vars,
         fileVars
<1> QED BY <1>1, <1>2, <1>3, <1>4, <1>5, <1>6

LEMMA FileInvInit == Init => FileInv
  BY InitTyped, NoFileYet, SameFile, Store!InvInit, FileParameters DEF Init, FileInv

LEMMA FileInvStep == FileInv /\ [Next]_vars => FileInv'
<1> SUFFICES ASSUME FileInv, [Next]_vars PROVE FileInv'
  OBVIOUS
<1>1. Typed'
  BY TypedStep DEF FileInv
<1>2. Granted' /\ Stored' /\ Unmixed'
  BY GrantedStep, StoredStep, UnmixedStep DEF FileInv
<1>3. mixed' \in BOOLEAN
  BY MixedStep DEF FileInv
<1>4. Store!Inv'
  BY FileStep, StoreStep, Store!InvNext, FileParameters DEF FileInv
<1> QED BY <1>1, <1>2, <1>3, <1>4 DEF FileInv

LEMMA FileInvHolds == Spec => []FileInv
  BY FileInvInit, FileInvStep, PTL DEF Spec

\* Unless the save that put the token file there overlapped another, the file is a
\* whole token that was granted, at any time; after an overlap it is not left short.
THEOREM TokenFileReadable == Spec => []FileHoldsToken
<1>1. FileInv => FileHoldsToken
  <2> SUFFICES ASSUME FileInv, target # Absent
               PROVE  /\ ~mixed => File!Complete(target) /\ target.last <= issued
                      /\ (~broken /\ \A g \in Threads : save[g] \in File!Rest) =>
                             File!Written(target) /\ target.last <= issued
    BY DEF FileHoldsToken
  <2>1. ASSUME ~mixed PROVE File!Complete(target) /\ target.last <= issued
    BY <2>1 DEF FileInv, Unmixed, Stored, File!Complete
  <2>2. ASSUME ~broken, \A g \in Threads : save[g] \in File!Rest
        PROVE  File!Written(target) /\ target.last <= issued
    <3>1. \A g \in Threads : fd[g] # "target"
      BY <2>2 DEF FileInv, Store!Inv, Store!Descriptors, File!Rest, Store!TypeOK
    <3>2. Store!Written(target)
      BY <2>2, <3>1 DEF FileInv, Store!Inv, Store!NeverShort
    <3> QED BY <3>2 DEF Store!Written, File!Written, FileInv, Stored
  <2> QED BY <2>1, <2>2
<1> QED BY <1>1, FileInvHolds, PTL

\* Every variable keeps its type, for any commands, goroutines, attempts and tokens.
THEOREM TypeCorrect == Spec => []TypeOK
<1>1. CountInv /\ FileInv => TypeOK
  BY MaxTokensAssumption, MaxAttemptsAssumption
     DEF CountInv, FileInv, Typed, Granted, Counted, TypeOK, Tokens
<1>2. Init => CountInv
  BY InitTyped, InitCounted DEF CountInv
<1>3. CountInv /\ [Next]_vars => CountInv'
  BY TypedStep, CountedStep DEF CountInv
<1> QED BY <1>1, <1>2, <1>3, FileInvHolds, PTL DEF Spec

=============================================================================
