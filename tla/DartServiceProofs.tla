-------------------------- MODULE DartServiceProofs --------------------------
(* The limiter of the DART API, for any rate, burst and number of addresses    *)
(* and callers, and the companies task, for any lists DART answers with.       *)
EXTENDS DartService, TLAPS

-----------------------------------------------------------------------------
(* The limiters.                                                               *)

\* The requests let through from the i-th on.
Since(ip, i) == Len(admitted[ip]) - i + 1

\* What an address has been let through since any of its requests, with the tokens it
\* has left, is covered by the burst and by the rate up to the limiter's last use.
Accounted(ip) ==
  LET l == limiters[ip]
      a == admitted[ip]
  IN /\ l \in [tokens : 0 .. Burst, at : 0 .. time, seen : 0 .. time] /\ l.seen = l.at
     /\ \A i \in DOMAIN a :
          a[i] <= l.at /\ l.tokens + Since(ip, i) <= Burst + Rate * (l.at - a[i])

\* An address without a limiter gets a full one: the rate alone has covered it.
Forgotten(ip) ==
  \A i \in DOMAIN admitted[ip] : Since(ip, i) <= Rate * (time - admitted[ip][i])

LimitersSound ==
  /\ time \in Nat
  /\ admitted \in [DOMAIN admitted -> Seq(0 .. time)]
  /\ \A ip \in DOMAIN admitted :
       IF ip \in DOMAIN limiters THEN Accounted(ip) ELSE Forgotten(ip)

RateInv == LimitersSound /\ RateHolds

\* Products are monotone, and add up.
LEMMA RateTimes ==
  \A x, y \in Nat : /\ Rate * (x + y) = Rate * x + Rate * y
                    /\ Rate * x \in Nat /\ Rate * x <= Rate * (x + y)
<1> TAKE x, y \in Nat
<1>1. Rate * (x + y) = Rate * x + Rate * y /\ Rate * x \in Nat /\ Rate * y \in Nat
  BY LimiterAssumption
<1> QED BY <1>1

LEMMA RateElapsed ==
  ASSUME NEW x \in Nat, NEW y \in Nat, NEW z \in Nat, x <= y, y <= z
  PROVE  /\ Rate * (z - x) = Rate * (z - y) + Rate * (y - x)
         /\ Rate * (z - x) \in Nat /\ Rate * (z - y) \in Nat /\ Rate * (y - x) \in Nat
<1> DEFINE u == z - y
           v == y - x
<1>1. u \in Nat /\ v \in Nat /\ z - x = u + v
  OBVIOUS
<1>2. Rate * (u + v) = Rate * u + Rate * v /\ Rate * u \in Nat /\ Rate * v \in Nat
  BY <1>1, RateTimes
<1> QED BY <1>1, <1>2

\* The limiter a request finds or makes: what the address was let through before is
\* covered up to now, with the tokens it holds.
LEMMA LimiterNow ==
  ASSUME LimitersSound, NEW ip \in DOMAIN admitted
  PROVE  LET l == GetLimiter(ip)
         IN /\ l \in [tokens : 0 .. Burst, at : {time}, seen : {time}]
            /\ \A i \in DOMAIN admitted[ip] :
                 l.tokens + Since(ip, i) <= Burst + Rate * (time - admitted[ip][i])
<1> DEFINE a == admitted[ip]
<1>1. /\ time \in Nat /\ a \in Seq(0 .. time) /\ Burst \in Nat
      /\ \A i \in DOMAIN a : a[i] \in Nat /\ a[i] <= time /\ Since(ip, i) \in Int
  BY LimiterAssumption DEF LimitersSound, Since
<1>2. CASE ip \notin DOMAIN limiters
  <2>1. GetLimiter(ip) = [tokens |-> Burst, at |-> time, seen |-> time]
    BY <1>2 DEF GetLimiter
  <2>2. ASSUME NEW i \in DOMAIN a PROVE Burst + Since(ip, i) <= Burst + Rate * (time - a[i])
    <3> DEFINE x == Rate * (time - a[i])
    <3>1. Since(ip, i) <= x
      BY <1>2 DEF LimitersSound, Forgotten
    <3>2. a[i] \in Nat /\ a[i] <= time
      BY <1>1
    <3>3. x \in Nat
      <4> DEFINE d == time - a[i]
      <4>1. d \in Nat
        BY <3>2, <1>1
      <4> HIDE DEF d
      <4>2. Rate * d \in Nat
        BY <4>1, RateTimes
      <4> QED BY <4>2 DEF d
    <3> HIDE DEF x
    <3>4. Burst + Since(ip, i) <= Burst + x
      BY <1>1, <3>1, <3>3
    <3> QED BY <3>4 DEF x
  <2> QED BY <2>1, <2>2, <1>1
<1>3. CASE ip \in DOMAIN limiters
  <2> DEFINE l == limiters[ip]
             more == Rate * (time - l.at)
             now == IF l.tokens + more < Burst THEN l.tokens + more ELSE Burst
  <2>1. l \in [tokens : 0 .. Burst, at : 0 .. time, seen : 0 .. time]
    BY <1>3 DEF LimitersSound, Accounted
  <2>2. l.at \in Nat /\ l.at <= time /\ l.tokens \in Nat
    BY <2>1, <1>1
  <2>3. more \in Nat
    <3> DEFINE d == time - l.at
    <3>1. d \in Nat
      BY <2>2, <1>1
    <3> HIDE DEF d
    <3>2. Rate * d \in Nat
      BY <3>1, RateTimes
    <3> QED BY <3>2 DEF d
  <2>4. GetLimiter(ip) = [tokens |-> now, at |-> time, seen |-> time]
    BY <1>3, <2>1 DEF GetLimiter, Seen
  <2>5. now \in 0 .. Burst /\ now <= l.tokens + more
    <3> HIDE DEF more, l
    <3> QED BY <2>2, <2>3, <1>1
  <2>6. ASSUME NEW i \in DOMAIN a PROVE now + Since(ip, i) <= Burst + Rate * (time - a[i])
    <3> DEFINE x == Rate * (l.at - a[i])
               y == Rate * (time - a[i])
    <3>1. a[i] <= l.at /\ l.tokens + Since(ip, i) <= Burst + x
      BY <1>3 DEF LimitersSound, Accounted
    <3>2. a[i] \in Nat /\ Since(ip, i) \in Int
      BY <1>1
    <3>3. y = more + x /\ x \in Nat
      BY <2>2, <3>1, <3>2, <1>1, RateElapsed
    <3>4. now \in Int
      BY <2>5
    <3> HIDE DEF x, y, now, more, l, a
    <3>5. now + Since(ip, i) <= Burst + y
      BY <3>1, <3>2, <3>3, <3>4, <2>2, <2>3, <2>5, <1>1
    <3> QED BY <3>5 DEF y
  <2> HIDE DEF now, l
  <2> QED BY <2>4, <2>5, <2>6
<1> QED BY <1>2, <1>3

\* A sequence, and what it becomes when an element may be appended to it.
LEMMA Appended ==
  ASSUME NEW S, NEW a \in Seq(S), NEW x \in S, NEW ok \in BOOLEAN,
         NEW b, b = IF ok THEN Append(a, x) ELSE a
  PROVE  /\ b \in Seq(S) /\ Len(a) \in Nat /\ Len(b) = Len(a) + (IF ok THEN 1 ELSE 0)
         /\ \A i \in DOMAIN a : i \in Nat /\ a[i] \in S
         /\ \A i \in DOMAIN b :
              /\ i \in Nat /\ b[i] \in S
              /\ \/ ok /\ i = Len(a) + 1 /\ b[i] = x
                 \/ i \in DOMAIN a /\ b[i] = a[i]
<1>1. CASE ok
  BY <1>1
<1>2. CASE ~ok
  BY <1>2
<1> QED BY <1>1, <1>2

\* A request is let through or refused.
LEMMA AllowStep ==
  ASSUME RateInv, NEW c, Allow(c)
  PROVE  RateInv'
<1>0. PICK ip : ip = http[c].ip
  OBVIOUS
<1>l. PICK l : l = GetLimiter(ip)
  OBVIOUS
<1>o. PICK ok \in BOOLEAN : ok <=> l.tokens >= 1
  OBVIOUS
<1>k. PICK left : left = IF ok THEN [l EXCEPT !.tokens = @ - 1] ELSE l
  OBVIOUS
<1>1. /\ limiters' = Put(limiters, ip, left)
      /\ admitted' = IF ok THEN [admitted EXCEPT ![ip] = Append(@, time)] ELSE admitted
      /\ time' = time
  BY <1>0, <1>l, <1>k, <1>o DEF Allow
<1>2. /\ DOMAIN limiters' = DOMAIN limiters \cup {ip}
      /\ limiters'[ip] = left
      /\ \A x \in DOMAIN limiters : x # ip => limiters'[x] = limiters[x]
  BY <1>1 DEF Put
<1>3. /\ DOMAIN admitted' = DOMAIN admitted
      /\ \A x \in DOMAIN admitted : x # ip => admitted'[x] = admitted[x]
      /\ time \in Nat
  <2> QED BY <1>1 DEF RateInv, LimitersSound
<1>4. \A x \in DOMAIN admitted :
        x # ip => /\ IF x \in DOMAIN limiters' THEN Accounted(x)' ELSE Forgotten(x)'
                  /\ admitted'[x] \in Seq(0 .. time)
                  /\ \A i, j \in DOMAIN admitted'[x] :
                       i <= j => j - i + 1 <= Burst + Rate * (admitted'[x][j] - admitted'[x][i])
  <2> TAKE x \in DOMAIN admitted
  <2> HAVE x # ip
  <2>1. admitted'[x] = admitted[x] /\ (x \in DOMAIN limiters' <=> x \in DOMAIN limiters)
    BY <1>2, <1>3
  <2>2. x \in DOMAIN limiters => limiters'[x] = limiters[x]
    BY <1>2
  <2>3. IF x \in DOMAIN limiters THEN Accounted(x) ELSE Forgotten(x)
    BY DEF RateInv, LimitersSound
  <2> QED
    BY <1>1, <2>1, <2>2, <2>3 DEF RateInv, LimitersSound, RateHolds, Accounted, Forgotten, Since
<1>5. ASSUME ip \in DOMAIN admitted
      PROVE  /\ Accounted(ip)' /\ admitted'[ip] \in Seq(0 .. time)
             /\ \A i, j \in DOMAIN admitted'[ip] :
                  i <= j => j - i + 1 <= Burst + Rate * (admitted'[ip][j] - admitted'[ip][i])
  <2> DEFINE a == admitted[ip]
             b == admitted'[ip]
  <2>1. /\ l \in [tokens : 0 .. Burst, at : {time}, seen : {time}]
        /\ \A i \in DOMAIN a : l.tokens + Since(ip, i) <= Burst + Rate * (time - a[i])
    BY <1>5, <1>l, LimiterNow DEF RateInv
  <2>2. a \in Seq(0 .. time) /\ b = IF ok THEN Append(a, time) ELSE a
    <3> QED BY <1>1, <1>5 DEF RateInv, LimitersSound
  <2> HIDE DEF b
  <2>3. /\ b \in Seq(0 .. time) /\ Len(a) \in Nat /\ Len(b) = Len(a) + (IF ok THEN 1 ELSE 0)
        /\ \A i \in DOMAIN a : i \in Nat /\ a[i] \in 0 .. time
        /\ \A i \in DOMAIN b :
             /\ i \in Nat /\ b[i] \in 0 .. time
             /\ \/ ok /\ i = Len(a) + 1 /\ b[i] = time
                \/ i \in DOMAIN a /\ b[i] = a[i]
    <3> DEFINE T == 0 .. time
    <3>1. time \in T /\ a \in Seq(T)
      BY <1>3, <2>2
    <3>2. b = IF ok THEN Append(a, time) ELSE a
      BY <2>2
    <3> HIDE DEF T, a
    <3>3. /\ b \in Seq(T) /\ Len(a) \in Nat /\ Len(b) = Len(a) + (IF ok THEN 1 ELSE 0)
          /\ \A i \in DOMAIN a : i \in Nat /\ a[i] \in T
          /\ \A i \in DOMAIN b :
               /\ i \in Nat /\ b[i] \in T
               /\ \/ ok /\ i = Len(a) + 1 /\ b[i] = time
                  \/ i \in DOMAIN a /\ b[i] = a[i]
      BY <3>1, <3>2, Appended
    <3> QED BY <3>3 DEF T
  <2>4. /\ left \in [tokens : 0 .. Burst, at : {time}, seen : {time}]
        /\ left.tokens = IF ok THEN l.tokens - 1 ELSE l.tokens
        /\ l.tokens \in 0 .. Burst
    BY <2>1, <1>k, <1>o, LimiterAssumption
  <2>5. /\ \A i \in DOMAIN b : b[i] \in 0 .. time /\ i \in Nat /\ b[i] \in Nat /\ b[i] <= time
        /\ \A i \in DOMAIN a : a[i] \in 0 .. time /\ i \in Nat /\ a[i] \in Nat
    <3> HIDE DEF a
    <3> QED BY <2>3, <1>3
  <2>6. Burst \in Nat /\ Rate \in Nat
    BY LimiterAssumption
  <2>7. ASSUME NEW i \in DOMAIN b
        PROVE  left.tokens + Len(b) - i + 1 <= Burst + Rate * (time - b[i])
    <3>1. CASE ok /\ i = Len(a) + 1
      <4>1. b[i] = time /\ Len(b) = i /\ i \in Nat
        BY <3>1, <2>3
      <4>2. Rate * (time - b[i]) = 0
        <5>1. time - b[i] = 0
          BY <4>1, <1>3
        <5> QED BY <5>1, <2>6
      <4> QED BY <4>1, <4>2, <2>4, <2>6, <3>1
    <3>2. CASE i \in DOMAIN a /\ b[i] = a[i]
      <4> DEFINE x == Rate * (time - a[i])
      <4>1. l.tokens + Since(ip, i) <= Burst + x
        BY <2>1, <3>2
      <4>2. Len(b) = Len(a) + (IF ok THEN 1 ELSE 0) /\ Len(a) \in Nat /\ i \in Nat
        BY <2>3, <3>2
      <4>3. x \in Int
        <5>1. a[i] \in Int
          BY <3>2, <2>5
        <5> QED BY <5>1, <2>6, <1>3
      <4>4. Since(ip, i) = Len(a) - i + 1
        BY DEF Since
      <4> HIDE DEF x, a
      <4>5. l.tokens \in Int /\ left.tokens = l.tokens - (IF ok THEN 1 ELSE 0)
        BY <2>4, <2>6
      <4> DEFINE t == l.tokens
                 u == left.tokens
                 m == Len(a)
                 n == Len(b)
      <4>6. /\ t \in Int /\ m \in Int /\ i \in Int
            /\ u = t - (IF ok THEN 1 ELSE 0) /\ n = m + (IF ok THEN 1 ELSE 0)
            /\ t + (m - i + 1) <= Burst + x
        BY <4>1, <4>2, <4>4, <4>5
      <4> HIDE DEF t, u, m, n
      <4>7. u + n - i + 1 <= Burst + x
        BY <4>3, <4>6, <2>6
      <4> QED BY <4>7, <3>2 DEF x, u, n
    <3>3. (ok /\ i = Len(a) + 1) \/ (i \in DOMAIN a /\ b[i] = a[i])
      <4> HIDE DEF a
      <4> QED BY <2>3
    <3> QED BY <3>1, <3>2, <3>3
  <2>8. Accounted(ip)'
    <3>1. limiters'[ip] = left /\ time' = time
      BY <1>1, <1>2
    <3>2. left \in [tokens : 0 .. Burst, at : 0 .. time, seen : 0 .. time] /\ left.at = time
          /\ left.seen = time
      BY <2>4, <1>3
    <3>3. \A i \in DOMAIN b : b[i] <= time
      BY <2>5, <1>3
    <3>4. \A i \in DOMAIN b : left.tokens + (Len(b) - i + 1) <= Burst + Rate * (time - b[i])
      <4> TAKE i \in DOMAIN b
      <4>1. left.tokens \in Int /\ Len(b) \in Int /\ i \in Int
        BY <2>3, <2>4, <2>6
      <4> QED BY <2>7, <4>1
    <3> QED BY <3>1, <3>2, <3>3, <3>4 DEF Accounted, Since, b
  <2>9. \A i, j \in DOMAIN b : i <= j => j - i + 1 <= Burst + Rate * (b[j] - b[i])
    <3> TAKE i, j \in DOMAIN b
    <3> HAVE i <= j
    <3>1. CASE ok /\ j = Len(a) + 1
      <4> DEFINE x == Rate * (time - b[i])
      <4>1. b[j] = time /\ Len(b) = j /\ j \in Nat /\ i \in Nat
        BY <3>1, <2>3
      <4>2. left.tokens + Len(b) - i + 1 <= Burst + x
        BY <2>7
      <4>3. x \in Int
        BY <2>5, <2>6, <1>3
      <4> HIDE DEF x
      <4>4. j - i + 1 <= Burst + x
        BY <4>1, <4>2, <4>3, <2>4, <2>6
      <4> QED BY <4>1, <4>4 DEF x
    <3>2. CASE j \in DOMAIN a /\ b[j] = a[j]
      <4>1. i \in DOMAIN a /\ b[i] = a[i]
        BY <2>2, <3>2
      <4>2. ip \in DOMAIN admitted
        BY <1>5
      <4> QED BY <3>2, <4>1, <4>2 DEF RateInv, RateHolds
    <3>3. (ok /\ j = Len(a) + 1) \/ (j \in DOMAIN a /\ b[j] = a[j])
      <4> HIDE DEF a
      <4> QED BY <2>3
    <3> QED BY <3>1, <3>2, <3>3
  <2> QED BY <2>3, <2>8, <2>9 DEF b
<1>6. ip \in DOMAIN limiters'
  BY <1>2
<1>7. admitted' \in [DOMAIN admitted' -> Seq(0 .. time)]
  <2>1. admitted' = [x \in DOMAIN admitted' |-> admitted'[x]]
    BY <1>1 DEF RateInv, LimitersSound
  <2>2. \A x \in DOMAIN admitted' : admitted'[x] \in Seq(0 .. time)
    BY <1>3, <1>4, <1>5
  <2> QED BY <2>1, <2>2
<1>8. LimitersSound'
  BY <1>1, <1>3, <1>4, <1>5, <1>6, <1>7 DEF LimitersSound
<1>9. RateHolds'
  BY <1>3, <1>4, <1>5 DEF RateHolds
<1> QED BY <1>8, <1>9 DEF RateInv

\* An idle limiter is forgotten: the rate alone has since covered what the burst did.
LEMMA SweepStep ==
  ASSUME RateInv, Sweep
  PROVE  RateInv'
<1> DEFINE kept == {ip \in DOMAIN limiters : time - limiters[ip].seen <= StaleAfter}
<1>1. /\ DOMAIN limiters' = kept
      /\ \A ip \in kept : limiters'[ip] = limiters[ip]
      /\ time' = time /\ admitted' = admitted
  BY DEF Sweep, Restrict
<1>2. Rate \in Nat /\ Burst \in Nat /\ StaleAfter \in Nat /\ StaleAfter * Rate >= Burst /\ time \in Nat
  BY LimiterAssumption DEF RateInv, LimitersSound
<1>3. ASSUME NEW ip \in DOMAIN admitted
      PROVE  IF ip \in DOMAIN limiters' THEN Accounted(ip)' ELSE Forgotten(ip)'
  <2>1. CASE ip \in kept
    BY <1>1, <2>1 DEF RateInv, LimitersSound, Accounted, Since
  <2>2. CASE ip \notin kept /\ ip \notin DOMAIN limiters
    BY <1>1, <2>2 DEF RateInv, LimitersSound, Forgotten, Since
  <2>3. CASE ip \notin kept /\ ip \in DOMAIN limiters
    <3> DEFINE l == limiters[ip]
               a == admitted[ip]
    <3>1. Accounted(ip) /\ a \in Seq(0 .. time)
      BY <2>3 DEF RateInv, LimitersSound
    <3>2. l.at \in Nat /\ l.at <= time /\ l.tokens \in Nat /\ time - l.at > StaleAfter
      BY <1>2, <2>3, <3>1 DEF Accounted
    <3>3. ASSUME NEW i \in DOMAIN a PROVE Since(ip, i) <= Rate * (time - a[i])
      <4>1. a[i] \in 0 .. time /\ Len(a) \in Nat /\ i \in Nat
        <5> DEFINE T == 0 .. time
        <5>1. a \in Seq(T)
          BY <3>1
        <5> HIDE DEF T, a
        <5>2. a[i] \in T /\ Len(a) \in Nat /\ i \in Nat
          BY <5>1, <3>3
        <5> QED BY <5>2 DEF T
      <4>2. a[i] <= l.at /\ l.tokens + Since(ip, i) <= Burst + Rate * (l.at - a[i])
        BY <3>1 DEF Accounted
      <4>3. Since(ip, i) \in Int
        BY <4>1 DEF Since
      <4> DEFINE x == a[i]
                 y == l.at
                 d == (time - y) - StaleAfter
                 t == l.tokens
      <4>4. x \in Nat /\ y \in Nat /\ x <= y /\ y <= time /\ d \in Nat /\ time - y = StaleAfter + d
        BY <1>2, <3>2, <4>1, <4>2
      <4>5. t \in Nat /\ t + Since(ip, i) <= Burst + Rate * (y - x)
        BY <3>2, <4>2
      <4> HIDE DEF x, y, d, t
      <4>6. Rate * (time - x) = Rate * (StaleAfter + d) + Rate * (y - x)
        BY <1>2, <4>4, RateElapsed
      <4>7. Rate * (StaleAfter + d) >= Rate * StaleAfter /\ Rate * (StaleAfter + d) \in Nat
        BY <1>2, <4>4, RateTimes
      <4>8. Rate * StaleAfter >= Burst
        BY <1>2
      <4>9. Rate * (y - x) \in Nat /\ Rate * StaleAfter \in Nat
        BY <1>2, <4>4, RateElapsed
      <4> DEFINE p == Rate * (StaleAfter + d)
                 q == Rate * (y - x)
                 r == Rate * StaleAfter
      <4>10. /\ p >= r /\ r >= Burst /\ p \in Nat /\ q \in Nat /\ r \in Nat
             /\ t + Since(ip, i) <= Burst + q
        BY <4>5, <4>7, <4>8, <4>9
      <4> HIDE DEF p, q, r
      <4>11. Since(ip, i) <= p + q
        BY <4>3, <4>5, <4>10, <1>2
      <4> QED BY <4>6, <4>11 DEF p, q, x
    <3>4. ip \notin DOMAIN limiters'
      BY <1>1, <2>3
    <3>5. Forgotten(ip)'
      BY <1>1, <3>3 DEF Forgotten, Since
    <3> QED BY <3>4, <3>5
  <2> QED BY <2>1, <2>2, <2>3
<1>4. LimitersSound'
  BY <1>1, <1>3 DEF RateInv, LimitersSound
<1> QED BY <1>1, <1>4 DEF RateInv, RateHolds

\* Time passes: what the rate covers grows.
LEMMA ClockStep ==
  ASSUME RateInv, TimePasses
  PROVE  RateInv'
<1>1. time' = time + 1 /\ limiters' = limiters /\ admitted' = admitted
  BY DEF TimePasses
<1>2. time \in Nat /\ admitted \in [DOMAIN admitted -> Seq(0 .. time)]
  BY DEF RateInv, LimitersSound
<1>3. admitted' \in [DOMAIN admitted' -> Seq(0 .. time')]
  <2>1. \A ip \in DOMAIN admitted : admitted[ip] \in Seq(0 .. (time + 1))
    <3> TAKE ip \in DOMAIN admitted
    <3> DEFINE S == 0 .. time
               T == 0 .. (time + 1)
    <3>1. admitted[ip] \in Seq(S) /\ S \subseteq T
      BY <1>2
    <3> HIDE DEF S, T
    <3>2. admitted[ip] \in Seq(T)
      BY <3>1
    <3> QED BY <3>2 DEF T
  <2> QED BY <1>1, <1>2, <2>1
<1>4. ASSUME NEW ip \in DOMAIN admitted
      PROVE  IF ip \in DOMAIN limiters' THEN Accounted(ip)' ELSE Forgotten(ip)'
  <2> DEFINE a == admitted[ip]
  <2>1. \A i \in DOMAIN a : a[i] \in 0 .. time /\ i \in Nat /\ Since(ip, i) \in Int
    BY <1>2 DEF Since
  <2>2. CASE ip \in DOMAIN limiters
    <3>1. Accounted(ip)
      BY <2>2 DEF RateInv, LimitersSound
    <3>2. 0 .. time \subseteq 0 .. (time + 1)
      BY <1>2
    <3>3. limiters[ip] \in [tokens : 0 .. Burst, at : 0 .. (time + 1), seen : 0 .. (time + 1)]
      BY <3>1, <3>2 DEF Accounted
    <3>4. Accounted(ip)'
      BY <1>1, <3>1, <3>3 DEF Accounted, Since
    <3> QED BY <1>1, <2>2, <3>4
  <2>3. CASE ip \notin DOMAIN limiters
    <3>1. ASSUME NEW i \in DOMAIN a PROVE Since(ip, i) <= Rate * (time' - a[i])
      <4> DEFINE d == time - a[i]
      <4>1. d \in Nat /\ time' - a[i] = d + 1 /\ Since(ip, i) \in Int
        BY <1>1, <1>2, <2>1
      <4>2. Since(ip, i) <= Rate * d
        BY <2>3 DEF RateInv, LimitersSound, Forgotten
      <4> HIDE DEF d
      <4>3. Rate * d <= Rate * (d + 1) /\ Rate * d \in Nat /\ Rate * (d + 1) \in Nat
        <5>1. Rate * (d + 1) = Rate * d + Rate /\ Rate * d \in Nat
          BY <4>1, LimiterAssumption
        <5> QED BY <5>1, LimiterAssumption
      <4>4. Since(ip, i) <= Rate * (d + 1)
        BY <4>1, <4>2, <4>3
      <4> QED BY <4>1, <4>4
    <3>2. \A i \in DOMAIN admitted'[ip] : Since(ip, i)' <= Rate * (time' - admitted'[ip][i])
      BY <1>1, <3>1 DEF Since
    <3>3. Forgotten(ip)'
      BY <3>2 DEF Forgotten
    <3> QED BY <1>1, <2>3, <3>3
  <2> QED BY <2>2, <2>3
<1>5. LimitersSound'
  BY <1>1, <1>2, <1>3, <1>4 DEF LimitersSound
<1> QED BY <1>1, <1>5 DEF RateInv, RateHolds

\* Only these three touch the limiters, the clock and what has been let through.
LEMMA LimiterSteps ==
  ASSUME [ServiceNext]_vars
  PROVE  \/ \E c \in Callers : Allow(c)
         \/ Sweep
         \/ TimePasses
         \/ UNCHANGED <<time, limiters, admitted>>
<1>1. CASE UNCHANGED vars
  BY <1>1 DEF vars, apiVars
<1>2. CASE \E s \in Syncers : SyncStep(s) /\ UNCHANGED <<apiVars, shimVars>>
  BY <1>2 DEF apiVars
<1>3. CASE \E c \in Callers : ApiStep(c) /\ UNCHANGED shimVars
  BY <1>3 DEF ApiStep, Preflight, QueryFirst, QuerySecond, QueryFails
<1>4. CASE (Sweep \/ ReportStored \/ ReportAnalysed \/ TimePasses) /\ UNCHANGED shimVars
  BY <1>4 DEF ReportStored, ReportAnalysed
<1>5. CASE \E b \in Browsers : BrowserAsks(b)
  BY <1>5 DEF BrowserAsks
<1>6. CASE \/ ClientWrites \/ ClientCloses \/ ClientTurns \/ ShimKilled \/ LoopStep
           \/ ReadInterrupted \/ \E i \in Lines : CallStep(i)
  BY <1>6 DEF ClientWrites, ClientCloses, ClientTurns, ShimKilled, LoopStep, LoopTop, ReadLine,
              ReadEnds, ReadInterrupted, WriteFails,
              ServeReturns, CallStep, HandleRequest, UpstreamAnswers, UpstreamFails,
              WriteMessage, apiVars
<1> QED BY <1>1, <1>2, <1>3, <1>4, <1>5, <1>6 DEF ServiceNext

\* No address gets more requests through in any stretch of time than the burst and
\* what the rate gives for its length, however the sweep forgets its limiter.
THEOREM RateIsKept == ServiceSpec => []RateHolds
<1>1. ServiceInit => RateInv
  <2> SUFFICES ASSUME ServiceInit PROVE RateInv
    OBVIOUS
  <2>1. time = 0 /\ limiters = <<>> /\ admitted = [ip \in world.addresses |-> <<>>]
    BY DEF ServiceInit, ApiInit
  <2>2. DOMAIN limiters = {} /\ <<>> \in Seq(0 .. time)
    BY <2>1
  <2> QED BY <2>1, <2>2 DEF RateInv, LimitersSound, Forgotten, RateHolds
<1>2. RateInv /\ [ServiceNext]_vars => RateInv'
  <2> SUFFICES ASSUME RateInv, [ServiceNext]_vars PROVE RateInv'
    OBVIOUS
  <2>1. CASE UNCHANGED <<time, limiters, admitted>>
    BY <2>1 DEF RateInv, LimitersSound, Accounted, Forgotten, Since, RateHolds
  <2> QED BY <2>1, LimiterSteps, AllowStep, SweepStep, ClockStep
<1>3. RateInv => RateHolds
  BY DEF RateInv
<1> QED BY <1>1, <1>2, <1>3, PTL DEF ServiceSpec

-----------------------------------------------------------------------------
(* The companies task.                                                         *)

Running(s) == sync[s].pc # "off"
Runs == [pc : {"next", "create", "update"}, list : world.lists, i : Nat, alone : BOOLEAN]
\* The entries a run has gone through, and those of them no later one repeats.
Through(s) == 1 .. sync[s].i - 1
LastOf(s, k) == \A j \in k + 1 .. sync[s].i - 1 : sync[s].list[j].corp # sync[s].list[k].corp
\* The row of an entry's company has the values the entry gave.
Holds(e) ==
  LET row == roster[e.corp]
  IN /\ row.modified = e.modified
     /\ e.name # NoName => row.name = e.name
     /\ e.eng # NoName => row.eng = e.eng

SyncTypes ==
  /\ world \in Worlds
  /\ sync \in [Syncers -> {SyncOff} \cup Runs]
  /\ \A s \in Syncers :
       Running(s) => /\ sync[s].i \in 1 .. Len(sync[s].list) + 1
                     /\ sync[s].pc # "next" => sync[s].i <= Len(sync[s].list)
  /\ \A c \in DOMAIN roster : {"name", "eng", "modified"} \subseteq DOMAIN roster[c]

\* What a run has gone through is in the table, and what it is about to update too.
Passed ==
  \A s \in Syncers :
    Running(s) => /\ \A k \in Through(s) : sync[s].list[k].corp \in DOMAIN roster
                  /\ sync[s].pc = "update" => Entry(s).corp \in DOMAIN roster

\* While nobody else has been at it, the table holds the values the run has given.
AloneKept ==
  \A s \in Syncers :
    Running(s) /\ sync[s].alone =>
      /\ \A t \in Syncers : t # s => ~Running(t)
      /\ \A k \in Through(s) : LastOf(s, k) => Holds(sync[s].list[k])

RosterInv == SyncTypes /\ Passed /\ AloneKept

\* A list is a sequence.
LEMMA ListIsSequence ==
  ASSUME SyncTypes, NEW s \in Syncers, Running(s)
  PROVE  /\ sync[s] \in Runs
         /\ Len(sync[s].list) \in Nat /\ DOMAIN sync[s].list = 1 .. Len(sync[s].list)
<1>1. sync[s] \in Runs /\ sync[s].list \in world.lists
  BY DEF SyncTypes, Running, SyncOff, Runs
<1> DEFINE list == sync[s].list
           R == Range(list)
<1>2. list \in Seq(R)
  BY <1>1, WorldsAssumption DEF SyncTypes
<1> HIDE DEF list, R
<1>3. Len(list) \in Nat /\ DOMAIN list = 1 .. Len(list)
  BY <1>2
<1> QED BY <1>1, <1>3 DEF list

\* A run begins: it has gone through nothing, and nobody is alone with another.
LEMMA StartStep ==
  ASSUME RosterInv, NEW s \in Syncers, SyncStart(s)
  PROVE  RosterInv'
<1> DEFINE others == {t \in Syncers \ {s} : sync[t].pc # "off"}
<1>0. PICK alone \in BOOLEAN : alone = (others = {})
  OBVIOUS
<1>1. PICK list \in world.lists :
        sync' = [t \in Syncers |->
            IF t = s THEN [pc |-> "next", list |-> list, i |-> 1, alone |-> alone]
            ELSE IF t \in others THEN [sync[t] EXCEPT !.alone = FALSE] ELSE sync[t]]
  BY <1>0 DEF SyncStart
<1>2. world' = world /\ roster' = roster /\ world \in Worlds
  BY DEF SyncStart, RosterInv, SyncTypes
<1>3. Len(list) \in Nat
  <2> DEFINE R == Range(list)
  <2>1. list \in Seq(R)
    BY <1>2, WorldsAssumption
  <2> HIDE DEF R
  <2> QED BY <2>1
<1>4. sync'[s] = [pc |-> "next", list |-> list, i |-> 1, alone |-> alone]
  BY <1>1
<1>5. \A t \in others : /\ sync[t] \in Runs /\ sync'[t] \in Runs /\ ~sync'[t].alone
                        /\ sync'[t].pc = sync[t].pc /\ sync'[t].list = sync[t].list
                        /\ sync'[t].i = sync[t].i
  <2> TAKE t \in others
  <2>1. sync[t] \in Runs
    BY ListIsSequence DEF RosterInv, Running
  <2>2. sync'[t] = [sync[t] EXCEPT !.alone = FALSE]
    BY <1>1
  <2> HIDE DEF others
  <2> QED BY <2>1, <2>2 DEF Runs
<1>6. \A t \in Syncers \ {s} : t \notin others => sync'[t] = sync[t] /\ ~Running(t)
  BY <1>1 DEF Running
<1>7. sync[s].pc = "off"
  BY DEF SyncStart
<1> HIDE DEF others
<1>8. SyncTypes'
  <2>1. \A t \in Syncers : sync'[t] \in {SyncOff} \cup Runs
    <3> TAKE t \in Syncers
    <3>1. CASE t = s
      BY <1>2, <1>4, <3>1 DEF Runs
    <3>2. CASE t \in others
      BY <1>5, <3>2
    <3>3. CASE t # s /\ t \notin others
      BY <1>6, <3>3 DEF RosterInv, SyncTypes
    <3> QED BY <3>1, <3>2, <3>3
  <2>2. sync' \in [Syncers -> {SyncOff} \cup Runs']
    BY <1>1, <1>2, <2>1 DEF Runs
  <2>3. ASSUME NEW t \in Syncers, Running(t)'
        PROVE  /\ sync'[t].i \in 1 .. Len(sync'[t].list) + 1
               /\ sync'[t].pc # "next" => sync'[t].i <= Len(sync'[t].list)
    <3>1. CASE t = s
      BY <1>3, <1>4, <3>1
    <3>2. CASE t # s
      <4>1. t \in others /\ Running(t)
        BY <1>5, <1>6, <2>3, <3>2 DEF Running
      <4> QED BY <4>1, <1>5 DEF RosterInv, SyncTypes
    <3> QED BY <3>1, <3>2
  <2> QED BY <1>2, <2>2, <2>3 DEF RosterInv, SyncTypes, SyncOff
<1>9. Passed'
  <2> SUFFICES ASSUME NEW t \in Syncers, Running(t)'
               PROVE  /\ \A k \in Through(t)' : sync'[t].list[k].corp \in DOMAIN roster'
                      /\ sync'[t].pc = "update" => Entry(t)'.corp \in DOMAIN roster'
    BY DEF Passed
  <2>1. CASE t = s
    BY <1>4, <2>1 DEF Through
  <2>2. CASE t # s
    <3>1. t \in others /\ Running(t)
      BY <1>5, <1>6, <2>2 DEF Running
    <3> QED BY <3>1, <1>2, <1>5 DEF RosterInv, Passed, Through, Entry
  <2> QED BY <2>1, <2>2
<1>10. AloneKept'
  <2> SUFFICES ASSUME NEW t \in Syncers, Running(t)', sync'[t].alone
               PROVE  /\ \A u \in Syncers : u # t => ~Running(u)'
                      /\ \A k \in Through(t)' : LastOf(t, k)' => Holds(sync[t].list[k])'
    BY DEF AloneKept
  <2>0. t = s
    BY <1>5, <1>6 DEF Running
  <2>1. t = s /\ others = {}
    <3>1. ASSUME others # {} PROVE FALSE
      <4>1. alone = FALSE
        BY <1>0, <3>1
      <4>2. sync'[s] = [pc |-> "next", list |-> list, i |-> 1, alone |-> FALSE]
        BY <1>4, <4>1
      <4> QED BY <2>0, <4>2
    <3> QED BY <2>0, <3>1
  <2>2. \A u \in Syncers : u # t => ~Running(u)'
    BY <2>1, <1>6 DEF Running
  <2> QED BY <1>4, <2>1, <2>2 DEF Through
<1> QED BY <1>8, <1>9, <1>10 DEF RosterInv

\* A run looks the next company up.
LEMMA LookUpStep ==
  ASSUME RosterInv, NEW s \in Syncers, LookUp(s)
  PROVE  RosterInv'
<1>1. PICK pc \in {"update", "create"} :
        /\ sync' = [sync EXCEPT ![s].pc = pc]
        /\ pc = "update" => Entry(s).corp \in DOMAIN roster
  BY DEF LookUp
<1>2. /\ world' = world /\ roster' = roster /\ Running(s)
      /\ sync[s].i <= Len(sync[s].list)
  BY DEF LookUp, Running
<1>3. /\ sync[s] \in Runs
      /\ sync'[s] \in Runs /\ sync'[s].pc = pc /\ sync'[s].alone = sync[s].alone
      /\ sync'[s].list = sync[s].list /\ sync'[s].i = sync[s].i
      /\ \A t \in Syncers : t # s => sync'[t] = sync[t]
      /\ sync' \in [Syncers -> {SyncOff} \cup Runs]
  <2>1. sync[s] \in Runs
    BY <1>2, ListIsSequence DEF RosterInv
  <2> QED BY <1>1, <2>1 DEF RosterInv, SyncTypes, Runs
<1>4. \A t \in Syncers : Running(t)' <=> Running(t)
  BY <1>1, <1>2, <1>3 DEF Running
<1>5. SyncTypes'
  BY <1>1, <1>2, <1>3, <1>4 DEF RosterInv, SyncTypes, Runs
<1>6. Passed'
  BY <1>1, <1>2, <1>3, <1>4 DEF RosterInv, Passed, Through, Entry
<1>7. AloneKept'
  BY <1>2, <1>3, <1>4 DEF RosterInv, AloneKept, Through, LastOf, Holds
<1> QED BY <1>5, <1>6, <1>7 DEF RosterInv

\* A company is inserted or its row written; what holds of the others still does.
LEMMA WriteStep ==
  ASSUME RosterInv, NEW s \in Syncers, CreateCompany(s) \/ UpdateCompany(s)
  PROVE  RosterInv'
<1>0. PICK e : e = Entry(s)
  OBVIOUS
<1>1. /\ sync' = [sync EXCEPT ![s].pc = "next", ![s].i = @ + 1]
      /\ world' = world /\ Running(s) /\ sync[s].pc # "next"
  BY DEF CreateCompany, UpdateCompany, Proceed, Running
<1>2. sync[s] \in Runs /\ sync[s].i \in 1 .. Len(sync[s].list) /\ Len(sync[s].list) \in Nat
  BY <1>1, ListIsSequence DEF RosterInv, SyncTypes
<1>3. /\ sync'[s] \in Runs /\ sync'[s].pc = "next" /\ sync'[s].alone = sync[s].alone
      /\ sync'[s].list = sync[s].list /\ sync'[s].i = sync[s].i + 1
      /\ \A t \in Syncers : t # s => sync'[t] = sync[t]
      /\ sync' \in [Syncers -> {SyncOff} \cup Runs]
  BY <1>1, <1>2 DEF RosterInv, SyncTypes, Runs
<1>4. \A t \in Syncers : Running(t)' <=> Running(t)
  BY <1>1, <1>3 DEF Running
<1>5. /\ DOMAIN roster' = DOMAIN roster \cup {e.corp}
      /\ \A c \in DOMAIN roster : c # e.corp => roster'[c] = roster[c]
      /\ {"name", "eng", "modified"} \subseteq DOMAIN roster'[e.corp]
      /\ Holds(e)'
  <2>1. CASE CreateCompany(s)
    BY <2>1, <1>0 DEF CreateCompany, Put, Row, Holds
  <2>2. CASE UpdateCompany(s)
    <3>1. e.corp \in DOMAIN roster /\ {"name", "eng", "modified"} \subseteq DOMAIN roster[e.corp]
      BY <1>0, <1>1, <2>2 DEF RosterInv, SyncTypes, Passed, UpdateCompany
    <3> DEFINE old == roster[e.corp]
               kept(new, was) == IF new = NoName THEN was ELSE new
    <3>2. roster' = [roster EXCEPT ![e.corp] =
            [old EXCEPT !.name = kept(e.name, old.name), !.eng = kept(e.eng, old.eng),
                        !.modified = e.modified]]
      BY <1>0, <2>2 DEF UpdateCompany
    <3> QED BY <3>1, <3>2 DEF Holds
  <2> QED BY <2>1, <2>2
<1>6. SyncTypes'
  <2>1. \A c \in DOMAIN roster' : {"name", "eng", "modified"} \subseteq DOMAIN roster'[c]
    BY <1>5 DEF RosterInv, SyncTypes
  <2>2. \A t \in Syncers :
          Running(t)' => /\ sync'[t].i \in 1 .. Len(sync'[t].list) + 1
                         /\ sync'[t].pc # "next" => sync'[t].i <= Len(sync'[t].list)
    BY <1>2, <1>3, <1>4 DEF RosterInv, SyncTypes
  <2> QED BY <1>1, <1>3, <2>1, <2>2 DEF RosterInv, SyncTypes, Runs
<1>7. Passed'
  <2> SUFFICES ASSUME NEW t \in Syncers, Running(t)'
               PROVE  /\ \A k \in Through(t)' : sync'[t].list[k].corp \in DOMAIN roster'
                      /\ sync'[t].pc = "update" => Entry(t)'.corp \in DOMAIN roster'
    BY DEF Passed
  <2>1. CASE t = s
    <3>1. Through(s)' \subseteq Through(s) \cup {sync[s].i}
      BY <1>2, <1>3 DEF Through
    <3>2. e = sync[s].list[sync[s].i] /\ \A k \in Through(s) : sync[s].list[k].corp \in DOMAIN roster
      BY <1>0, <1>1 DEF RosterInv, Passed, Entry
    <3> QED BY <1>3, <1>5, <2>1, <3>1, <3>2
  <2>2. CASE t # s
    BY <1>3, <1>4, <1>5, <2>2 DEF RosterInv, Passed, Through, Entry
  <2> QED BY <2>1, <2>2
<1>8. AloneKept'
  <2> SUFFICES ASSUME NEW t \in Syncers, Running(t)', sync'[t].alone
               PROVE  /\ \A u \in Syncers : u # t => ~Running(u)'
                      /\ \A k \in Through(t)' : LastOf(t, k)' => Holds(sync[t].list[k])'
    BY DEF AloneKept
  <2>1. t = s /\ sync[s].alone /\ \A u \in Syncers : u # s => ~Running(u)
    BY <1>1, <1>3, <1>4 DEF RosterInv, AloneKept
  <2>2. ASSUME NEW k \in Through(s)', LastOf(s, k)' PROVE Holds(sync[s].list[k])'
    <3>1. CASE k = sync[s].i
      BY <1>0, <1>3, <1>5, <3>1 DEF Entry, Holds
    <3>2. CASE k \in Through(s)
      <4>0. k + 1 .. sync'[s].i - 1 = (k + 1 .. sync[s].i - 1) \cup {sync[s].i}
        BY <1>2, <1>3, <3>2 DEF Through
      <4>1. /\ LastOf(s, k) /\ sync[s].list[k].corp # e.corp
            /\ sync[s].list[k].corp \in DOMAIN roster
        BY <1>0, <1>1, <1>3, <2>2, <3>2, <4>0 DEF LastOf, Entry, RosterInv, Passed
      <4>2. Holds(sync[s].list[k])
        BY <1>1, <2>1, <3>2, <4>1 DEF RosterInv, AloneKept
      <4> QED BY <1>3, <1>5, <4>1, <4>2 DEF Holds
    <3> QED BY <1>2, <1>3, <3>1, <3>2 DEF Through
  <2> QED BY <1>4, <2>1, <2>2
<1> QED BY <1>6, <1>7, <1>8 DEF RosterInv

\* A run ends, in either way; whoever goes on was not alone.
LEMMA EndStep ==
  ASSUME RosterInv, NEW s \in Syncers, SyncFails(s) \/ SyncReturns(s)
  PROVE  RosterInv'
<1>1. sync' = [sync EXCEPT ![s] = SyncOff] /\ world' = world /\ roster' = roster
  BY DEF SyncFails, SyncReturns
<1>2. /\ ~Running(s)' /\ sync' \in [Syncers -> {SyncOff} \cup Runs]
      /\ \A t \in Syncers : t # s => sync'[t] = sync[t]
  BY <1>1 DEF Running, SyncOff, RosterInv, SyncTypes
<1>3. SyncTypes'
  BY <1>1, <1>2 DEF RosterInv, SyncTypes, Running, Runs
<1>4. Passed'
  BY <1>1, <1>2 DEF RosterInv, Passed, Running, Through, Entry
<1>5. AloneKept'
  BY <1>1, <1>2 DEF RosterInv, AloneKept, Running, Through, LastOf, Holds
<1> QED BY <1>3, <1>4, <1>5 DEF RosterInv

\* Only the runs change the table and themselves, and nothing changes the world.
LEMMA RosterSteps ==
  ASSUME [ServiceNext]_vars
  PROVE  (\E s \in Syncers : SyncStep(s)) \/ UNCHANGED <<world, rosterVars>>
<1>1. CASE UNCHANGED vars
  BY <1>1 DEF vars
<1>2. CASE \E s \in Syncers : SyncStep(s) /\ UNCHANGED <<apiVars, shimVars>>
  BY <1>2
<1>3. CASE \E c \in Callers : ApiStep(c) /\ UNCHANGED shimVars
  BY <1>3 DEF ApiStep, Allow, Preflight, QueryFirst, QuerySecond, QueryFails
<1>4. CASE (Sweep \/ ReportStored \/ ReportAnalysed \/ TimePasses) /\ UNCHANGED shimVars
  BY <1>4 DEF Sweep, ReportStored, ReportAnalysed, TimePasses
<1>5. CASE \E b \in Browsers : BrowserAsks(b)
  BY <1>5 DEF BrowserAsks
<1>6. CASE \/ ClientWrites \/ ClientCloses \/ ClientTurns \/ ShimKilled \/ LoopStep
           \/ ReadInterrupted \/ \E i \in Lines : CallStep(i)
  BY <1>6 DEF ClientWrites, ClientCloses, ClientTurns, ShimKilled, LoopStep, LoopTop, ReadLine,
              ReadEnds, ReadInterrupted, WriteFails,
              ServeReturns, CallStep, HandleRequest, UpstreamAnswers, UpstreamFails, WriteMessage
<1> QED BY <1>1, <1>2, <1>3, <1>4, <1>5, <1>6 DEF ServiceNext

LEMMA RosterInductive ==
  RosterInv /\ [ServiceNext]_vars => RosterInv'
<1> SUFFICES ASSUME RosterInv, [ServiceNext]_vars PROVE RosterInv'
  OBVIOUS
<1>1. CASE UNCHANGED <<world, rosterVars>>
  BY <1>1 DEF rosterVars, RosterInv, SyncTypes, Passed, AloneKept, Running, Runs, Through,
              LastOf, Holds, Entry
<1>2. ASSUME NEW s \in Syncers, SyncStep(s) PROVE RosterInv'
  BY <1>2, StartStep, LookUpStep, WriteStep, EndStep DEF SyncStep
<1> QED BY <1>1, <1>2, RosterSteps

\* A run that returns without an error has every company of its list in the table,
\* and when no other run overlapped it, with every value the list gave last, whatever
\* runs failed before it, wherever they stopped and whatever DART's lists were.
THEOREM RosterIsCurrent == ServiceSpec => RosterCurrent
<1>1. ServiceInit => RosterInv
  <2> SUFFICES ASSUME ServiceInit PROVE RosterInv
    OBVIOUS
  <2>1. world \in Worlds /\ roster = world.roster /\ sync = [s \in Syncers |-> SyncOff]
    BY DEF ServiceInit, RosterInit
  <2>2. \A s \in Syncers : ~Running(s)
    BY <2>1 DEF Running, SyncOff
  <2> QED BY <2>1, <2>2, WorldsAssumption DEF RosterInv, SyncTypes, Passed, AloneKept
<1>2. RosterInv => \A s \in Syncers :
        SyncReturns(s) =>
          LET list == sync[s].list
              last(i) == \A j \in i + 1 .. Len(list) : list[j].corp # list[i].corp
          IN \A i \in DOMAIN list :
               /\ list[i].corp \in DOMAIN roster
               /\ sync[s].alone /\ last(i) =>
                    LET row == roster[list[i].corp]
                    IN /\ row.modified = list[i].modified
                       /\ list[i].name # NoName => row.name = list[i].name
                       /\ list[i].eng # NoName => row.eng = list[i].eng
  <2> SUFFICES ASSUME RosterInv, NEW s \in Syncers, SyncReturns(s), NEW i \in DOMAIN sync[s].list
               PROVE  /\ sync[s].list[i].corp \in DOMAIN roster
                      /\ sync[s].alone
                           /\ (\A j \in i + 1 .. Len(sync[s].list) :
                                 sync[s].list[j].corp # sync[s].list[i].corp)
                         => Holds(sync[s].list[i])
    BY Zenon DEF Holds
  <2>1. Running(s) /\ sync[s].i > Len(sync[s].list)
    BY DEF SyncReturns, Complete, Running
  <2>2. Len(sync[s].list) \in Nat /\ DOMAIN sync[s].list = 1 .. Len(sync[s].list)
        /\ sync[s].i - 1 = Len(sync[s].list)
    BY <2>1, ListIsSequence DEF RosterInv, SyncTypes
  <2>3. i \in Through(s)
    BY <2>2 DEF Through
  <2> QED BY <2>1, <2>2, <2>3 DEF RosterInv, Passed, AloneKept, LastOf
<1>3. RosterInv /\ [ServiceNext]_vars => RosterInv'
  BY RosterInductive
<1> QED BY <1>1, <1>2, <1>3, PTL DEF ServiceSpec, RosterCurrent

=============================================================================
