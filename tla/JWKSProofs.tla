------------------------------ MODULE JWKSProofs ------------------------------
(***************************************************************************)
(* Proofs about module JWKS, for any callers, documents, lifetimes and     *)
(* timeout.                                                                *)
(*                                                                         *)
(* That an answer is recent follows from two bounds: what the cache holds  *)
(* was published at most one fetch before the age it is given (Cached),    *)
(* and what a fetch in progress has received was published during it       *)
(* (Received).  Both survive time passing because a fetch is under way     *)
(* whenever something was received (Working), and because what is served   *)
(* has no age (Fresh).                                                     *)
(***************************************************************************)
EXTENDS JWKS, TLAPS

\* A caller is told something only when its call ends.
Waiting == \A c \in Callers : pc[c] # "idle" => answer[c] = Pending

Working == reply # NoDoc => \E c \in Callers : Fetching(c)

Received == reply # NoDoc => \A n \in Names : seen[n][Lookup(reply, n)] <= spent

Cached ==
  keys # NoDoc => \A n \in Names : seen[n][Lookup(keys, n)] <= age + Timeout

\* What is published now has age 0.
Fresh == \A n \in Names : seen[n][Lookup(published, n)] = 0

Inv == TypeOK /\ Fresh /\ Waiting /\ Working /\ Received /\ Cached

-----------------------------------------------------------------------------
(* Numbers and documents *)

\* The lifetime of the keys is positive, whatever is configured
\* (jwks.go:84-89).
LEMMA Numbers ==
  /\ TTL \in Nat \ {0}
  /\ Minute \in Nat /\ Timeout \in Nat /\ Horizon \in Nat
  /\ Timeout < Horizon
  BY ConstantsAssumption, SMT DEF TTL

\* lookupLocked finds a key of the document or none (jwks.go:115-126).
LEMMA LookupType ==
  ASSUME NEW d \in Docs, NEW n \in Names
  PROVE  Lookup(d, n) \in Results
<1>1. d \in [Names -> Results]
  BY ConstantsAssumption
<1>2. CASE n # NoKid
  BY <1>1, <1>2 DEF Lookup
<1>3. CASE n = NoKid /\ \E m \in Names : Usable(d) = {m}
  <2>1. (CHOOSE m \in Names : Usable(d) = {m}) \in Names
    BY <1>3
  <2> QED BY <1>1, <1>3, <2>1 DEF Lookup
<1>4. CASE n = NoKid /\ ~ \E m \in Names : Usable(d) = {m}
  BY <1>4 DEF Lookup, Results
<1> QED BY <1>2, <1>3, <1>4

\* What a served document gives has age 0, the rest keeps its age
\* (jwks.go:115-126).
LEMMA ServingType ==
  ASSUME NEW d, NEW past \in [Names -> [Results -> Ages]]
  PROVE  /\ Serving(d, past) \in [Names -> [Results -> Ages]]
         /\ \A n \in Names, x \in Results :
              /\ Serving(d, past)[n][x] <= past[n][x]
              /\ Lookup(d, n) = x => Serving(d, past)[n][x] = 0
<1>1. 0 \in Ages
  BY Numbers DEF Ages
<1>2. \A n \in Names, x \in Results :
        /\ past[n][x] \in Ages
        /\ Serving(d, past)[n][x] =
             IF Lookup(d, n) = x THEN 0 ELSE past[n][x]
  BY DEF Serving
<1>3. \A a \in Ages : 0 <= a /\ a <= a
  BY Numbers DEF Ages
<1>4. Serving(d, past) \in [Names -> [Results -> Ages]]
  BY <1>1 DEF Serving
<1> QED BY <1>2, <1>3, <1>4

\* An age grows by one at most, and not beyond the horizon (jwks.go:96, 104).
LEMMA OlderType ==
  ASSUME NEW a \in Ages
  PROVE  /\ Older(a) \in Ages
         /\ Older(a) <= a + 1
         /\ \A b \in Ages, t \in Nat : b <= a + t => Older(b) <= Older(a) + t
  BY Numbers DEF Ages, Older

-----------------------------------------------------------------------------
(* The invariant *)

\* Nothing is cached, received or answered at first (jwks.go:74-89).
LEMMA InitInv == Init => Inv
<1> SUFFICES ASSUME Init PROVE Inv
  OBVIOUS
<1> USE DEF Init
<1>1. Horizon \in Ages /\ 0 \in 0 .. Timeout
  BY Numbers DEF Ages
<1>2. [n \in Names |-> [x \in Results |-> Horizon]] \in [Names -> [Results -> Ages]]
  BY <1>1
<1>3. seen \in [Names -> [Results -> Ages]]
  BY <1>2, ServingType
<1>4. TypeOK
  BY <1>1, <1>3 DEF TypeOK
<1>5. Waiting /\ Working /\ Received /\ Cached
  BY DEF Waiting, Working, Received, Cached
<1>6. Fresh
  BY <1>2, ServingType, LookupType DEF Fresh
<1> QED BY <1>4, <1>5, <1>6 DEF Inv

\* The ages after a tick are those of the document served, one older
\* (jwks.go:96, 104).
LEMMA TickSeen ==
  ASSUME TypeOK, Tick
  PROVE  /\ seen' \in [Names -> [Results -> Ages]]
         /\ \A n \in Names, x \in Results :
              /\ seen'[n][x] <= Older(seen[n][x])
              /\ Lookup(published, n) = x => seen'[n][x] = 0
<1> DEFINE past == [n \in Names |-> [x \in Results |-> Older(seen[n][x])]]
<1>1. \A n \in Names, x \in Results : seen[n][x] \in Ages
  BY DEF TypeOK
<1>2. past \in [Names -> [Results -> Ages]]
  BY <1>1, OlderType
<1>3. seen' = Serving(published, past)
  BY DEF Tick
<1>4. \A n \in Names, x \in Results : past[n][x] = Older(seen[n][x])
  OBVIOUS
<1> HIDE DEF past
<1> QED BY <1>2, <1>3, <1>4, ServingType

\* Every step keeps the types (jwks.go:74-160).
LEMMA TypeStep == ASSUME TypeOK, [Next]_vars
                  PROVE  TypeOK'
<1> USE DEF TypeOK
<1>1. ASSUME Tick PROVE TypeOK'
  <2>1. age' \in Ages /\ early' \in Ages
    BY <1>1, OlderType DEF Tick
  <2>2. spent' \in 0 .. Timeout
    BY <1>1, Numbers DEF Tick, InTime
  <2> QED BY <1>1, <2>1, <2>2, TickSeen DEF Tick
<1>2. ASSUME NEW d \in Docs, Publish(d) PROVE TypeOK'
  BY <1>2, ServingType DEF Publish
<1>3. ASSUME NEW c \in Callers, NEW n \in Names, Call(c, n) PROVE TypeOK'
  BY <1>3 DEF Call, endpoint
<1>4. ASSUME NEW c \in Callers, FromCache(c) PROVE TypeOK'
  <2>1. Lookup(keys, kid[c]) \in Results
    BY <1>4, LookupType DEF FromCache, Expired
  <2> QED BY <1>4, <2>1 DEF FromCache, Return, endpoint
<1>5. ASSUME NEW c \in Callers, BeginFetch(c) PROVE TypeOK'
  BY <1>5, Numbers DEF BeginFetch, endpoint, Ages
<1>6. ASSUME NEW c \in Callers, Serve(c) PROVE TypeOK'
  BY <1>6 DEF Serve, endpoint
<1>7. ASSUME NEW c \in Callers, FetchDone(c) PROVE TypeOK'
  <2>1. Lookup(reply, kid[c]) \in Results
    BY <1>7, LookupType DEF FetchDone
  <2>2. 0 \in Ages /\ 0 \in 0 .. Timeout
    BY Numbers DEF Ages
  <2> QED BY <1>7, <2>1, <2>2 DEF FetchDone, Return, endpoint
<1>8. ASSUME NEW c \in Callers, FetchFails(c) PROVE TypeOK'
  <2>1. 0 \in 0 .. Timeout
    BY Numbers
  <2> QED BY <1>8, <2>1 DEF FetchFails, Return, endpoint
<1>9. CASE UNCHANGED vars
  BY <1>9 DEF vars
<1> QED
  BY <1>1, <1>2, <1>3, <1>4, <1>5, <1>6, <1>7, <1>8, <1>9 DEF Next

\* Time passes: each bound grows with what it bounds (jwks.go:88, 96).
LEMMA TickInv == ASSUME Inv, Tick
                 PROVE  Fresh' /\ Waiting' /\ Working' /\ Received' /\ Cached'
<1> USE DEF Inv
<1>0. Fresh'
  BY TickSeen, LookupType DEF Fresh, Tick, TypeOK
<1>1. Waiting' /\ Working'
  BY DEF Tick, Waiting, Working, Fetching
<1>2. Received'
  <2> SUFFICES ASSUME reply # NoDoc, NEW n \in Names
               PROVE  seen'[n][Lookup(reply, n)] <= spent'
    BY DEF Received, Tick
  <2> DEFINE x == Lookup(reply, n)
  <2>1. x \in Results
    BY LookupType DEF TypeOK
  <2>2. spent' = spent + 1
    BY DEF Working, Tick
  <2>3. seen[n][x] <= spent
    BY DEF Received
  <2>4. seen'[n][x] <= Older(seen[n][x]) /\ seen'[n][x] \in Ages
    BY <2>1, TickSeen
  <2>5. seen[n][x] \in Ages
    BY <2>1 DEF TypeOK
  <2>6. Older(seen[n][x]) <= seen[n][x] + 1 /\ Older(seen[n][x]) \in Ages
    BY <2>5, OlderType
  <2>7. spent \in Nat
    BY Numbers DEF TypeOK
  <2> HIDE DEF x
  <2>8. seen'[n][x] <= spent'
    BY <2>2, <2>3, <2>4, <2>5, <2>6, <2>7, Numbers DEF Ages
  <2> QED BY <2>8 DEF x
<1>3. Cached'
  <2> SUFFICES ASSUME keys # NoDoc, NEW n \in Names
               PROVE  seen'[n][Lookup(keys, n)] <= age' + Timeout
    BY DEF Cached, Tick
  <2> DEFINE x == Lookup(keys, n)
  <2>1. x \in Results
    BY LookupType DEF TypeOK
  <2>2. seen[n][x] \in Ages /\ age \in Ages
    BY <2>1 DEF TypeOK
  <2>3. seen[n][x] <= age + Timeout
    BY DEF Cached
  <2>4. Older(seen[n][x]) <= Older(age) + Timeout
    BY <2>2, <2>3, Numbers, OlderType
  <2>5. seen'[n][x] <= Older(seen[n][x]) /\ seen'[n][x] \in Ages
    BY <2>1, TickSeen
  <2>6. Older(seen[n][x]) \in Ages /\ Older(age) \in Ages
    BY <2>2, OlderType
  <2>7. age' = Older(age)
    BY DEF Tick
  <2> HIDE DEF x
  <2>8. seen'[n][x] <= age' + Timeout
    BY <2>4, <2>5, <2>6, <2>7, Numbers DEF Ages
  <2> QED BY <2>8 DEF x
<1> QED BY <1>0, <1>1, <1>2, <1>3

\* A new document makes nothing older (jwks.go:128-129).
LEMMA PublishInv == ASSUME Inv, NEW d \in Docs, Publish(d)
                    PROVE  Fresh' /\ Waiting' /\ Working' /\ Received' /\ Cached'
<1> USE DEF Inv
<1>0. Fresh'
  BY ServingType, LookupType DEF Fresh, Publish, TypeOK
<1>1. Waiting' /\ Working'
  BY DEF Publish, Waiting, Working, Fetching
<1>2. \A n \in Names, x \in Results :
        /\ seen'[n][x] <= seen[n][x]
        /\ seen'[n][x] \in Ages /\ seen[n][x] \in Ages
  BY ServingType DEF Publish, TypeOK
<1>3. \A e \in Docs, n \in Names :
        /\ seen'[n][Lookup(e, n)] <= seen[n][Lookup(e, n)]
        /\ seen'[n][Lookup(e, n)] \in Nat /\ seen[n][Lookup(e, n)] \in Nat
  BY <1>2, LookupType, Numbers DEF Ages
<1>4. spent \in Nat /\ age \in Nat
  BY Numbers DEF TypeOK, Ages
<1>5. Received'
  <2> SUFFICES ASSUME reply # NoDoc, NEW n \in Names
               PROVE  seen'[n][Lookup(reply, n)] <= spent
    BY DEF Received, Publish
  <2> QED BY <1>3, <1>4 DEF Received, TypeOK
<1>6. Cached'
  <2> SUFFICES ASSUME keys # NoDoc, NEW n \in Names
               PROVE  seen'[n][Lookup(keys, n)] <= age + Timeout
    BY DEF Cached, Publish
  <2> QED BY <1>3, <1>4, Numbers DEF Cached, TypeOK
<1> QED BY <1>0, <1>1, <1>5, <1>6

\* What callers and the endpoint do to a fetch (jwks.go:93-160).
LEMMA CallersInv ==
  ASSUME Inv, NEW c \in Callers,
         \/ \E n \in Names : Call(c, n)
         \/ FromCache(c) \/ BeginFetch(c)
         \/ Serve(c) \/ FetchDone(c) \/ FetchFails(c)
  PROVE  Fresh' /\ Waiting' /\ Working' /\ Received' /\ Cached'
<1> USE DEF Inv
<1>0. seen' = seen /\ Fresh'
  BY DEF Fresh, Call, FromCache, BeginFetch, Serve, FetchDone, FetchFails, endpoint
<1>1. ASSUME NEW n \in Names, Call(c, n)
      PROVE  Waiting' /\ Working' /\ Received' /\ Cached'
  BY <1>0, <1>1 DEF Call, Waiting, Working, Received, Cached, Fetching, TypeOK
<1>2. ASSUME FromCache(c)
      PROVE  Waiting' /\ Working' /\ Received' /\ Cached'
  BY <1>0, <1>2
     DEF FromCache, Return, Waiting, Working, Received, Cached, Fetching, TypeOK
<1>3. ASSUME BeginFetch(c)
      PROVE  Waiting' /\ Working' /\ Received' /\ Cached'
  <2>1. reply = NoDoc
    BY <1>3 DEF BeginFetch, Unlocked, Working
  <2> QED
    BY <1>0, <1>3, <2>1
       DEF BeginFetch, Waiting, Working, Received, Cached, TypeOK
<1>4. ASSUME Serve(c)
      PROVE  Waiting' /\ Working' /\ Received' /\ Cached'
  <2>1. \A n \in Names : seen[n][Lookup(published, n)] = 0
    BY DEF Fresh
  <2>2. 0 <= spent
    BY Numbers DEF TypeOK
  <2> QED
    BY <1>0, <1>4, <2>1, <2>2
       DEF Serve, endpoint, Waiting, Working, Received, Cached, Fetching
<1>5. ASSUME FetchDone(c)
      PROVE  Waiting' /\ Working' /\ Received' /\ Cached'
  <2>1. Waiting' /\ Working' /\ Received'
    BY <1>5 DEF FetchDone, Return, Waiting, Working, Received, TypeOK
  <2>2. \A n \in Names : seen[n][Lookup(reply, n)] <= 0 + Timeout
    <3> SUFFICES ASSUME NEW n \in Names
                 PROVE  seen[n][Lookup(reply, n)] <= 0 + Timeout
      OBVIOUS
    <3>1. seen[n][Lookup(reply, n)] <= spent
      BY <1>5 DEF FetchDone, Received
    <3>2. Lookup(reply, n) \in Results
      BY <1>5, LookupType DEF FetchDone, TypeOK
    <3>3. seen[n][Lookup(reply, n)] \in Nat /\ spent \in 0 .. Timeout
      BY <3>2, Numbers DEF TypeOK, Ages
    <3> QED BY <3>1, <3>3, Numbers
  <2>3. keys' = reply /\ age' = 0
    BY <1>5 DEF FetchDone
  <2> QED BY <1>0, <2>1, <2>2, <2>3 DEF Cached
<1>6. ASSUME FetchFails(c)
      PROVE  Waiting' /\ Working' /\ Received' /\ Cached'
  BY <1>0, <1>6
     DEF FetchFails, Return, Waiting, Working, Received, Cached, TypeOK
<1> QED BY <1>0, <1>1, <1>2, <1>3, <1>4, <1>5, <1>6

\* Every step keeps the invariant (jwks.go:93-160).
LEMMA InvStep == Inv /\ [Next]_vars => Inv'
<1> SUFFICES ASSUME Inv, [Next]_vars PROVE Inv'
  OBVIOUS
<1>1. TypeOK'
  BY TypeStep DEF Inv
<1>2. Fresh' /\ Waiting' /\ Working' /\ Received' /\ Cached'
  <2>1. CASE Tick
    BY <2>1, TickInv
  <2>2. CASE \E d \in Docs : Publish(d)
    BY <2>2, PublishInv
  <2>3. CASE \E c \in Callers : \/ \E n \in Names : Call(c, n)
                                \/ FromCache(c) \/ BeginFetch(c)
                                \/ Serve(c) \/ FetchDone(c) \/ FetchFails(c)
    BY <2>3, CallersInv
  <2>4. CASE UNCHANGED vars
    BY <2>4 DEF vars, Inv, Fresh, Waiting, Working, Received, Cached, Fetching
  <2> QED BY <2>1, <2>2, <2>3, <2>4 DEF Next
<1> QED BY <1>1, <1>2 DEF Inv

\* The invariant holds whatever the callers, the endpoint and the clock do
\* (jwks.go:93-160).
THEOREM Invariance == Spec => []Inv
<1>1. Init => Inv
  BY InitInv
<1>2. Inv /\ [Next]_vars => Inv'
  BY InvStep
<1> QED BY <1>1, <1>2, PTL DEF Spec

\* Ages, callers and the fetch under way have their types (jwks.go:74-82).
THEOREM TypeCorrect == Spec => []TypeOK
<1>1. Inv => TypeOK
  BY DEF Inv
<1> QED BY <1>1, Invariance, PTL

-----------------------------------------------------------------------------
(* What callers are told *)

\* An answer from the cache is as recent as the cache is fresh
\* (jwks.go:96-104).
LEMMA CacheTells ==
  ASSUME Inv, NEW c \in Callers, FromCache(c)
  PROVE  Service!Tell(c, Lookup(keys, kid[c]))
<1> USE DEF Inv
<1> DEFINE x == Lookup(keys, kid[c])
<1>1. keys # NoDoc /\ age <= TTL /\ (x = NoKey => age <= Minute)
  <2>1. ~(age > TTL) /\ (x = NoKey => ~(age > Minute)) /\ keys # NoDoc
    BY DEF FromCache, Expired, Stale
  <2>2. age \in Nat /\ TTL \in Nat /\ Minute \in Nat
    BY Numbers DEF TypeOK, Ages
  <2> HIDE DEF x
  <2> QED BY <2>1, <2>2
<1>2. kid[c] \in Names /\ x \in Results
  BY <1>1, LookupType DEF TypeOK
<1>3. seen[kid[c]][x] <= age + Timeout
  BY <1>1, <1>2 DEF Cached
<1>4. seen[kid[c]][x] \in Nat /\ age \in Nat
  BY <1>2, Numbers DEF TypeOK, Ages
<1>5. answer[c] = Pending
  BY DEF FromCache, Waiting
<1>6. /\ answer' = [answer EXCEPT ![c] = x]
      /\ UNCHANGED <<seen, kid>>
  BY DEF FromCache, Return, endpoint
<1> HIDE DEF x
<1>7. /\ seen[kid[c]][x] <= TTL + Timeout
      /\ x = NoKey => seen[kid[c]][x] <= Minute + Timeout
  BY <1>1, <1>3, <1>4, Numbers
<1>8. Service!Tell(c, x)
  BY <1>5, <1>6, <1>7 DEF Service!Tell
<1> QED BY <1>8 DEF x

\* An answer after a fetch is as recent as the fetch is short
\* (jwks.go:97-109).
LEMMA FetchTells ==
  ASSUME Inv, NEW c \in Callers, FetchDone(c)
  PROVE  Service!Tell(c, Lookup(reply, kid[c]))
<1> USE DEF Inv
<1> DEFINE x == Lookup(reply, kid[c])
<1>1. reply # NoDoc
  BY DEF FetchDone
<1>2. kid[c] \in Names /\ x \in Results
  BY <1>1, LookupType DEF TypeOK
<1>3. seen[kid[c]][x] <= spent
  BY <1>1, <1>2 DEF Received
<1>4. seen[kid[c]][x] \in Nat /\ spent \in 0 .. Timeout
  BY <1>2, Numbers DEF TypeOK, Ages
<1>5. answer[c] = Pending
  BY DEF FetchDone, Fetching, Waiting
<1>6. /\ answer' = [answer EXCEPT ![c] = x]
      /\ UNCHANGED <<seen, kid>>
  BY DEF FetchDone, Return, endpoint
<1> HIDE DEF x
<1>7. /\ seen[kid[c]][x] <= TTL + Timeout
      /\ seen[kid[c]][x] <= Minute + Timeout
  BY <1>3, <1>4, Numbers
<1>8. Service!Tell(c, x)
  BY <1>5, <1>6, <1>7 DEF Service!Tell
<1> QED BY <1>8 DEF x

\* A failed fetch says nothing about the key (jwks.go:128-156).
LEMMA FailureTells ==
  ASSUME Inv, NEW c \in Callers, FetchFails(c)
  PROVE  Service!Tell(c, Failed)
<1>1. Failed \notin Keys /\ Failed # NoKey
  BY ConstantsAssumption DEF Results
<1>2. answer[c] = Pending
  BY DEF FetchFails, Fetching, Inv, Waiting
<1> QED BY <1>1, <1>2 DEF FetchFails, Return, endpoint, Service!Tell

\* Time and new documents are the environment's (jwks.go:128-129).
LEMMA EnvironmentPasses ==
  ASSUME Inv, Tick \/ \E d \in Docs : Publish(d)
  PROVE  Service!Pass
<1>1. UNCHANGED <<kid, answer>>
  BY DEF Tick, Publish
<1>2. ASSUME NEW n \in Names, NEW x \in Results
      PROVE  seen'[n][x] <= seen[n][x] + 1
  <2>1. seen[n][x] \in Ages
    BY DEF Inv, TypeOK
  <2>2. CASE Tick
    <3>1. seen'[n][x] \in Ages /\ seen'[n][x] <= Older(seen[n][x])
      BY <2>2, TickSeen DEF Inv
    <3>2. Older(seen[n][x]) \in Ages /\ Older(seen[n][x]) <= seen[n][x] + 1
      BY <2>1, OlderType
    <3> QED BY <2>1, <3>1, <3>2, Numbers DEF Ages
  <2>3. CASE \E d \in Docs : Publish(d)
    <3>1. seen'[n][x] \in Ages /\ seen'[n][x] <= seen[n][x]
      BY <2>3, ServingType DEF Publish, Inv, TypeOK
    <3> QED BY <2>1, <3>1, Numbers DEF Ages
  <2> QED BY <2>2, <2>3
<1> QED BY <1>1, <1>2 DEF Service!Pass, Service!Results, Results

\* The cache implements the service: no key handed out was withdrawn longer
\* ago than TTL and one fetch, no kid is refused that had a key all through the
\* last minute and one fetch (jwks.go:71-73, 93-113).
THEOREM Refinement == Spec => ServiceSpec
<1>1. Init => Service!Init
  <2> SUFFICES ASSUME Init PROVE Service!Init
    OBVIOUS
  <2>1. seen \in [Names -> [Results -> Ages]]
    BY InitInv DEF Inv, TypeOK
  <2>2. Ages \subseteq Nat
    BY Numbers DEF Ages
  <2> QED BY <2>1, <2>2 DEF Init, Service!Init, Service!Results, Results
<1>2. Inv /\ [Next]_vars => [Service!Next]_(Service!vars)
  <2> SUFFICES ASSUME Inv, [Next]_vars
               PROVE  [Service!Next]_(Service!vars)
    OBVIOUS
  <2>1. CASE Tick \/ \E d \in Docs : Publish(d)
    BY <2>1, EnvironmentPasses DEF Service!Next
  <2>2. ASSUME NEW c \in Callers, NEW n \in Names, Call(c, n)
        PROVE  [Service!Next]_(Service!vars)
    BY <2>2 DEF Call, endpoint, Service!Next, Service!Ask
  <2>3. ASSUME NEW c \in Callers, FromCache(c)
        PROVE  [Service!Next]_(Service!vars)
    <3>1. Lookup(keys, kid[c]) \in Results
      BY <2>3, LookupType DEF FromCache, Expired, Inv, TypeOK
    <3> QED BY <2>3, <3>1, CacheTells DEF Service!Next, Service!Results, Results
  <2>4. ASSUME NEW c \in Callers, BeginFetch(c) \/ Serve(c)
        PROVE  [Service!Next]_(Service!vars)
    BY <2>4 DEF BeginFetch, Serve, endpoint, Service!vars
  <2>5. ASSUME NEW c \in Callers, FetchDone(c)
        PROVE  [Service!Next]_(Service!vars)
    <3>1. Lookup(reply, kid[c]) \in Results
      BY <2>5, LookupType DEF FetchDone, Inv, TypeOK
    <3> QED BY <2>5, <3>1, FetchTells DEF Service!Next, Service!Results, Results
  <2>6. ASSUME NEW c \in Callers, FetchFails(c)
        PROVE  [Service!Next]_(Service!vars)
    BY <2>6, FailureTells DEF Service!Next
  <2>7. CASE UNCHANGED vars
    BY <2>7 DEF vars, Service!vars
  <2> QED BY <2>1, <2>2, <2>3, <2>4, <2>5, <2>6, <2>7 DEF Next
<1> QED BY <1>1, <1>2, Invariance, PTL DEF Spec, ServiceSpec, Service!Spec
=============================================================================
