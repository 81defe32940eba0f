--------------------------------- MODULE JWKS ---------------------------------
(***************************************************************************)
(* auth.jwksCache: the signing keys of a JWKS endpoint, cached and shared  *)
(* by the requests that verify tokens (auth/jwks.go).                      *)
(*                                                                         *)
(* The endpoint and the HTTP client are external.  A document stands for   *)
(* what fetchLocked keeps of it: the usable signing key under each kid.    *)
(* Times are ages, counted up to Horizon.  A cache hit and a refusal take  *)
(* no time; a fetch does, and holds the cache's mutex all along.           *)
(***************************************************************************)
EXTENDS Integers

CONSTANTS
  Callers,    \* requests with a token to verify
  Kids, NoKid,      \* key ids; the empty one
  Keys, NoKey,      \* key material; none
  Docs, NoDoc,      \* documents the endpoint may publish; none
  Failed, Pending,  \* answers: an error of the fetch; not answered
  CacheTTL,   \* Config.JWKSCacheTTL
  Hour,       \* the lifetime used instead of a CacheTTL that is not positive
  Minute,     \* how old the keys must be for an early fetch
  Timeout,    \* the HTTP client's, for one fetch
  Horizon     \* bound: ages are counted up to here

Names   == Kids \cup {NoKid}
Results == Keys \cup {NoKey}
Ages    == 0 .. Horizon

\* newJWKSCache
TTL == IF CacheTTL <= 0 THEN Hour ELSE CacheTTL

ASSUME ConstantsAssumption ==
  /\ NoKid \notin Kids
  /\ NoKey \notin Keys
  /\ Docs \subseteq [Names -> Results]
  /\ NoDoc \notin Docs
  /\ Failed \notin Results
  /\ Pending \notin Results \cup {Failed}
  /\ CacheTTL \in Int
  /\ Hour \in Nat \ {0}
  /\ Minute \in Nat \ {0}
  /\ Timeout \in Nat
  /\ Horizon \in Nat
  /\ Horizon > TTL + Timeout
  /\ Horizon > Minute + Timeout

VARIABLES
  \* the endpoint
  published,  \* the document it serves
  seen,       \* seen[n][x]: time since that document gave x for n
  \* jwksCache
  keys,       \* the keys of the last good fetch, NoDoc before the first
  age,        \* time since c.fetched
  \* its callers
  pc,         \* "idle", "lock", "fetch" (keys expired), "refetch" (early)
  kid,        \* the key id asked for
  answer,     \* what key returned
  \* the fetch under way
  reply,      \* the document the endpoint answered with, NoDoc before
  spent,      \* time since the request was sent
  \* history
  early       \* time since the last early fetch began

endpoint == <<published, seen>>
vars == <<published, seen, keys, age, pc, kid, answer, reply, spent, early>>

TypeOK ==
  /\ published \in Docs
  /\ seen \in [Names -> [Results -> Ages]]
  /\ keys \in Docs \cup {NoDoc}
  /\ age \in Ages
  /\ pc \in [Callers -> {"idle", "lock", "fetch", "refetch"}]
  /\ kid \in [Callers -> Names]
  /\ answer \in [Callers -> Results \cup {Failed, Pending}]
  /\ reply \in Docs \cup {NoDoc}
  /\ spent \in 0 .. Timeout
  /\ early \in Ages

-----------------------------------------------------------------------------
(* Documents and ages *)

Usable(d) == {n \in Names : d[n] # NoKey}

\* lookupLocked: an empty kid stands for the only key there is.
Lookup(d, n) ==
  IF n # NoKid THEN d[n]
  ELSE IF \E m \in Names : Usable(d) = {m}
         THEN d[CHOOSE m \in Names : Usable(d) = {m}]
         ELSE NoKey

Older(a) == IF a < Horizon THEN a + 1 ELSE a

\* Ages of what a document that serves d now, and served before, has given.
Serving(d, past) ==
  [n \in Names |-> [x \in Results |-> IF Lookup(d, n) = x THEN 0
                                                          ELSE past[n][x]]]

Init ==
  /\ published \in Docs
  /\ seen = Serving(published, [n \in Names |-> [x \in Results |-> Horizon]])
  /\ keys = NoDoc
  /\ age = Horizon
  /\ pc = [c \in Callers |-> "idle"]
  /\ kid \in [Callers -> Names]
  /\ answer = [c \in Callers |-> Pending]
  /\ reply = NoDoc
  /\ spent = 0
  /\ early = Horizon

-----------------------------------------------------------------------------
(* The endpoint and the clock *)

Publish(d) ==
  /\ published' = d
  /\ seen' = Serving(d, seen)
  /\ UNCHANGED <<keys, age, pc, kid, answer, reply, spent, early>>

Fetching(c) == pc[c] \in {"fetch", "refetch"}

\* Mutant of InTime: a client without a timeout.
NoTimeout == TRUE

\* A fetch is over when its time is.
InTime == \A c \in Callers : Fetching(c) => spent < Timeout

Tick ==
  /\ InTime
  /\ spent' = IF \E c \in Callers : Fetching(c) THEN spent + 1 ELSE spent
  /\ seen' = Serving(published, [n \in Names |->
                                   [x \in Results |-> Older(seen[n][x])]])
  /\ age' = Older(age)
  /\ early' = Older(early)
  /\ UNCHANGED <<published, keys, pc, kid, answer, reply>>

\* The endpoint answers the request of c.
Serve(c) ==
  /\ Fetching(c)
  /\ reply = NoDoc
  /\ reply' = published
  /\ UNCHANGED endpoint
  /\ UNCHANGED <<keys, age, pc, kid, answer, spent, early>>

-----------------------------------------------------------------------------
(* jwksCache.key *)

Call(c, n) ==
  /\ pc[c] = "idle"
  /\ kid' = [kid EXCEPT ![c] = n]
  /\ answer' = [answer EXCEPT ![c] = Pending]
  /\ pc' = [pc EXCEPT ![c] = "lock"]
  /\ UNCHANGED endpoint
  /\ UNCHANGED <<keys, age, reply, spent, early>>

\* c.mu is held across a fetch.
Unlocked == \A c \in Callers : ~Fetching(c)

\* Mutant of Expired: keys are kept until an unknown kid comes.
NeverExpired == keys = NoDoc

Expired == keys = NoDoc \/ age > TTL

\* Mutant of Stale: an unknown kid is refused from the cache.
NeverStale == FALSE

Stale == age > Minute

\* Mutant of Return: a refused caller tries again.
RetryUnknown(c, x) ==
  /\ answer' = [answer EXCEPT ![c] = x]
  /\ pc' = [pc EXCEPT ![c] = IF x = NoKey THEN @ ELSE "idle"]

Return(c, x) == /\ answer' = [answer EXCEPT ![c] = x]
                /\ pc' = [pc EXCEPT ![c] = "idle"]

\* The key is there, or it is not and it is too early to ask again.
FromCache(c) ==
  /\ pc[c] = "lock"
  /\ Unlocked
  /\ ~Expired
  /\ Lookup(keys, kid[c]) = NoKey => ~Stale
  /\ Return(c, Lookup(keys, kid[c]))
  /\ UNCHANGED endpoint
  /\ UNCHANGED <<keys, age, kid, reply, spent, early>>

BeginFetch(c) ==
  /\ pc[c] = "lock"
  /\ Unlocked
  /\ \/ /\ Expired
        /\ pc' = [pc EXCEPT ![c] = "fetch"]
        /\ UNCHANGED early
     \/ /\ ~Expired
        /\ Lookup(keys, kid[c]) = NoKey
        /\ Stale
        /\ pc' = [pc EXCEPT ![c] = "refetch"]
        /\ early' = 0
  /\ spent' = 0
  /\ UNCHANGED endpoint
  /\ UNCHANGED <<keys, age, kid, answer, reply>>

\* A document with a usable key replaces the cache.  The lookup that follows
\* is in time with it: no second fetch.
FetchDone(c) ==
  /\ Fetching(c)
  /\ reply # NoDoc
  /\ Usable(reply) # {}
  /\ keys' = reply
  /\ age' = 0
  /\ Return(c, Lookup(reply, kid[c]))
  /\ reply' = NoDoc
  /\ spent' = 0
  /\ UNCHANGED endpoint
  /\ UNCHANGED <<kid, early>>

\* Mutant of FetchFails: a failed fetch counts for the age, to space retries.
FetchFailsStamps(c) ==
  /\ Fetching(c)
  /\ Return(c, Failed)
  /\ reply' = NoDoc
  /\ age' = 0
  /\ spent' = 0
  /\ UNCHANGED endpoint
  /\ UNCHANGED <<keys, kid, early>>

\* No connection, no answer in time, not a 200, not JSON, or no usable key:
\* the cache stays as it was.
FetchFails(c) ==
  /\ Fetching(c)
  /\ Return(c, Failed)
  /\ reply' = NoDoc
  /\ spent' = 0
  /\ UNCHANGED endpoint
  /\ UNCHANGED <<keys, age, kid, early>>

-----------------------------------------------------------------------------
(* The specification *)

Finish(c) == FetchDone(c) \/ FetchFails(c)

Next == \/ Tick
        \/ \E d \in Docs : Publish(d)
        \/ \E c \in Callers : \/ \E n \in Names : Call(c, n)
                              \/ FromCache(c) \/ BeginFetch(c)
                              \/ Serve(c) \/ FetchDone(c) \/ FetchFails(c)

Spec == Init /\ [][Next]_vars

\* Time passes.  A mutex starves nobody, a client with a timeout returns, and
\* an endpoint that is asked again and again answers some time.
Fairness ==
  /\ WF_vars(Tick)
  /\ \A c \in Callers : /\ SF_vars(FromCache(c) \/ BeginFetch(c))
                        /\ WF_vars(Finish(c))
                        /\ SF_vars(Serve(c))
                        /\ SF_vars(FetchDone(c))

FairSpec == Spec /\ Fairness

-----------------------------------------------------------------------------
(* Properties *)

Service == INSTANCE KeyService WITH MaxStale <- TTL + Timeout,
                                    MaxMiss <- Minute + Timeout

\* A key handed out was published under that kid at most TTL and one fetch
\* ago; a kid is refused only if it had no key at some time in the last minute
\* and one fetch, however fetches, rotations and callers interleave
\* (jwks.go:71-73, 93-113).
ServiceSpec == Service!Spec

\* "an unknown kid triggers an early refetch (key rotation) at most once per
\* minute" (jwks.go:72-73).
AtMostOncePerMinute ==
  [][\A c \in Callers : pc[c] = "lock" /\ pc'[c] = "refetch"
                          => early > Minute]_vars

\* Every caller is answered, although all queue for a mutex held during
\* fetches (jwks.go:94-95).
EveryCallerAnswered == \A c \in Callers : (pc[c] = "lock") ~> (pc[c] = "idle")

\* A document the endpoint settles on becomes the cache's, if one caller keeps
\* coming, whatever it asks for (jwks.go:96-100).
RotationTaken ==
  \A d \in Docs :
    (/\ Usable(d) # {}
     /\ <>[](published = d)
     /\ \E c \in Callers : []<>(pc[c] = "lock")) => <>[](keys = d)
=============================================================================
