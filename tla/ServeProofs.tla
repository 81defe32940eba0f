----------------------------- MODULE ServeProofs -----------------------------
(***************************************************************************)
(* Proofs about module Serve, for any requests, writers and nestings.      *)
(*                                                                         *)
(* Exclusive is WritersAreExclusive with what each stage of a request      *)
(* holds (Holding); what the response says to caches is carried from the   *)
(* outer to the inner middleware (Said); Shutdown is reached only with the *)
(* listener closed, after which nothing arrives (Stopping).                *)
(***************************************************************************)
EXTENDS Serve, TLAPS

Types ==
  /\ main \in {"select", "shutdown", "returned"}
  /\ result \in {None, "nil", "deadline", "error"}
  /\ listener \in {"start", "listening", "send", "ended"}
  /\ queued \in {0, 1}
  /\ order \in Orders
  /\ traits \in [Requests -> SUBSET Traits]
  /\ pc \in [Requests -> {"off", "outer", "inner", "handler", "close", "put"}]
  /\ writer \in [Requests -> Writers \cup {None}]
  /\ DOMAIN target = Writers
  /\ pool \subseteq Writers
  /\ encoded \in [Requests -> BOOLEAN]
  /\ vary \in [Requests -> SUBSET {"Origin", "Accept-Encoding"}]
  /\ allowed \in [Requests -> BOOLEAN]

Holding ==
  \A q \in Requests :
    /\ pc[q] \in {"off", "outer"} => writer[q] = None
    /\ pc[q] \in {"close", "put"} => writer[q] # None
    /\ pc[q] = "inner" /\ writer[q] # None => order["outer"] = "gzip"

Said ==
  \A q \in Requests :
    /\ encoded[q] => "options" \notin traits[q]
    /\ pc[q] = "outer" => ~encoded[q] /\ ~allowed[q]
    /\ pc[q] = "inner" => /\ encoded[q] => order["outer"] = "gzip"
                          /\ allowed[q] => order["outer"] = "cors"
    /\ pc[q] # "off" =>
         /\ encoded[q] /\ (order["outer"] = "cors" \/ ~allowed[q])
              => "Accept-Encoding" \in vary[q]
         /\ allowed[q] => "Origin" \in vary[q]

Stopping ==
  /\ main = "shutdown" => closing
  /\ main # "returned" => result # "nil"

Inv == Types /\ Holding /\ WritersAreExclusive /\ Said /\ Stopping /\ NilMeansDrained

\* None is no writer and no result; the two layers differ.
LEMMA OrderOf ==
  ASSUME order \in Orders
  PROVE  /\ order["outer"] \in {"cors", "gzip"} /\ order["inner"] \in {"cors", "gzip"}
         /\ order["outer"] # order["inner"]
  BY ConstantsAssumption

LEMMA InitInv == Init => Inv
<1> SUFFICES ASSUME Init PROVE Inv
  OBVIOUS
<1>1. Types
  BY DEF Init, Types, Traits
<1>2. Holding /\ WritersAreExclusive /\ Said
  BY DEF Init, Holding, WritersAreExclusive, Said
<1>3. Stopping /\ NilMeansDrained
  BY ConstantsAssumption DEF Init, Stopping, NilMeansDrained
<1> QED BY <1>1, <1>2, <1>3 DEF Inv

-----------------------------------------------------------------------------
(* The steps of the server *)

LEMMA ServerSteps ==
  ASSUME Inv, \/ Cancel \/ Listen \/ ListenEnds \/ Send
              \/ SelectDone \/ SelectError \/ ShutdownEnds
  PROVE  Inv'
<1>1. UNCHANGED <<order, requests>>
  BY DEF Cancel, Listen, ListenEnds, Send, SelectDone, SelectError, ShutdownEnds
<1>2. Holding' /\ WritersAreExclusive' /\ Said'
  BY <1>1 DEF Inv, requests, headers, Holding, WritersAreExclusive, Said
<1>3. Types'
  BY <1>1 DEF Inv, requests, headers, Types, Cancel, Listen, ListenEnds, Send, Capacity,
     SelectDone, SelectError, ShutdownEnds
<1>4. Stopping'
  BY DEF Inv, Stopping, Cancel, Listen, ListenEnds, Send, SelectDone, SelectError, ShutdownEnds
<1>5. NilMeansDrained'
  <2>1. Active' = Active
    BY <1>1 DEF Active, requests
  <2> QED BY <2>1 DEF Inv, NilMeansDrained, Stopping, Drained, Cancel, Listen, ListenEnds,
           Send, SelectDone, SelectError, ShutdownEnds
<1> QED BY <1>2, <1>3, <1>4, <1>5 DEF Inv

-----------------------------------------------------------------------------
(* The steps of a request *)

\* No step of a request that is under way brings the server's result about.
LEMMA StillStopped ==
  ASSUME Inv, NEW q \in Requests, UNCHANGED server, pc[q] # "off" \/ ~closing,
         \A r \in Requests \ {q} : pc'[r] = pc[r]
  PROVE  Stopping' /\ NilMeansDrained'
<1>1. Stopping'
  BY DEF Inv, Stopping, server
<1>2. NilMeansDrained'
  BY DEF Inv, NilMeansDrained, Active, server
<1> QED BY <1>1, <1>2

LEMMA RequestSteps ==
  ASSUME Inv, NEW q \in Requests,
         \/ \E ts \in SUBSET Traits : Arrive(q, ts)
         \/ Cors(q) \/ GzipSkipped(q) \/ Handled(q) \/ Close(q) \/ Put(q)
         \/ \E g \in Writers : Gzip(q, g)
  PROVE  Inv'
<1> USE DEF Inv, Types
<1>a. /\ order["outer"] \in {"cors", "gzip"} /\ order["inner"] \in {"cors", "gzip"}
      /\ order["outer"] # order["inner"]
  BY OrderOf
<1>1. ASSUME NEW ts \in SUBSET Traits, Arrive(q, ts) PROVE Inv'
  <2>1. Types' BY <1>1 DEF Arrive, server
  <2>2. Holding' BY <1>1 DEF Arrive, Holding
  <2>3. WritersAreExclusive' BY <1>1 DEF Arrive, WritersAreExclusive
  <2>4. Said' BY <1>1 DEF Arrive, Said
  <2>5. Stopping' /\ NilMeansDrained' BY <1>1, StillStopped DEF Arrive
  <2> QED BY <2>1, <2>2, <2>3, <2>4, <2>5
<1>2. CASE Cors(q)
  <2>1. Types' BY <1>2 DEF Cors, server, Enter, Inward, Outward
  <2>2. Holding' BY <1>2, <1>a DEF Cors, Holding, At, Enter, Inward, Outward
  <2>3. WritersAreExclusive' BY <1>2 DEF Cors, WritersAreExclusive
  <2>4. Said' BY <1>2, <1>a DEF Cors, Said, Holding, At, Enter, Inward, Outward
  <2>5. Stopping' /\ NilMeansDrained' BY <1>2, StillStopped DEF Cors, At, Enter
  <2> QED BY <2>1, <2>2, <2>3, <2>4, <2>5
<1>3. CASE GzipSkipped(q)
  <2>1. Types' BY <1>3 DEF GzipSkipped, server, headers, Enter, Inward
  <2>2. Holding' BY <1>3, <1>a DEF GzipSkipped, Holding, At, Enter, Inward
  <2>3. WritersAreExclusive' BY <1>3 DEF GzipSkipped, WritersAreExclusive
  <2>4. Said' BY <1>3, <1>a DEF GzipSkipped, headers, Said, At, Enter, Inward
  <2>5. Stopping' /\ NilMeansDrained' BY <1>3, StillStopped DEF GzipSkipped, At, Enter
  <2> QED BY <2>1, <2>2, <2>3, <2>4, <2>5
<1>4. CASE Handled(q)
  <2>1. Types' BY <1>4 DEF Handled, server, headers, Enter, Outward
  <2>2. Holding' BY <1>4 DEF Handled, Holding, Enter, Outward
  <2>3. WritersAreExclusive' BY <1>4 DEF Handled, WritersAreExclusive
  <2>4. Said' BY <1>4 DEF Handled, headers, Said, Enter, Outward
  <2>5. Stopping' /\ NilMeansDrained' BY <1>4, StillStopped DEF Handled, Enter
  <2> QED BY <2>1, <2>2, <2>3, <2>4, <2>5
<1>5. CASE Close(q)
  <2>1. Types' BY <1>5 DEF Close, server, headers, Enter
  <2>2. Holding' BY <1>5 DEF Close, Holding, Enter
  <2>3. WritersAreExclusive' BY <1>5 DEF Close, WritersAreExclusive
  <2>4. Said' BY <1>5 DEF Close, headers, Said, Enter
  <2>5. Stopping' /\ NilMeansDrained' BY <1>5, StillStopped DEF Close, Enter
  <2> QED BY <2>1, <2>2, <2>3, <2>4, <2>5
<1>6. CASE Put(q)
  <2>1. Types' BY <1>6 DEF Put, server, headers, Enter, Holding
  <2>2. Holding' BY <1>6 DEF Put, Holding, Enter
  <2>3. WritersAreExclusive' BY <1>6, ConstantsAssumption DEF Put, WritersAreExclusive
  <2>4. Said' BY <1>6 DEF Put, headers, Said, Enter
  <2>5. Stopping' /\ NilMeansDrained' BY <1>6, StillStopped DEF Put, Enter
  <2> QED BY <2>1, <2>2, <2>3, <2>4, <2>5
<1>7. ASSUME NEW g \in Writers, Gzip(q, g) PROVE Inv'
  <2>0. \A r \in Requests : writer[r] # g
    BY <1>7, ConstantsAssumption DEF Gzip, WritersAreExclusive
  <2>1. Types' BY <1>7 DEF Gzip, server, Enter, Inward
  <2>2. Holding' BY <1>7, <1>a, ConstantsAssumption DEF Gzip, Holding, At, Enter, Inward
  <2>3. WritersAreExclusive' BY <1>7, <2>0 DEF Gzip, WritersAreExclusive
  <2>4. Said' BY <1>7, <1>a DEF Gzip, Said, Compresses, At, Enter, Inward
  <2>5. Stopping' /\ NilMeansDrained' BY <1>7, StillStopped DEF Gzip, At, Enter
  <2> QED BY <2>1, <2>2, <2>3, <2>4, <2>5
<1> QED BY <1>1, <1>2, <1>3, <1>4, <1>5, <1>6, <1>7

LEMMA NextInv == Inv /\ [Next]_vars => Inv'
<1>1. ASSUME Inv, UNCHANGED vars PROVE Inv'
  BY <1>1 DEF vars, server, requests, headers, Inv, Types, Holding, WritersAreExclusive,
     Said, Stopping, NilMeansDrained, Active
<1> QED BY <1>1, ServerSteps, RequestSteps DEF Next

\* The invariant the theorems below are drawn from.
THEOREM Invariance == Spec => []Inv
  BY InitInv, NextInv, PTL DEF Spec

-----------------------------------------------------------------------------
(* The properties *)

\* The variables have their types and no preflight is encoded, for any
\* requests and nestings (gzip.go:26).
THEOREM TypeCorrect == Spec => []TypeOK
<1>1. Inv => TypeOK
  BY DEF Inv, Types, Said, TypeOK
<1> QED BY <1>1, Invariance, PTL

\* However many requests and writers there are, a pooled writer writes to one
\* response at a time (gzip.go:31-39).
THEOREM OneResponsePerWriter == Spec => []WritersAreExclusive
<1>1. Inv => WritersAreExclusive
  BY DEF Inv
<1> QED BY <1>1, Invariance, PTL

\* That a response depends on the origin is said to caches in either nesting
\* (cors.go:26-29); that it is encoded is said where CORS is outside or no
\* origin is allowed (gzip.go:30-31).  In the nesting left out it is not said:
\* EncodedResponsesVary is false there.
THEOREM CachesAreTold == Spec => []ResponsesVary
<1>1. Inv => ResponsesVary
  BY DEF Inv, Said, ResponsesVary
<1> QED BY <1>1, Invariance, PTL

\* A nil error means that every request was let finish (serve.go:56-59).
THEOREM NilAfterDraining == Spec => []NilMeansDrained
<1>1. Inv => NilMeansDrained
  BY DEF Inv
<1> QED BY <1>1, Invariance, PTL

===============================================================================
