--------------------------------- MODULE Serve ---------------------------------
(***************************************************************************)
(* httpx: ListenAndServe with its goroutine and its graceful shutdown      *)
(* (serve.go), and the requests that pass CORS and Gzip meanwhile, in the  *)
(* order the product nests them (cors.go, gzip.go).                        *)
(*                                                                         *)
(* External: http.Server (Shutdown stops the listener, then waits for the  *)
(* requests under way or for its context), sync.Pool (Get gives back any   *)
(* writer that was put, or a new one), and the product's handler, which    *)
(* may take for ever.                                                      *)
(***************************************************************************)
EXTENDS Naturals, Sequences

CONSTANTS
  Requests,   \* requests that may arrive
  Writers,    \* gzip writers; as many as Requests, so that New never fails
  Orders,     \* [outer, inner]: the middlewares "cors" and "gzip"
  None

ASSUME ConstantsAssumption ==
  /\ None \notin Writers /\ None # "nil"
  /\ Orders \subseteq {o \in [{"outer", "inner"} -> {"cors", "gzip"}] : o.outer # o.inner}

\* What the middlewares look at in a request.
Traits == {"origin", "gzip", "options", "preflight"}

VARIABLES
  main,      \* ListenAndServe: select, shutdown, returned
  result,    \* what it returned
  listener,  \* the goroutine: start, listening, send, ended
  queued,    \* values in errCh
  cancelled, \* ctx is done
  closing,   \* Shutdown has been called
  order,     \* the nesting
  traits,    \* request -> its traits
  pc,        \* request -> off, outer, inner, handler, close, put
  writer,    \* request -> the gzip writer it holds, or None
  target,    \* writer -> the response it writes to
  pool,      \* writers in gzipPool
  encoded, vary, allowed  \* request -> headers of its response

server   == <<main, result, listener, queued, cancelled, closing>>
headers  == <<encoded, vary, allowed>>
requests == <<traits, pc, writer, target, pool, headers>>
vars     == <<server, order, requests>>

Init ==
  /\ main = "select" /\ result = None
  /\ listener = "start" /\ queued = 0
  /\ cancelled = FALSE /\ closing = FALSE
  /\ order \in Orders
  /\ traits = [q \in Requests |-> {}]
  /\ pc = [q \in Requests |-> "off"]
  /\ writer = [q \in Requests |-> None]
  /\ target = [g \in Writers |-> None]
  /\ pool = {}
  /\ encoded = [q \in Requests |-> FALSE]
  /\ vary = [q \in Requests |-> {}]
  /\ allowed = [q \in Requests |-> FALSE]

-----------------------------------------------------------------------------
(* ListenAndServe *)

Cancel ==
  /\ ~cancelled
  /\ cancelled' = TRUE
  /\ UNCHANGED <<main, result, listener, queued, closing, order, requests>>

Listen ==
  /\ listener = "start" /\ ~closing
  /\ listener' = "listening"
  /\ UNCHANGED <<main, result, queued, cancelled, closing, order, requests>>

\* srv.ListenAndServe returns: the address is taken, accepting fails, or
\* Shutdown has been called.
ListenEnds ==
  /\ listener \in {"start", "listening"}
  /\ listener' = "send"
  /\ UNCHANGED <<main, result, queued, cancelled, closing, order, requests>>

\* Mutant of Capacity: an unbuffered channel, when nobody receives.
Unbuffered == 0

Capacity == 1

Send ==
  /\ listener = "send"
  /\ queued < Capacity
  /\ queued' = queued + 1
  /\ listener' = "ended"
  /\ UNCHANGED <<main, result, cancelled, closing, order, requests>>

SelectDone ==
  /\ main = "select" /\ cancelled
  /\ main' = "shutdown" /\ closing' = TRUE
  /\ UNCHANGED <<result, listener, queued, cancelled, order, requests>>

SelectError ==
  /\ main = "select" /\ queued > 0
  /\ queued' = queued - 1
  /\ main' = "returned" /\ result' = "error"
  /\ UNCHANGED <<listener, cancelled, closing, order, requests>>

Active == {q \in Requests : pc[q] # "off"}

\* Mutant of Drained: Close, not Shutdown.
NotWaited == TRUE

Drained == Active = {}

\* Shutdown returns: everything is idle, or ten seconds have passed.
ShutdownEnds ==
  /\ main = "shutdown"
  /\ main' = "returned"
  /\ result' \in {"deadline"} \cup IF Drained THEN {"nil"} ELSE {}
  /\ UNCHANGED <<listener, queued, cancelled, closing, order, requests>>

-----------------------------------------------------------------------------
(* A request on its way through the middlewares *)

Arrive(q, ts) ==
  /\ pc[q] = "off" /\ listener = "listening" /\ ~closing
  /\ "preflight" \in ts => "options" \in ts
  /\ traits' = [traits EXCEPT ![q] = ts]
  /\ pc' = [pc EXCEPT ![q] = "outer"]
  /\ encoded' = [encoded EXCEPT ![q] = FALSE]
  /\ vary' = [vary EXCEPT ![q] = {}]
  /\ allowed' = [allowed EXCEPT ![q] = FALSE]
  /\ UNCHANGED <<server, order, writer, target, pool>>

At(q, layer) == pc[q] \in {"outer", "inner"} /\ order[pc[q]] = layer
Inward(q)    == IF pc[q] = "outer" THEN "inner" ELSE "handler"
Outward(q)   == IF writer[q] = None THEN "off" ELSE "close"
Enter(q, l)  == pc' = [pc EXCEPT ![q] = l]

\* Mutant of Cors: the origin is allowed without a word to caches.
CorsUnvaried(q) ==
  /\ At(q, "cors")
  /\ allowed' = [allowed EXCEPT ![q] = "origin" \in traits[q]]
  /\ Enter(q, IF "preflight" \in traits[q] THEN Outward(q) ELSE Inward(q))
  /\ UNCHANGED <<server, order, traits, writer, target, pool, encoded, vary>>

\* CORSWithPreflight: Vary is set, not added to.
Cors(q) ==
  /\ At(q, "cors")
  /\ allowed' = [allowed EXCEPT ![q] = "origin" \in traits[q]]
  /\ vary' = [vary EXCEPT ![q] = IF "origin" \in traits[q] THEN {"Origin"} ELSE @]
  /\ Enter(q, IF "preflight" \in traits[q] THEN Outward(q) ELSE Inward(q))
  /\ UNCHANGED <<server, order, traits, writer, target, pool, encoded>>

\* Mutant of Compresses: preflights too.
AcceptsGzip(q) == "gzip" \in traits[q]

Compresses(q)  == "gzip" \in traits[q] /\ "options" \notin traits[q]

GzipSkipped(q) ==
  /\ At(q, "gzip") /\ ~Compresses(q)
  /\ Enter(q, Inward(q))
  /\ UNCHANGED <<server, order, traits, writer, target, pool, headers>>

Gzip(q, g) ==
  /\ At(q, "gzip") /\ Compresses(q)
  /\ g \in pool \cup (Writers \ {writer[r] : r \in Requests})
  /\ pool' = pool \ {g}
  /\ writer' = [writer EXCEPT ![q] = g]
  /\ target' = [target EXCEPT ![g] = q]
  /\ encoded' = [encoded EXCEPT ![q] = TRUE]
  /\ vary' = [vary EXCEPT ![q] = @ \cup {"Accept-Encoding"}]
  /\ Enter(q, Inward(q))
  /\ UNCHANGED <<server, order, traits, allowed>>

\* The handler returns or panics.
Handled(q) ==
  /\ pc[q] = "handler"
  /\ Enter(q, Outward(q))
  /\ UNCHANGED <<server, order, traits, writer, target, pool, headers>>

\* Mutant of Close: the writer is put back before it is closed.
CloseAfterPut(q) ==
  /\ pc[q] = "close"
  /\ pool' = pool \cup {writer[q]}
  /\ Enter(q, "put")
  /\ UNCHANGED <<server, order, traits, writer, target, headers>>

\* The deferred function: gz.Close writes the rest of the response.
Close(q) ==
  /\ pc[q] = "close"
  /\ Enter(q, "put")
  /\ UNCHANGED <<server, order, traits, writer, target, pool, headers>>

Put(q) ==
  /\ pc[q] = "put"
  /\ pool' = pool \cup {writer[q]}
  /\ writer' = [writer EXCEPT ![q] = None]
  /\ Enter(q, "off")
  /\ UNCHANGED <<server, order, traits, target, headers>>

Serving(q) == Cors(q) \/ GzipSkipped(q) \/ (\E g \in Writers : Gzip(q, g))
              \/ Close(q) \/ Put(q)

Next ==
  \/ Cancel \/ Listen \/ ListenEnds \/ Send
  \/ SelectDone \/ SelectError \/ ShutdownEnds
  \/ \E q \in Requests :
       \/ \E ts \in SUBSET Traits : Arrive(q, ts)
       \/ Cors(q) \/ GzipSkipped(q) \/ Handled(q) \/ Close(q) \/ Put(q)
       \/ \E g \in Writers : Gzip(q, g)

\* The goroutines run; Shutdown's context ends; a listener that is shut down
\* stops.  Nothing is said of the handler, nor that a request arrives, that
\* the context is cancelled or that a listener fails.
Fairness ==
  /\ WF_vars(Listen) /\ WF_vars(closing /\ ListenEnds) /\ WF_vars(Send)
  /\ WF_vars(SelectDone) /\ WF_vars(SelectError) /\ WF_vars(ShutdownEnds)
  /\ \A q \in Requests : WF_vars(Serving(q))

Spec == Init /\ [][Next]_vars /\ Fairness

-----------------------------------------------------------------------------
(* Properties *)

\* The variables have their types; a preflight is answered without a body,
\* so that it is never encoded ("wrapping them would emit an empty gzip frame
\* against a 204", gzip.go:22).
TypeOK ==
  /\ main \in {"select", "shutdown", "returned"}
  /\ result \in {None, "nil", "deadline", "error"}
  /\ listener \in {"start", "listening", "send", "ended"}
  /\ queued \in 0 .. 1
  /\ \A q \in Requests :
       /\ pc[q] \in {"off", "outer", "inner", "handler", "close", "put"}
       /\ writer[q] \in Writers \cup {None}
       /\ vary[q] \subseteq {"Origin", "Accept-Encoding"}
       /\ encoded[q] => "options" \notin traits[q]
  /\ pool \subseteq Writers

\* A pooled writer writes to one response: from Get until its Close has
\* written the last of it no other request resets it, and it is never in the
\* pool and in use at once (gzip.go:31).
WritersAreExclusive ==
  \A q \in Requests : writer[q] # None =>
    /\ target[writer[q]] = q
    /\ writer[q] \notin pool
    /\ \A r \in Requests : writer[r] = writer[q] => r = q

\* Every response that allows an origin says to caches that it depends on it,
\* in either nesting (cors.go:28).  An encoded one says that it is encoded
\* where CORS is outside, or where no origin is allowed: the rest is the claim
\* of EncodedResponsesVary.
ResponsesVary ==
  \A q \in Requests : pc[q] \in {"handler", "close", "put"} =>
    /\ encoded[q] /\ (order.outer = "cors" \/ ~allowed[q]) => "Accept-Encoding" \in vary[q]
    /\ allowed[q] => "Origin" \in vary[q]

\* Every encoded response says to caches that it is: `Vary` is to hold
\* "Accept-Encoding" (httpx_test.go:129), also in the nesting Gzip(CORS(...)) of
\* httpx_test.go:158 and also where the origin is allowed.
EncodedResponsesVary ==
  \A q \in Requests :
    pc[q] \in {"handler", "close", "put"} /\ encoded[q] => "Accept-Encoding" \in vary[q]

\* "Shuts down gracefully" (serve.go:29): when ListenAndServe returns nil no
\* request is under way, and none begins any more.
NilMeansDrained ==
  result = "nil" => Active = {} /\ closing

\* Whatever the handlers do, once the context is cancelled ListenAndServe
\* returns and the goroutine it started ends, also when both ends are ready
\* and the select takes the context, so that nobody receives from errCh
\* (serve.go:52).
CancelEndsIt == cancelled ~> (main = "returned" /\ listener = "ended")

===============================================================================
