-------------------------------- MODULE RunTx --------------------------------
(***************************************************************************)
(* pgexec.RunTx: requests run their callback in a transaction on a shared  *)
(* connection pool, under their own role and claims, and retry after       *)
(* serialization failures (pgexec/tx.go).                                  *)
(*                                                                         *)
(* The pool, pgx's transactions and PostgreSQL are external, modelled from *)
(* how RunTx uses them: a connection whose context is cancelled in a call, *)
(* or that fails, is destroyed and replaced by a new one; the answer to a  *)
(* COMMIT may be lost on the way.                                          *)
(***************************************************************************)
EXTENDS Naturals

CONSTANTS
  Requests,     \* calls of RunTx
  Conns,        \* connections of the pool
  Roles,        \* role names, valid or not
  Keys,         \* claim keys, valid or not
  RLS,          \* RLS[r]: TxOptions.RLS
  Role,         \* Role[r]: Identity.Role, NoRole when empty
  Claims,       \* Claims[r]: the keys of Identity.Claims
  ValidRoles,   \* roles that ValidRole accepts
  Settable,     \* Settable[r]: keys valid and with a value that encodes
  MaxRetries,   \* TxOptions.MaxRetries
  NoRole, NoConn

ASSUME ConstantsAssumption ==
  /\ RLS \in [Requests -> BOOLEAN]
  /\ Role \in [Requests -> Roles \cup {NoRole}]
  /\ Claims \in [Requests -> SUBSET Keys]
  /\ Settable \in [Requests -> SUBSET Keys]
  /\ ValidRoles \subseteq Roles
  /\ NoRole \notin Roles
  /\ MaxRetries \in Nat
  /\ NoConn \notin Conns

VARIABLES
  \* one call of RunTx
  pc,         \* where it is
  attempt,    \* attempts finished before this one
  cancelled,  \* its context is cancelled
  conn,       \* the connection of its transaction
  todo,       \* claims ApplyIdentity has not come to
  err,        \* what runOnce is about to return
  reply,      \* what RunTx returned
  \* the database
  tx,         \* tx[c]: state of the transaction open on c
  identity,   \* identity[c]: role and claims statements on c run under
  inflight,   \* a COMMIT of the call is at the server, its answer lost
  effect      \* how many transactions of the call are committed

callVars == <<pc, attempt, cancelled, conn, todo, err, reply>>
vars == <<pc, attempt, cancelled, conn, todo, err, reply, tx, identity,
          inflight, effect>>

\* A session as it is when connected: login role, no claims.
Nobody == [role |-> NoRole, claims |-> {}]

\* The claims are tagged with the request whose values they are.
Identities == [role : Roles \cup {NoRole}, claims : SUBSET (Requests \X Keys)]

Errors == {"none", "serial", "other", "lost"}

TypeOK ==
  /\ pc \in [Requests -> {"begin", "role", "claims", "fn", "commit",
                          "rollback", "decide", "done"}]
  /\ attempt \in [Requests -> 0 .. MaxRetries]
  /\ cancelled \in [Requests -> BOOLEAN]
  /\ conn \in [Requests -> Conns \cup {NoConn}]
  /\ todo \in [Requests -> SUBSET Keys]
  /\ err \in [Requests -> Errors]
  /\ reply \in [Requests -> {"none", "ok", "failed", "unknown"}]
  /\ tx \in [Conns -> {"none", "open", "aborted"}]
  /\ identity \in [Conns -> Identities]
  /\ inflight \in [Requests -> BOOLEAN]
  /\ effect \in [Requests -> Nat]

Init ==
  /\ pc = [r \in Requests |-> "begin"]
  /\ attempt = [r \in Requests |-> 0]
  /\ cancelled = [r \in Requests |-> FALSE]
  /\ conn = [r \in Requests |-> NoConn]
  /\ todo = [r \in Requests |-> {}]
  /\ err = [r \in Requests |-> "none"]
  /\ reply = [r \in Requests |-> "none"]
  /\ tx = [c \in Conns |-> "none"]
  /\ identity = [c \in Conns |-> Nobody]
  /\ inflight = [r \in Requests |-> FALSE]
  /\ effect = [r \in Requests |-> 0]

Goto(r, l) == pc' = [pc EXCEPT ![r] = l]

-----------------------------------------------------------------------------
(* Pool and sessions *)

Idle(c) == \A r \in Requests : conn[r] # c

\* Mutant of Scope: SET ROLE and set_config(..., false).
SessionScope == "session"

\* How far SET LOCAL ROLE and set_config(..., true) reach.
Scope == "transaction"

\* What a session keeps of an identity when its transaction ends.
AfterTx(id) == IF Scope = "transaction" THEN Nobody ELSE id

\* r's transaction ends and its connection goes back to the pool: in order,
\* or destroyed (the pool opens a new one when it needs it).
Release(r, survives) ==
  /\ tx' = [tx EXCEPT ![conn[r]] = "none"]
  /\ identity' = [identity EXCEPT ![conn[r]] =
                    IF survives THEN AfterTx(@) ELSE Nobody]
  /\ conn' = [conn EXCEPT ![r] = NoConn]

\* A statement of r fails: the server reports it and the transaction is
\* aborted, or the connection or the context is gone.
StatementFails(r, e) ==
  /\ err' = [err EXCEPT ![r] = e]
  /\ e \in {"serial", "other"}
  /\ e = "serial" => ~cancelled[r]
  /\ tx' = [tx EXCEPT ![conn[r]] = "aborted"]

-----------------------------------------------------------------------------
(* RunTx and runOnce *)

Cancel(r) ==
  /\ pc[r] # "done"
  /\ ~cancelled[r]
  /\ cancelled' = [cancelled EXCEPT ![r] = TRUE]
  /\ UNCHANGED <<pc, attempt, conn, todo, err, reply, tx, identity, inflight,
                 effect>>

\* Mutant of Begin: the identity is applied to the first attempt only.
BeginOnce(r, c) ==
  /\ pc[r] = "begin"
  /\ ~cancelled[r]
  /\ Idle(c)
  /\ conn' = [conn EXCEPT ![r] = c]
  /\ tx' = [tx EXCEPT ![c] = "open"]
  /\ Goto(r, IF RLS[r] /\ attempt[r] = 0 THEN "role" ELSE "fn")
  /\ UNCHANGED <<attempt, cancelled, todo, err, reply, identity, inflight,
                 effect>>

\* BeginTx: a connection of the pool and a transaction on it.
Begin(r, c) ==
  /\ pc[r] = "begin"
  /\ ~cancelled[r]
  /\ Idle(c)
  /\ conn' = [conn EXCEPT ![r] = c]
  /\ tx' = [tx EXCEPT ![c] = "open"]
  /\ Goto(r, IF RLS[r] THEN "role" ELSE "fn")
  /\ UNCHANGED <<attempt, cancelled, todo, err, reply, identity, inflight,
                 effect>>

\* No connection before the cancellation, or BEGIN fails on the one it got.
BeginFails(r) ==
  /\ pc[r] = "begin"
  /\ cancelled[r] \/ \E c \in Conns : Idle(c)
  /\ err' = [err EXCEPT ![r] = "other"]
  /\ Goto(r, "decide")
  /\ UNCHANGED <<attempt, cancelled, conn, todo, reply, tx, identity,
                 inflight, effect>>

\* ApplyIdentity, first part: no role, or SET LOCAL ROLE.
SetRole(r) ==
  /\ pc[r] = "role"
  /\ \/ Role[r] = NoRole /\ UNCHANGED identity
     \/ /\ Role[r] \in ValidRoles
        /\ ~cancelled[r]
        /\ identity' = [identity EXCEPT ![conn[r]].role = Role[r]]
  /\ todo' = [todo EXCEPT ![r] = Claims[r]]
  /\ Goto(r, "claims")
  /\ UNCHANGED <<attempt, cancelled, conn, err, reply, tx, inflight, effect>>

\* Mutant of RefuseRole: it returns before the Rollback is deferred.
RefuseRoleEarly(r) ==
  /\ pc[r] = "role"
  /\ Role[r] # NoRole /\ Role[r] \notin ValidRoles
  /\ err' = [err EXCEPT ![r] = "other"]
  /\ Goto(r, "decide")
  /\ UNCHANGED <<attempt, cancelled, conn, todo, reply, tx, identity,
                 inflight, effect>>

\* An invalid role is refused before any statement.
RefuseRole(r) ==
  /\ pc[r] = "role"
  /\ Role[r] # NoRole /\ Role[r] \notin ValidRoles
  /\ err' = [err EXCEPT ![r] = "other"]
  /\ Goto(r, "rollback")
  /\ UNCHANGED <<attempt, cancelled, conn, todo, reply, tx, identity,
                 inflight, effect>>

\* ApplyIdentity, second part: the claims in the order of the map, skipping
\* invalid keys and values that do not encode.
SetClaim(r, k) ==
  /\ pc[r] = "claims"
  /\ k \in todo[r]
  /\ todo' = [todo EXCEPT ![r] = @ \ {k}]
  /\ \/ k \notin Settable[r] /\ UNCHANGED identity
     \/ /\ k \in Settable[r]
        /\ ~cancelled[r]
        /\ identity' = [identity EXCEPT ![conn[r]].claims =
                          {x \in @ : x[2] # k} \cup {<<r, k>>}]
  /\ UNCHANGED <<pc, attempt, cancelled, conn, err, reply, tx, inflight,
                 effect>>

IdentityApplied(r) ==
  /\ pc[r] = "claims"
  /\ todo[r] = {}
  /\ Goto(r, "fn")
  /\ UNCHANGED <<attempt, cancelled, conn, todo, err, reply, tx, identity,
                 inflight, effect>>

\* SET LOCAL ROLE or a set_config fails: ApplyIdentity returns the error.
IdentityFails(r, e) ==
  /\ \/ pc[r] = "role" /\ Role[r] \in ValidRoles
     \/ pc[r] = "claims" /\ todo[r] \cap Settable[r] # {}
  /\ StatementFails(r, e)
  /\ Goto(r, "rollback")
  /\ UNCHANGED <<attempt, cancelled, conn, todo, reply, identity, inflight,
                 effect>>

\* A statement of the callback fails; the callback may ignore the error.
FnStatementFails(r) ==
  /\ pc[r] = "fn"
  /\ tx' = [tx EXCEPT ![conn[r]] = "aborted"]
  /\ UNCHANGED <<identity, inflight, effect>>
  /\ UNCHANGED callVars

\* Mutant of FnFails: the transaction is left open for the next attempt.
FnFailsOpen(r, e) ==
  /\ pc[r] = "fn"
  /\ e \in {"serial", "other"}
  /\ err' = [err EXCEPT ![r] = e]
  /\ Goto(r, "decide")
  /\ UNCHANGED <<attempt, cancelled, conn, todo, reply, tx, identity,
                 inflight, effect>>

\* The callback returns an error of its choice, a serialization failure of
\* its own transaction or of anything else it did included.
FnFails(r, e) ==
  /\ pc[r] = "fn"
  /\ e \in {"serial", "other"}
  /\ err' = [err EXCEPT ![r] = e]
  /\ Goto(r, "rollback")
  /\ UNCHANGED <<attempt, cancelled, conn, todo, reply, tx, identity,
                 inflight, effect>>

FnReturns(r) ==
  /\ pc[r] = "fn"
  /\ Goto(r, "commit")
  /\ UNCHANGED <<attempt, cancelled, conn, todo, err, reply, tx, identity,
                 inflight, effect>>

\* COMMIT succeeds.  The deferred Rollback finds the transaction closed.
Commit(r) ==
  /\ pc[r] = "commit"
  /\ ~cancelled[r]
  /\ tx[conn[r]] = "open"
  /\ effect' = [effect EXCEPT ![r] = @ + 1]
  /\ err' = [err EXCEPT ![r] = "none"]
  /\ Release(r, TRUE)
  /\ Goto(r, "decide")
  /\ UNCHANGED <<attempt, cancelled, todo, reply, inflight>>

\* The server refuses the COMMIT and rolls back: a serialization failure or a
\* deferred constraint; an aborted transaction ends in ROLLBACK, an error of
\* pgx and not of the server.
CommitRefused(r, e) ==
  /\ pc[r] = "commit"
  /\ ~cancelled[r]
  /\ \/ tx[conn[r]] = "open" /\ e \in {"serial", "other"}
     \/ tx[conn[r]] = "aborted" /\ e = "other"
  /\ err' = [err EXCEPT ![r] = e]
  /\ Release(r, TRUE)
  /\ Goto(r, "decide")
  /\ UNCHANGED <<attempt, cancelled, todo, reply, inflight, effect>>

\* The COMMIT is not sent: the context was cancelled before.
CommitNotSent(r) ==
  /\ pc[r] = "commit"
  /\ cancelled[r]
  /\ err' = [err EXCEPT ![r] = "other"]
  /\ Release(r, FALSE)
  /\ Goto(r, "decide")
  /\ UNCHANGED <<attempt, cancelled, todo, reply, inflight, effect>>

\* The connection, or the wait of the client, ends while the COMMIT is out.
CommitLost(r) ==
  /\ pc[r] = "commit"
  /\ inflight' = [inflight EXCEPT ![r] = tx[conn[r]] = "open"]
  /\ err' = [err EXCEPT ![r] = "lost"]
  /\ Release(r, FALSE)
  /\ Goto(r, "decide")
  /\ UNCHANGED <<attempt, cancelled, todo, reply, effect>>

\* The server makes up its mind about a COMMIT nobody waits for.
ServerFinishes(r) ==
  /\ inflight[r]
  /\ inflight' = [inflight EXCEPT ![r] = FALSE]
  /\ \/ effect' = [effect EXCEPT ![r] = @ + 1]
     \/ UNCHANGED effect
  /\ UNCHANGED <<tx, identity>>
  /\ UNCHANGED callVars

\* The deferred Rollback; it fails when the connection or the context is
\* gone, and then takes the connection with it.
Rollback(r, survives) ==
  /\ pc[r] = "rollback"
  /\ survives => ~cancelled[r]
  /\ Release(r, survives)
  /\ Goto(r, "decide")
  /\ UNCHANGED <<attempt, cancelled, todo, err, reply, inflight, effect>>

\* Mutant of Retryable: one retry too many.
RetryOnceMore(r) == err[r] = "serial" /\ attempt[r] <= MaxRetries /\ ~cancelled[r]

\* Mutant of Retryable: a lost connection is retried too.
RetryLost(r) == /\ err[r] \in {"serial", "lost"}
                /\ attempt[r] < MaxRetries
                /\ ~cancelled[r]

Retryable(r) == /\ err[r] = "serial"
                /\ attempt[r] < MaxRetries
                /\ ~cancelled[r]

Retry(r) ==
  /\ pc[r] = "decide"
  /\ Retryable(r)
  /\ attempt' = [attempt EXCEPT ![r] = @ + 1]
  /\ Goto(r, "begin")
  /\ todo' = [todo EXCEPT ![r] = {}]
  /\ UNCHANGED <<cancelled, conn, err, reply, tx, identity, inflight, effect>>

\* The answer as the caller can read it from the error.
Answer(e) == CASE e = "none" -> "ok"
               [] e = "lost" -> "unknown"
               [] OTHER -> "failed"

Return(r) ==
  /\ pc[r] = "decide"
  /\ ~Retryable(r)
  /\ reply' = [reply EXCEPT ![r] = Answer(err[r])]
  /\ Goto(r, "done")
  /\ UNCHANGED <<attempt, cancelled, conn, todo, err, tx, identity, inflight,
                 effect>>

-----------------------------------------------------------------------------
(* The specification *)

\* What the goroutine of r does once nothing keeps it.
Step(r) ==
  \/ BeginFails(r)
  \/ SetRole(r) \/ RefuseRole(r) \/ IdentityApplied(r)
  \/ \E k \in Keys : SetClaim(r, k)
  \/ \E e \in Errors : IdentityFails(r, e) \/ FnFails(r, e) \/ CommitRefused(r, e)
  \/ FnReturns(r)
  \/ Commit(r) \/ CommitNotSent(r) \/ CommitLost(r)
  \/ \E survives \in BOOLEAN : Rollback(r, survives)
  \/ Retry(r) \/ Return(r)

Next == \E r \in Requests : \/ Step(r)
                            \/ \E c \in Conns : Begin(r, c)
                            \/ FnStatementFails(r)
                            \/ Cancel(r)
                            \/ ServerFinishes(r)

Spec == Init /\ [][Next]_vars

\* Callbacks return, queries are answered, and the pool serves its waiters in
\* order; nothing makes a client cancel or a server decide.
Fairness == \A r \in Requests :
              /\ WF_vars(Step(r))
              /\ SF_vars(\E c \in Conns : Begin(r, c))

FairSpec == Spec /\ Fairness

-----------------------------------------------------------------------------
(* Properties *)

\* The identity of r, as ApplyIdentity is to apply it.
Own(r) == IF RLS[r]
            THEN [role |-> Role[r], claims |-> {r} \X (Claims[r] \cap Settable[r])]
            ELSE Nobody

\* A callback runs under the identity of its own request, all of it and
\* nothing else, whoever used the connection before and however that ended
\* (tx.go:98-100).
RunsAsItself == \A r \in Requests : pc[r] = "fn" => identity[conn[r]] = Own(r)

\* A connection in the pool has no open transaction and no identity: nothing
\* leaks to the next request, after errors, cancellations and lost commits too
\* (tx.go:86, 98-100).
PoolIsClean == \A c \in Conns : Idle(c) => tx[c] = "none" /\ identity[c] = Nobody

Outcome == INSTANCE TxOutcome

\* Retries never make the effects happen twice, and the answer is true of them
\* (tx.go:57-63, 74-75).
OutcomeSpec == Outcome!Spec

\* An attempt is repeated only when the one before left nothing behind: no
\* connection, no effect, no COMMIT still at the server (tx.go:71-75).
RetriesAreSafe ==
  [][\A r \in Requests : attempt'[r] # attempt[r]
       => conn[r] = NoConn /\ effect[r] = 0 /\ ~inflight[r]]_vars

\* Every call returns, although all share a pool smaller than their number and
\* each attempt queues for it again.
EveryCallReturns == \A r \in Requests : <>(pc[r] = "done")
=============================================================================
