----------------------------- MODULE RunTxProofs -----------------------------
(***************************************************************************)
(* Proofs about module RunTx, for any requests, pool, identities and       *)
(* number of retries.                                                      *)
(*                                                                         *)
(* RunsAsItself needs to know that a connection belongs to one call at a   *)
(* time (Ownership), that a connection is clean when a call gets it        *)
(* (PoolIsClean), and how far ApplyIdentity has come (Applying).  The      *)
(* promise of TxOutcome needs to know what each error says about the       *)
(* effects (Telling).                                                      *)
(***************************************************************************)
EXTENDS RunTx, TLAPS

Working == {"role", "claims", "fn", "commit", "rollback"}

Ownership ==
  /\ \A r \in Requests : conn[r] # NoConn <=> pc[r] \in Working
  /\ \A r, s \in Requests : conn[r] = conn[s] /\ r # s => conn[r] = NoConn

Applying(r) ==
  /\ pc[r] \in {"role", "claims"} => RLS[r]
  /\ pc[r] = "role" => identity[conn[r]] = Nobody
  /\ pc[r] = "claims" =>
       /\ todo[r] \subseteq Claims[r]
       /\ identity[conn[r]] =
            [role |-> Role[r],
             claims |-> {r} \X ((Claims[r] \cap Settable[r]) \ todo[r])]
  /\ pc[r] = "fn" => identity[conn[r]] = Own(r)

Telling(r) ==
  /\ effect[r] \in {0, 1}
  /\ inflight[r] => effect[r] = 0 /\ err[r] = "lost"
  /\ effect[r] = 1 \/ inflight[r] => pc[r] \in {"decide", "done"}
  /\ pc[r] = "rollback" => err[r] \in {"serial", "other"}
  /\ pc[r] \in {"decide", "done"} =>
       /\ err[r] = "none" => effect[r] = 1
       /\ err[r] \in {"serial", "other"} => effect[r] = 0
  /\ reply[r] = IF pc[r] = "done" THEN Answer(err[r]) ELSE "none"

Inv == /\ TypeOK
       /\ Ownership
       /\ PoolIsClean
       /\ \A r \in Requests : Applying(r) /\ Telling(r)

\* A finished transaction leaves nothing on its connection (tx.go:98-100).
LEMMA CleanAfterTx == ASSUME NEW id
                      PROVE  AfterTx(id) = Nobody
  BY DEF AfterTx, Scope

\* A fresh session has an identity (tx.go:98-100).
LEMMA NobodyType == Nobody \in Identities
  BY DEF Nobody, Identities

\* A connection that is given back is well typed (tx.go:86, 95).
LEMMA ReleaseTypes ==
  ASSUME TypeOK, NEW r \in Requests, NEW x \in BOOLEAN, Release(r, x)
  PROVE  /\ tx' \in [Conns -> {"none", "open", "aborted"}]
         /\ identity' \in [Conns -> Identities]
         /\ conn' \in [Requests -> Conns \cup {NoConn}]
<1>1. tx' \in [Conns -> {"none", "open", "aborted"}]
  BY DEF TypeOK, Release
<1>2. identity' = [identity EXCEPT ![conn[r]] = Nobody]
  BY CleanAfterTx DEF TypeOK, Release
<1>3. identity' \in [Conns -> Identities]
  BY <1>2, NobodyType DEF TypeOK
<1>4. conn' \in [Requests -> Conns \cup {NoConn}]
  BY DEF TypeOK, Release
<1>5. QED
  BY <1>1, <1>3, <1>4

\* Every step keeps the types (tx.go:64-135).
LEMMA TypePreserved ==
  ASSUME TypeOK, Ownership, [Next]_vars
  PROVE  TypeOK'
<1> USE ConstantsAssumption DEF TypeOK, Errors
<1>1. CASE UNCHANGED vars
  BY <1>1 DEF vars
<1>2. ASSUME NEW r \in Requests, Cancel(r)
      PROVE  TypeOK'
  BY <1>2 DEF Cancel
<1>3. ASSUME NEW r \in Requests, NEW c \in Conns, Begin(r, c)
      PROVE  TypeOK'
  BY <1>3 DEF Begin, Goto
<1>4. ASSUME NEW r \in Requests, BeginFails(r)
      PROVE  TypeOK'
  BY <1>4 DEF BeginFails, Goto
<1>5. ASSUME NEW r \in Requests, SetRole(r)
      PROVE  TypeOK'
  <2>1. conn[r] \in Conns
    BY <1>5 DEF SetRole, Ownership, Working
  <2>2. [identity[conn[r]] EXCEPT !.role = Role[r]] \in Identities
    BY <2>1 DEF Identities
  <2>3. identity' \in [Conns -> Identities]
    BY <1>5, <2>1, <2>2 DEF SetRole
  <2>4. todo' \in [Requests -> SUBSET Keys]
    BY <1>5 DEF SetRole
  <2>5. QED
    BY <1>5, <2>3, <2>4 DEF SetRole, Goto
<1>6. ASSUME NEW r \in Requests, RefuseRole(r)
      PROVE  TypeOK'
  BY <1>6 DEF RefuseRole, Goto
<1>7. ASSUME NEW r \in Requests, NEW k \in Keys, SetClaim(r, k)
      PROVE  TypeOK'
  <2>1. conn[r] \in Conns
    BY <1>7 DEF SetClaim, Ownership, Working
  <2>2. {x \in identity[conn[r]].claims : x[2] # k} \cup {<<r, k>>}
          \in SUBSET (Requests \X Keys)
    BY <2>1 DEF Identities
  <2>3. identity' \in [Conns -> Identities]
    BY <1>7, <2>1, <2>2 DEF SetClaim, Identities
  <2>4. todo' \in [Requests -> SUBSET Keys]
    BY <1>7 DEF SetClaim
  <2>5. QED
    BY <1>7, <2>3, <2>4 DEF SetClaim
<1>8. ASSUME NEW r \in Requests, IdentityApplied(r)
      PROVE  TypeOK'
  BY <1>8 DEF IdentityApplied, Goto
<1>9. ASSUME NEW r \in Requests, NEW e \in Errors, IdentityFails(r, e)
      PROVE  TypeOK'
  BY <1>9 DEF IdentityFails, Goto, StatementFails
<1>10. ASSUME NEW r \in Requests, FnStatementFails(r)
      PROVE  TypeOK'
  BY <1>10 DEF FnStatementFails, callVars
<1>11. ASSUME NEW r \in Requests, NEW e \in Errors, FnFails(r, e)
      PROVE  TypeOK'
  BY <1>11 DEF FnFails, Goto
<1>12. ASSUME NEW r \in Requests, FnReturns(r)
      PROVE  TypeOK'
  BY <1>12 DEF FnReturns, Goto
<1>13. ASSUME NEW r \in Requests, Commit(r)
      PROVE  TypeOK'
  <2>1. Release(r, TRUE)
    BY <1>13 DEF Commit
  <2>2. effect' \in [Requests -> Nat]
    BY <1>13 DEF Commit
  <2>3. QED
    BY <1>13, <2>1, <2>2, ReleaseTypes DEF Commit, Goto
<1>14. ASSUME NEW r \in Requests, NEW e \in Errors, CommitRefused(r, e)
      PROVE  TypeOK'
  <2>1. Release(r, TRUE)
    BY <1>14 DEF CommitRefused
  <2>2. QED
    BY <1>14, <2>1, ReleaseTypes DEF CommitRefused, Goto
<1>15. ASSUME NEW r \in Requests, CommitNotSent(r)
      PROVE  TypeOK'
  <2>1. Release(r, FALSE)
    BY <1>15 DEF CommitNotSent
  <2>2. QED
    BY <1>15, <2>1, ReleaseTypes DEF CommitNotSent, Goto
<1>16. ASSUME NEW r \in Requests, CommitLost(r)
      PROVE  TypeOK'
  <2>1. Release(r, FALSE)
    BY <1>16 DEF CommitLost
  <2>2. QED
    BY <1>16, <2>1, ReleaseTypes DEF CommitLost, Goto
<1>17. ASSUME NEW r \in Requests, ServerFinishes(r)
      PROVE  TypeOK'
  BY <1>17 DEF ServerFinishes, callVars
<1>18. ASSUME NEW r \in Requests, NEW x \in BOOLEAN, Rollback(r, x)
      PROVE  TypeOK'
  <2>1. Release(r, x)
    BY <1>18 DEF Rollback
  <2>2. QED
    BY <1>18, <2>1, ReleaseTypes DEF Rollback, Goto
<1>19. ASSUME NEW r \in Requests, Retry(r)
      PROVE  TypeOK'
  BY <1>19 DEF Retry, Goto, Retryable
<1>20. ASSUME NEW r \in Requests, Return(r)
      PROVE  TypeOK'
  BY <1>20 DEF Return, Goto, Retryable, Answer
<1>21. QED
  BY <1>1, <1>2, <1>3, <1>4, <1>5, <1>6, <1>7, <1>8, <1>9, <1>10, <1>11,
     <1>12, <1>13, <1>14, <1>15, <1>16, <1>17, <1>18, <1>19, <1>20 DEF Next,
     Step

\* A connection belongs to one call from its BEGIN to its release, and to none
\* outside (tx.go:82-95).
LEMMA OwnershipPreserved ==
  ASSUME TypeOK, Ownership, [Next]_vars
  PROVE  Ownership'
<1> USE ConstantsAssumption DEF TypeOK, Ownership, Working
<1>1. CASE UNCHANGED vars
  BY <1>1 DEF vars
<1>2. ASSUME NEW r \in Requests, Cancel(r)
      PROVE  Ownership'
  BY <1>2 DEF Cancel
<1>3. ASSUME NEW r \in Requests, NEW c \in Conns, Begin(r, c)
      PROVE  Ownership'
  BY <1>3 DEF Begin, Goto, Idle
<1>4. ASSUME NEW r \in Requests, BeginFails(r)
      PROVE  Ownership'
  BY <1>4 DEF BeginFails, Goto
<1>5. ASSUME NEW r \in Requests, SetRole(r)
      PROVE  Ownership'
  BY <1>5 DEF SetRole, Goto
<1>6. ASSUME NEW r \in Requests, RefuseRole(r)
      PROVE  Ownership'
  BY <1>6 DEF RefuseRole, Goto
<1>7. ASSUME NEW r \in Requests, NEW k \in Keys, SetClaim(r, k)
      PROVE  Ownership'
  BY <1>7 DEF SetClaim
<1>8. ASSUME NEW r \in Requests, IdentityApplied(r)
      PROVE  Ownership'
  BY <1>8 DEF IdentityApplied, Goto
<1>9. ASSUME NEW r \in Requests, NEW e \in Errors, IdentityFails(r, e)
      PROVE  Ownership'
  BY <1>9 DEF IdentityFails, Goto, StatementFails
<1>10. ASSUME NEW r \in Requests, FnStatementFails(r)
      PROVE  Ownership'
  BY <1>10 DEF FnStatementFails, callVars
<1>11. ASSUME NEW r \in Requests, NEW e \in Errors, FnFails(r, e)
      PROVE  Ownership'
  BY <1>11 DEF FnFails, Goto
<1>12. ASSUME NEW r \in Requests, FnReturns(r)
      PROVE  Ownership'
  BY <1>12 DEF FnReturns, Goto
<1>13. ASSUME NEW r \in Requests, Commit(r)
      PROVE  Ownership'
  BY <1>13 DEF Commit, Goto, Release
<1>14. ASSUME NEW r \in Requests, NEW e \in Errors, CommitRefused(r, e)
      PROVE  Ownership'
  BY <1>14 DEF CommitRefused, Goto, Release
<1>15. ASSUME NEW r \in Requests, CommitNotSent(r)
      PROVE  Ownership'
  BY <1>15 DEF CommitNotSent, Goto, Release
<1>16. ASSUME NEW r \in Requests, CommitLost(r)
      PROVE  Ownership'
  BY <1>16 DEF CommitLost, Goto, Release
<1>17. ASSUME NEW r \in Requests, ServerFinishes(r)
      PROVE  Ownership'
  BY <1>17 DEF ServerFinishes, callVars
<1>18. ASSUME NEW r \in Requests, NEW x \in BOOLEAN, Rollback(r, x)
      PROVE  Ownership'
  BY <1>18 DEF Rollback, Goto, Release
<1>19. ASSUME NEW r \in Requests, Retry(r)
      PROVE  Ownership'
  BY <1>19 DEF Retry, Goto, Retryable
<1>20. ASSUME NEW r \in Requests, Return(r)
      PROVE  Ownership'
  BY <1>20 DEF Return, Goto, Retryable
<1>21. QED
  BY <1>1, <1>2, <1>3, <1>4, <1>5, <1>6, <1>7, <1>8, <1>9, <1>10, <1>11,
     <1>12, <1>13, <1>14, <1>15, <1>16, <1>17, <1>18, <1>19, <1>20 DEF Next,
     Step

\* A connection returns to the pool without transaction and identity
\* (tx.go:86, 95, 98-100).
LEMMA CleanPreserved ==
  ASSUME Inv, [Next]_vars
  PROVE  PoolIsClean'
<1> USE CleanAfterTx DEF Inv, TypeOK, Ownership, Working, PoolIsClean, Idle
<1>1. CASE UNCHANGED vars
  BY <1>1 DEF vars
<1>2. ASSUME NEW r \in Requests, Cancel(r)
      PROVE  PoolIsClean'
  BY <1>2 DEF Cancel
<1>3. ASSUME NEW r \in Requests, NEW c \in Conns, Begin(r, c)
      PROVE  PoolIsClean'
  <2>1. conn' = [conn EXCEPT ![r] = c] /\ tx' = [tx EXCEPT ![c] = "open"]
        /\ UNCHANGED identity /\ conn[r] = NoConn
    BY <1>3 DEF Begin
  <2>2. ASSUME NEW d \in Conns, \A s \in Requests : conn'[s] # d
        PROVE  d # c /\ \A s \in Requests : conn[s] # d
    BY <2>1, <2>2, ConstantsAssumption
  <2>3. QED
    BY <2>1, <2>2
<1>4. ASSUME NEW r \in Requests, BeginFails(r)
      PROVE  PoolIsClean'
  BY <1>4 DEF BeginFails, Goto
<1>5. ASSUME NEW r \in Requests, SetRole(r)
      PROVE  PoolIsClean'
  BY <1>5 DEF SetRole, Goto
<1>6. ASSUME NEW r \in Requests, RefuseRole(r)
      PROVE  PoolIsClean'
  BY <1>6 DEF RefuseRole, Goto
<1>7. ASSUME NEW r \in Requests, NEW k \in Keys, SetClaim(r, k)
      PROVE  PoolIsClean'
  BY <1>7 DEF SetClaim
<1>8. ASSUME NEW r \in Requests, IdentityApplied(r)
      PROVE  PoolIsClean'
  BY <1>8 DEF IdentityApplied, Goto
<1>9. ASSUME NEW r \in Requests, NEW e \in Errors, IdentityFails(r, e)
      PROVE  PoolIsClean'
  BY <1>9 DEF IdentityFails, Goto, StatementFails
<1>10. ASSUME NEW r \in Requests, FnStatementFails(r)
      PROVE  PoolIsClean'
  BY <1>10 DEF FnStatementFails, callVars
<1>11. ASSUME NEW r \in Requests, NEW e \in Errors, FnFails(r, e)
      PROVE  PoolIsClean'
  BY <1>11 DEF FnFails, Goto
<1>12. ASSUME NEW r \in Requests, FnReturns(r)
      PROVE  PoolIsClean'
  BY <1>12 DEF FnReturns, Goto
<1>13. ASSUME NEW r \in Requests, Commit(r)
      PROVE  PoolIsClean'
  BY <1>13 DEF Commit, Goto, Release
<1>14. ASSUME NEW r \in Requests, NEW e \in Errors, CommitRefused(r, e)
      PROVE  PoolIsClean'
  BY <1>14 DEF CommitRefused, Goto, Release
<1>15. ASSUME NEW r \in Requests, CommitNotSent(r)
      PROVE  PoolIsClean'
  BY <1>15 DEF CommitNotSent, Goto, Release
<1>16. ASSUME NEW r \in Requests, CommitLost(r)
      PROVE  PoolIsClean'
  BY <1>16 DEF CommitLost, Goto, Release
<1>17. ASSUME NEW r \in Requests, ServerFinishes(r)
      PROVE  PoolIsClean'
  BY <1>17 DEF ServerFinishes, callVars
<1>18. ASSUME NEW r \in Requests, NEW x \in BOOLEAN, Rollback(r, x)
      PROVE  PoolIsClean'
  BY <1>18 DEF Rollback, Goto, Release
<1>19. ASSUME NEW r \in Requests, Retry(r)
      PROVE  PoolIsClean'
  BY <1>19 DEF Retry, Goto, Retryable
<1>20. ASSUME NEW r \in Requests, Return(r)
      PROVE  PoolIsClean'
  BY <1>20 DEF Return, Goto, Retryable
<1>21. QED
  BY <1>1, <1>2, <1>3, <1>4, <1>5, <1>6, <1>7, <1>8, <1>9, <1>10, <1>11,
     <1>12, <1>13, <1>14, <1>15, <1>16, <1>17, <1>18, <1>19, <1>20 DEF Next,
     Step

\* What a step of call r leaves of another call s and of its connection
\* (tx.go:81-96).
LEMMA Elsewhere ==
  ASSUME TypeOK, Ownership, NEW r \in Requests, NEW s \in Requests \ {r},
         \/ Step(r)
         \/ \E c \in Conns : Begin(r, c)
         \/ FnStatementFails(r) \/ Cancel(r) \/ ServerFinishes(r)
  PROVE  /\ pc'[s] = pc[s] /\ todo'[s] = todo[s] /\ err'[s] = err[s]
         /\ reply'[s] = reply[s] /\ conn'[s] = conn[s]
         /\ inflight'[s] = inflight[s] /\ effect'[s] = effect[s]
         /\ conn[s] # NoConn => identity'[conn[s]] = identity[conn[s]]
<1> USE DEF TypeOK, Ownership, Working
<1>1. CASE (\E c \in Conns : Begin(r, c)) \/ Cancel(r) \/ BeginFails(r)
  BY <1>1 DEF Begin, BeginFails, Cancel, Goto
<1>2. CASE FnStatementFails(r) \/ ServerFinishes(r)
  BY <1>2 DEF FnStatementFails, ServerFinishes, callVars
<1>3. CASE SetRole(r) \/ RefuseRole(r) \/ IdentityApplied(r)
  BY <1>3 DEF SetRole, RefuseRole, IdentityApplied, Goto
<1>4. CASE \E k \in Keys : SetClaim(r, k)
  BY <1>4 DEF SetClaim
<1>5. CASE \E e \in Errors : IdentityFails(r, e) \/ FnFails(r, e)
  BY <1>5 DEF IdentityFails, StatementFails, FnFails, Goto
<1>6. CASE FnReturns(r) \/ Retry(r) \/ Return(r)
  BY <1>6 DEF FnReturns, Retry, Return, Goto
<1>7. CASE Commit(r) \/ \E e \in Errors : CommitRefused(r, e)
  BY <1>7 DEF Commit, CommitRefused, Release, Goto
<1>8. CASE CommitNotSent(r) \/ CommitLost(r) \/ \E x \in BOOLEAN : Rollback(r, x)
  BY <1>8 DEF CommitNotSent, CommitLost, Rollback, Release, Goto
<1>9. QED
  BY <1>1, <1>2, <1>3, <1>4, <1>5, <1>6, <1>7, <1>8 DEF Step

\* The identity on a call's connection is as far as ApplyIdentity has come
\* (tx.go:101-135).
LEMMA ApplyingPreserved ==
  ASSUME Inv, [Next]_vars, NEW s \in Requests
  PROVE  Applying(s)'
<1>1. TypeOK /\ Ownership /\ PoolIsClean /\ Applying(s)
  BY DEF Inv
<1>2. CASE Cancel(s)
  BY <1>1, <1>2 DEF Cancel, TypeOK, Ownership, Working, Applying
<1>3. ASSUME NEW c \in Conns, Begin(s, c)
      PROVE  Applying(s)'
  BY <1>1, <1>3 DEF Begin, Goto, TypeOK, Ownership, Working, Applying,
     PoolIsClean, Idle, Own
<1>4. CASE BeginFails(s)
  BY <1>1, <1>4 DEF BeginFails, Goto, TypeOK, Ownership, Working, Applying
<1>5. CASE SetRole(s)
  <2>1. conn[s] \in Conns /\ identity[conn[s]] = Nobody
    BY <1>1, <1>5 DEF SetRole, TypeOK, Ownership, Working, Applying
  <2>2. identity'[conn[s]] = [role |-> Role[s], claims |-> {}]
    <3>1. CASE Role[s] = NoRole
      BY <2>1, <3>1, <1>5, ConstantsAssumption DEF SetRole, Nobody
    <3>2. CASE Role[s] # NoRole
      <4>1. identity' = [identity EXCEPT ![conn[s]].role = Role[s]]
        BY <3>2, <1>5 DEF SetRole
      <4>2. identity'[conn[s]] = [Nobody EXCEPT !.role = Role[s]]
        BY <1>1, <2>1, <4>1 DEF TypeOK
      <4>3. QED
        BY <4>2 DEF Nobody
    <3>3. QED
      BY <3>1, <3>2
  <2>3. {} = {s} \X ((Claims[s] \cap Settable[s]) \ Claims[s])
    OBVIOUS
  <2>4. QED
    BY <1>1, <2>1, <2>2, <2>3, <1>5 DEF SetRole, Goto, TypeOK, Applying
<1>6. CASE RefuseRole(s)
  BY <1>1, <1>6 DEF RefuseRole, Goto, TypeOK, Ownership, Working, Applying
<1>7. ASSUME NEW k \in Keys, SetClaim(s, k)
      PROVE  Applying(s)'
  <2> DEFINE S == (Claims[s] \cap Settable[s]) \ todo[s]
             U == (Claims[s] \cap Settable[s]) \ (todo[s] \ {k})
  <2>1. /\ conn[s] \in Conns /\ k \in Claims[s]
        /\ todo'[s] = todo[s] \ {k} /\ conn' = conn /\ pc' = pc
        /\ identity[conn[s]] = [role |-> Role[s], claims |-> {s} \X S]
    BY <1>1, <1>7 DEF SetClaim, TypeOK, Ownership, Working, Applying
  <2>2. CASE k \notin Settable[s]
    <3>1. S = U
      BY <2>2
    <3>2. QED
      BY <1>1, <2>1, <2>2, <3>1, <1>7 DEF SetClaim, Applying
  <2>3. CASE k \in Settable[s]
    <3>1. {x \in {s} \X S : x[2] # k} \cup {<<s, k>>} = {s} \X U
      BY <2>1, <2>3, <1>7 DEF SetClaim
    <3>2. identity'[conn[s]] = [role |-> Role[s], claims |-> {s} \X U]
      <4>1. identity' = [identity EXCEPT ![conn[s]] =
               [identity[conn[s]] EXCEPT !.claims =
                  {x \in identity[conn[s]].claims : x[2] # k} \cup {<<s, k>>}]]
        BY <2>3, <1>7 DEF SetClaim
      <4>2. identity'[conn[s]] =
               [identity[conn[s]] EXCEPT !.claims =
                  {x \in identity[conn[s]].claims : x[2] # k} \cup {<<s, k>>}]
        BY <1>1, <2>1, <4>1 DEF TypeOK
      <4>3. identity[conn[s]].claims = {s} \X S
        BY <2>1
      <4>4. identity'[conn[s]] = [identity[conn[s]] EXCEPT !.claims = {s} \X U]
        BY <3>1, <4>2, <4>3
      <4>5. QED
        BY <2>1, <4>4
    <3>3. QED
      BY <1>1, <2>1, <3>2, <1>7 DEF SetClaim, Applying
  <2>4. QED
    BY <2>2, <2>3
<1>8. CASE IdentityApplied(s)
  BY <1>1, <1>8 DEF IdentityApplied, Goto, TypeOK, Ownership, Working,
     Applying, Own
<1>9. ASSUME NEW e \in Errors, IdentityFails(s, e)
      PROVE  Applying(s)'
  BY <1>1, <1>9 DEF IdentityFails, Goto, StatementFails, TypeOK, Ownership,
     Working, Applying
<1>10. CASE FnStatementFails(s)
  BY <1>1, <1>10 DEF FnStatementFails, callVars, TypeOK, Ownership,
     Working, Applying
<1>11. ASSUME NEW e \in Errors, FnFails(s, e)
      PROVE  Applying(s)'
  BY <1>1, <1>11 DEF FnFails, Goto, TypeOK, Ownership, Working, Applying
<1>12. CASE FnReturns(s)
  BY <1>1, <1>12 DEF FnReturns, Goto, TypeOK, Ownership, Working, Applying
<1>13. CASE Commit(s)
  BY <1>1, <1>13 DEF Commit, Goto, Release, TypeOK, Ownership, Working,
     Applying
<1>14. ASSUME NEW e \in Errors, CommitRefused(s, e)
      PROVE  Applying(s)'
  BY <1>1, <1>14 DEF CommitRefused, Goto, Release, TypeOK, Ownership,
     Working, Applying
<1>15. CASE CommitNotSent(s)
  BY <1>1, <1>15 DEF CommitNotSent, Goto, Release, TypeOK, Ownership,
     Working, Applying
<1>16. CASE CommitLost(s)
  BY <1>1, <1>16 DEF CommitLost, Goto, Release, TypeOK, Ownership, Working,
     Applying
<1>17. CASE ServerFinishes(s)
  BY <1>1, <1>17 DEF ServerFinishes, callVars, TypeOK, Ownership, Working,
     Applying
<1>18. ASSUME NEW x \in BOOLEAN, Rollback(s, x)
      PROVE  Applying(s)'
  BY <1>1, <1>18 DEF Rollback, Goto, Release, TypeOK, Ownership, Working,
     Applying
<1>19. CASE Retry(s)
  BY <1>1, <1>19 DEF Retry, Goto, Retryable, TypeOK, Ownership, Working,
     Applying
<1>20. CASE Return(s)
  BY <1>1, <1>20 DEF Return, Goto, Retryable, TypeOK, Ownership, Working,
     Applying
<1>21. ASSUME NEW r \in Requests \ {s},
             Step(r) \/ (\E c \in Conns : Begin(r, c))
             \/ FnStatementFails(r) \/ Cancel(r) \/ ServerFinishes(r)
      PROVE  Applying(s)'
  <2>1. /\ pc'[s] = pc[s] /\ todo'[s] = todo[s] /\ err'[s] = err[s]
        /\ reply'[s] = reply[s] /\ conn'[s] = conn[s]
        /\ inflight'[s] = inflight[s] /\ effect'[s] = effect[s]
        /\ conn[s] # NoConn => identity'[conn[s]] = identity[conn[s]]
    BY <1>1, <1>21, Elsewhere
  <2>2. QED
    BY <1>1, <2>1 DEF Applying, Ownership, Working
<1>22. CASE UNCHANGED vars
  BY <1>1, <1>22 DEF vars, TypeOK, Ownership, Working, Applying
<1>23. QED
  BY <1>2, <1>3, <1>4, <1>5, <1>6, <1>7, <1>8, <1>9, <1>10, <1>11, <1>12,
     <1>13, <1>14, <1>15, <1>16, <1>17, <1>18, <1>19, <1>20, <1>21, <1>22 DEF
     Next, Step

\* What the error of a call says of its effects is true (tx.go:69-79).
LEMMA TellingPreserved ==
  ASSUME Inv, [Next]_vars, NEW s \in Requests
  PROVE  Telling(s)'
<1>1. TypeOK /\ Ownership /\ Telling(s)
  BY DEF Inv
<1>2. CASE Cancel(s)
  BY <1>1, <1>2 DEF Cancel, TypeOK, Telling, Answer
<1>3. ASSUME NEW c \in Conns, Begin(s, c)
      PROVE  Telling(s)'
  BY <1>1, <1>3 DEF Begin, Goto, TypeOK, Telling, Answer
<1>4. CASE BeginFails(s)
  BY <1>1, <1>4 DEF BeginFails, Goto, TypeOK, Telling, Answer
<1>5. CASE SetRole(s)
  BY <1>1, <1>5 DEF SetRole, Goto, TypeOK, Telling, Answer
<1>6. CASE RefuseRole(s)
  BY <1>1, <1>6 DEF RefuseRole, Goto, TypeOK, Telling, Answer
<1>7. ASSUME NEW k \in Keys, SetClaim(s, k)
      PROVE  Telling(s)'
  BY <1>1, <1>7 DEF SetClaim, TypeOK, Telling, Answer
<1>8. CASE IdentityApplied(s)
  BY <1>1, <1>8 DEF IdentityApplied, Goto, TypeOK, Telling, Answer
<1>9. ASSUME NEW e \in Errors, IdentityFails(s, e)
      PROVE  Telling(s)'
  BY <1>1, <1>9 DEF IdentityFails, Goto, StatementFails, TypeOK, Telling,
     Answer
<1>10. CASE FnStatementFails(s)
  BY <1>1, <1>10 DEF FnStatementFails, callVars, TypeOK, Telling, Answer
<1>11. ASSUME NEW e \in Errors, FnFails(s, e)
      PROVE  Telling(s)'
  BY <1>1, <1>11 DEF FnFails, Goto, TypeOK, Telling, Answer
<1>12. CASE FnReturns(s)
  BY <1>1, <1>12 DEF FnReturns, Goto, TypeOK, Telling, Answer
<1>13. CASE Commit(s)
  BY <1>1, <1>13 DEF Commit, Goto, Release, TypeOK, Telling, Answer
<1>14. ASSUME NEW e \in Errors, CommitRefused(s, e)
      PROVE  Telling(s)'
  BY <1>1, <1>14 DEF CommitRefused, Goto, Release, TypeOK, Telling, Answer
<1>15. CASE CommitNotSent(s)
  BY <1>1, <1>15 DEF CommitNotSent, Goto, Release, TypeOK, Telling, Answer
<1>16. CASE CommitLost(s)
  BY <1>1, <1>16 DEF CommitLost, Goto, Release, TypeOK, Telling, Answer
<1>17. CASE ServerFinishes(s)
  BY <1>1, <1>17 DEF ServerFinishes, callVars, TypeOK, Telling, Answer
<1>18. ASSUME NEW x \in BOOLEAN, Rollback(s, x)
      PROVE  Telling(s)'
  BY <1>1, <1>18 DEF Rollback, Goto, Release, TypeOK, Telling, Answer
<1>19. CASE Retry(s)
  BY <1>1, <1>19 DEF Retry, Goto, Retryable, TypeOK, Telling, Answer
<1>20. CASE Return(s)
  BY <1>1, <1>20 DEF Return, Goto, Retryable, TypeOK, Telling, Answer
<1>21. ASSUME NEW r \in Requests \ {s},
             Step(r) \/ (\E c \in Conns : Begin(r, c))
             \/ FnStatementFails(r) \/ Cancel(r) \/ ServerFinishes(r)
      PROVE  Telling(s)'
  <2>1. /\ pc'[s] = pc[s] /\ todo'[s] = todo[s] /\ err'[s] = err[s]
        /\ reply'[s] = reply[s] /\ conn'[s] = conn[s]
        /\ inflight'[s] = inflight[s] /\ effect'[s] = effect[s]
        /\ conn[s] # NoConn => identity'[conn[s]] = identity[conn[s]]
    BY <1>1, <1>21, Elsewhere
  <2>2. QED
    BY <1>1, <2>1 DEF Telling
<1>22. CASE UNCHANGED vars
  BY <1>1, <1>22 DEF vars, TypeOK, Telling, Answer
<1>23. QED
  BY <1>2, <1>3, <1>4, <1>5, <1>6, <1>7, <1>8, <1>9, <1>10, <1>11, <1>12,
     <1>13, <1>14, <1>15, <1>16, <1>17, <1>18, <1>19, <1>20, <1>21, <1>22 DEF
     Next, Step

\* The inductive invariant holds of fresh calls and a fresh pool (tx.go:64-69).
LEMMA InvInit == Init => Inv
<1> SUFFICES ASSUME Init
             PROVE  Inv
  OBVIOUS
<1> USE ConstantsAssumption, NobodyType DEF Init
<1>1. TypeOK
  BY DEF TypeOK, Errors
<1>2. Ownership /\ PoolIsClean
  BY DEF Ownership, Working, PoolIsClean
<1>3. ASSUME NEW r \in Requests
      PROVE  Applying(r) /\ Telling(r)
  BY DEF Applying, Telling
<1>4. QED
  BY <1>1, <1>2, <1>3 DEF Inv

\* Every step of a call, of its callback and of the database keeps it
\* (tx.go:64-135).
LEMMA InvNext == Inv /\ [Next]_vars => Inv'
<1> SUFFICES ASSUME Inv, [Next]_vars
             PROVE  Inv'
  OBVIOUS
<1>1. TypeOK' /\ Ownership' /\ PoolIsClean'
  BY TypePreserved, OwnershipPreserved, CleanPreserved DEF Inv
<1>2. ASSUME NEW r \in Requests
      PROVE  Applying(r)' /\ Telling(r)'
  BY ApplyingPreserved, TellingPreserved
<1>3. QED
  BY <1>1, <1>2 DEF Inv

\* Every reachable state satisfies the inductive invariant (tx.go:64-135).
THEOREM Invariance == Spec => []Inv
  BY InvInit, InvNext, PTL DEF Spec

\* Type correctness of the calls, the pool and the sessions (tx.go:64-135).
THEOREM TypeCorrect == Spec => []TypeOK
<1>1. Inv => TypeOK
  BY DEF Inv
<1>2. QED
  BY <1>1, Invariance, PTL

\* A callback runs under its own request's identity, whatever the requests
\* that used its connection before did (tx.go:81-135).
THEOREM Isolation == Spec => []RunsAsItself
<1>1. Inv => RunsAsItself
  BY DEF Inv, Applying, RunsAsItself
<1>2. QED
  BY <1>1, Invariance, PTL

\* No connection in the pool carries a transaction or an identity (tx.go:86).
THEOREM CleanPool == Spec => []PoolIsClean
<1>1. Inv => PoolIsClean
  BY DEF Inv
<1>2. QED
  BY <1>1, Invariance, PTL

\* An attempt is only repeated when the one before left nothing behind, at
\* the server or in the client (tx.go:71-75).
THEOREM SafeRetries == Spec => RetriesAreSafe
<1>1. ASSUME Inv, [Next]_vars, NEW r \in Requests, attempt'[r] # attempt[r]
      PROVE  conn[r] = NoConn /\ effect[r] = 0 /\ ~inflight[r]
  <2>1. attempt' # attempt
    BY <1>1
  <2>2. PICK s \in Requests : Retry(s)
    BY <1>1, <2>1 DEF Next, Step, Cancel, Begin, BeginFails, SetRole,
       RefuseRole, SetClaim, IdentityApplied, IdentityFails, FnStatementFails,
       FnFails, FnReturns, Commit, CommitRefused, CommitNotSent, CommitLost,
       ServerFinishes, Rollback, Return, callVars, vars
  <2>3. s = r
    BY <1>1, <2>2 DEF Retry, Inv, TypeOK
  <2>4. QED
    BY <2>2, <2>3, <1>1 DEF Retry, Retryable, Inv, Ownership, Working, Telling
<1>2. Inv /\ [Next]_vars
        => [\A r \in Requests : attempt'[r] # attempt[r]
              => conn[r] = NoConn /\ effect[r] = 0 /\ ~inflight[r]]_vars
  BY <1>1
<1>3. QED
  BY <1>2, Invariance, PTL DEF Spec, RetriesAreSafe

\* RunTx implements TxOutcome: effects at most once, and true answers
\* (tx.go:57-79).
THEOREM Refinement == Spec => OutcomeSpec
<1>1. Init => Outcome!Init
  BY DEF Init, Outcome!Init
<1>2. ASSUME Inv, [Next]_vars
      PROVE  [Outcome!Next]_(Outcome!vars)
  <2> USE DEF Outcome!Next, Outcome!vars, Outcome!Take, Outcome!Answer
  <2>1. CASE UNCHANGED <<effect, reply>>
    BY <2>1
  <2>2. ASSUME NEW r \in Requests, Commit(r)
        PROVE  Outcome!Take(r)
    <3>1. effect[r] = 0 /\ reply[r] = "none"
      BY <1>2, <2>2 DEF Inv, Telling, Commit
    <3>2. QED
      BY <2>2, <3>1 DEF Commit
  <2>3. ASSUME NEW r \in Requests, ServerFinishes(r), ~UNCHANGED effect
        PROVE  Outcome!Take(r)
    BY <1>2, <2>3 DEF Inv, Telling, ServerFinishes, callVars, Answer
  <2>4. ASSUME NEW r \in Requests, Return(r)
        PROVE  Outcome!Answer(r, Answer(err[r]))
    BY <1>2, <2>4 DEF Inv, TypeOK, Errors, Telling, Return, Answer
  <2>5. ASSUME NEW e
        PROVE  Answer(e) \in {"ok", "failed", "unknown"}
    BY DEF Answer
  <2>6. ASSUME NEW r \in Requests, Step(r) \/ ServerFinishes(r)
        PROVE  [Outcome!Next]_(Outcome!vars)
    BY <2>1, <2>2, <2>3, <2>4, <2>5, <2>6 DEF Step, BeginFails, SetRole,
       RefuseRole, SetClaim, IdentityApplied, IdentityFails, FnFails,
       FnReturns, CommitRefused, CommitNotSent, CommitLost, Rollback, Retry,
       ServerFinishes, callVars
  <2>7. QED
    BY <1>2, <2>1, <2>6 DEF Next, Begin, Cancel, FnStatementFails, callVars, vars
<1>3. QED
  BY <1>1, <1>2, Invariance, PTL DEF Spec, OutcomeSpec, Outcome!Spec

=============================================================================
