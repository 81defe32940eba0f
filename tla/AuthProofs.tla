------------------------------ MODULE AuthProofs ------------------------------
(***************************************************************************)
(* Proofs about module Auth, for any sections, headers, keys and tokens.   *)
(*                                                                         *)
(* The state a reply depends on does not change before the next step       *)
(* forgets it (Answered), the Authenticator always is the one of the       *)
(* section in force (Built), and a minted token carries what its section   *)
(* said (Stamped).  What a reply grants then follows from Authenticate     *)
(* alone.                                                                  *)
(***************************************************************************)
EXTENDS Auth, TLAPS

Built == rls \in Sections /\ auth = AuthConfig(rls)

Stamped(t) ==
  t.under # Nil =>
    /\ t.alg = "HS" /\ t.key = t.under.secret
    /\ t.under.issuer # Empty => t.iss = t.under.issuer
    /\ t.under.audience # Empty => t.aud = t.under.audience

Answered ==
  exchange # Nil =>
    /\ exchange.req \in Requests
    /\ exchange.reply \in Authenticate(exchange.req)

Inv ==
  /\ Built
  /\ now \in 0 .. MaxNow
  /\ \A t \in issued : t \in Tokens /\ Stamped(t)
  /\ Answered

-----------------------------------------------------------------------------
(* The invariant *)

\* AuthConfig changes nothing but the proxies (validate.go:119-143).
LEMMA Converted ==
  ASSUME NEW c \in Sections
  PROVE  LET a == AuthConfig(c) IN
         /\ a.enabled = c.enabled /\ a.mode = c.mode /\ a.secret = c.secret
         /\ a.jwks = c.jwks /\ a.issuer = c.issuer /\ a.audience = c.audience
         /\ a.claim = c.claim /\ a.default = c.default
         /\ a.anonymous = c.anonymous /\ a.allowed = c.allowed
         /\ a.proxies = IF c.proxies = {} THEN Nil
              ELSE UNION {Covers[e] : e \in {f \in c.proxies : Parses(f)}}
<1>1. c \in RLS
  BY ConstantsAssumption
<1> QED BY <1>1 DEF AuthConfig, RLS

\* A token minted carries the issuer and the audience of its section
\* (mint.go:66-82).
LEMMA SignStamps ==
  ASSUME Built, NEW c \in Composites
  PROVE  Sign(c) \in Tokens /\ Stamped(Sign(c))
<1>1. c \in [claims : ClaimMaps, exp : Nat, nbf : Nat,
             iss : Texts \cup {Empty}, aud : Texts \cup {Empty}]
  BY ConstantsAssumption
<1>2. /\ rls \in Sections /\ rls.secret \in Secrets \cup {Empty}
      /\ rls.issuer \in Texts \cup {Empty} /\ rls.audience \in Texts \cup {Empty}
  BY ConstantsAssumption DEF Built, RLS
<1>3. Sign(c) \in Tokens
  BY <1>1, <1>2 DEF Sign, Tokens
<1>4. Stamped(Sign(c))
  BY DEF Sign, Stamped
<1> QED BY <1>3, <1>4

\* Only composites become tokens (mint.go:37-64).
LEMMA MintedTokens ==
  ASSUME Built, NEW call \in Calls, NEW t \in Minted(call.items)
  PROVE  t \in Tokens /\ Stamped(t)
<1>1. PICK i \in DOMAIN call.items : call.items[i] # Null /\ call.items[i] # Broken
                                      /\ t = Sign(call.items[i])
  BY DEF Minted
<1>2. call.items[i] \in Composites
  BY <1>1, ConstantsAssumption
<1> QED BY <1>1, <1>2, SignStamps

LEMMA InitInv == Init => Inv
  BY ConstantsAssumption DEF Init, Inv, Built, Answered

LEMMA NextInv == Inv /\ [Next]_vars => Inv'
<1> SUFFICES ASSUME Inv, [Next]_vars PROVE Inv'
  OBVIOUS
<1> USE DEF Inv
<1>1. ASSUME NEW c \in Sections, Restart(c) PROVE Inv'
  BY <1>1 DEF Restart, Built, Answered, Stamped
<1>2. ASSUME Tick PROVE Inv'
  BY <1>2, ConstantsAssumption DEF Tick, Built, Answered, Stamped
<1>3. ASSUME NEW call \in Calls, Mint(call) PROVE Inv'
  <2>1. \A t \in issued' : t \in Tokens /\ Stamped(t)
    BY <1>3, MintedTokens DEF Mint
  <2> QED BY <1>3, <2>1 DEF Mint, Built, Answered, Stamped
<1>4. ASSUME NEW c \in Composites, NEW alg \in {"RS", "HS"},
             NEW key \in PublicKeys \cup Secrets, Issue(c, alg, key)
      PROVE  Inv'
  <2> DEFINE t == [alg |-> alg, key |-> key, claims |-> c.claims, exp |-> c.exp,
                   nbf |-> c.nbf, iss |-> c.iss, aud |-> c.aud, under |-> Nil]
  <2>1. c \in [claims : ClaimMaps, exp : Nat, nbf : Nat,
               iss : Texts \cup {Empty}, aud : Texts \cup {Empty}]
    BY ConstantsAssumption
  <2>2. t \in Tokens /\ Stamped(t)
    BY <2>1 DEF Tokens, Stamped
  <2>3. issued' = issued \cup {t} /\ exchange' = Nil /\ UNCHANGED <<rls, auth, now>>
    BY <1>4 DEF Issue
  <2> HIDE DEF t
  <2> QED BY <2>2, <2>3 DEF Built, Answered, Stamped
<1>5. ASSUME NEW r \in Requests, Request(r) PROVE Inv'
  <2>1. PICK reply \in Authenticate(r) : exchange' = [req |-> r, reply |-> reply]
    BY <1>5 DEF Request
  <2>2. UNCHANGED <<rls, auth, now, issued>>
    BY <1>5 DEF Request
  <2>3. Authenticate(r)' = Authenticate(r) /\ Requests' = Requests
    BY <2>2 DEF Authenticate, FromJWT, FromHeaders, Anonymous, Resolve, FromClaim, Fallback,
         RoleAllowed, Signed, Timely, Matches, PeerTrusted, Requests
  <2>4. Answered'
    BY <2>1, <2>3 DEF Answered
  <2> QED BY <2>2, <2>4 DEF Built, Stamped
<1>6. CASE UNCHANGED vars
  <2>1. exchange' = exchange /\ UNCHANGED <<rls, auth, now, issued>>
    BY <1>6 DEF vars
  <2>2. \A r : Authenticate(r)' = Authenticate(r)
    BY <2>1 DEF Authenticate, FromJWT, FromHeaders, Anonymous, Resolve, FromClaim, Fallback,
         RoleAllowed, Signed, Timely, Matches, PeerTrusted
  <2>3. Requests' = Requests
    BY <2>1 DEF Requests
  <2> QED BY <2>1, <2>2, <2>3 DEF Built, Answered, Stamped
<1> QED BY <1>1, <1>2, <1>3, <1>4, <1>5, <1>6 DEF Next

\* The invariant the theorems below are drawn from.
THEOREM Invariance == Spec => []Inv
  BY InitInv, NextInv, PTL DEF Spec


-----------------------------------------------------------------------------
(* What a reply grants *)

\* Resolve gives the role of the claim, when the policy allows it, or the
\* fallback, or an error (auth.go:196-227).
LEMMA Resolved ==
  ASSUME Built, NEW claims \in ClaimMaps
  PROVE  LET reply == Resolve(claims) IN
         \/ /\ reply.err = "none" /\ reply.claims = claims
            /\ \/ /\ rls.claim \in DOMAIN claims /\ claims[rls.claim] \in Roles
                  /\ reply.role = claims[rls.claim]
                  /\ rls.allowed = {} \/ reply.role \in rls.allowed
                                      \/ reply.role \in {rls.default, rls.anonymous}
               \/ /\ reply.role = Fallback
                  /\ rls.default # Empty => reply.role = rls.default
                  /\ rls.default = Empty => reply.role = rls.anonymous
         \/ reply = Refused("role")
<1>1. /\ auth.claim = rls.claim /\ auth.allowed = rls.allowed
      /\ auth.default = rls.default /\ auth.anonymous = rls.anonymous
  BY Converted DEF Built
<1> QED BY <1>1 DEF Resolve, FromClaim, Fallback, RoleAllowed, Reply

\* The claims of headers are values of the claims named (auth.go:155-163).
LEMMA ClaimsOfHeaders ==
  ASSUME NEW headers \in HeaderMaps, NEW claims \in HeaderClaims(headers)
  PROVE  claims \in ClaimMaps
<1>1. Carried(headers) \subseteq ClaimKeys
  BY ConstantsAssumption DEF Carried
<1>2. claims \in [Carried(headers) -> ClaimValues]
  BY DEF HeaderClaims
<1> QED BY <1>1, <1>2 DEF ClaimMaps

\* The three ways out of Authenticate with the section enabled: the anonymous
\* role, a refusal, or what Resolve makes of presented claims (auth.go:99-191).
LEMMA Ways ==
  ASSUME Inv, exchange # Nil, rls.enabled
  PROVE  LET reply == exchange.reply
             r == exchange.req
         IN \/ reply = Reply(Nothing, rls.anonymous) /\ ~Presents
            \/ reply = Refused("invalid") /\ Presents
            \/ /\ rls.mode = "jwt" /\ r.authz \in issued /\ Presents
               /\ Signed(r.authz) /\ Timely(r.authz) /\ Matches(r.authz)
               /\ r.authz.claims \in ClaimMaps /\ reply = Resolve(r.authz.claims)
            \/ /\ rls.mode = "headers" /\ PeerTrusted(r.peer) /\ Presents
               /\ \E claims \in ClaimMaps :
                    claims \in HeaderClaims(r.headers) /\ reply = Resolve(claims)
<1>1. /\ auth.enabled = rls.enabled /\ auth.mode = rls.mode
      /\ auth.anonymous = rls.anonymous
  BY Converted DEF Inv, Built
<1>2. exchange.req \in Requests /\ exchange.reply \in Authenticate(exchange.req)
  BY DEF Inv, Answered
<1>3. CASE rls.mode = "jwt"
  <2>1. exchange.reply \in FromJWT(exchange.req.authz)
    BY <1>1, <1>2, <1>3 DEF Authenticate
  <2>2. CASE exchange.req.authz = NoAuthz
    BY <1>1, <1>3, <2>1, <2>2 DEF FromJWT, Anonymous, Presents
  <2>3. CASE exchange.req.authz # NoAuthz /\ exchange.req.authz = NotBearer
    BY <1>3, <2>1, <2>3 DEF FromJWT, Presents
  <2>4. CASE exchange.req.authz # NoAuthz /\ exchange.req.authz # NotBearer
    <3>1. exchange.req.authz \in issued
      BY <1>2, <2>4 DEF Requests
    <3>2. exchange.req.authz.claims \in ClaimMaps
      BY <3>1 DEF Inv, Tokens
    <3>3. CASE exchange.reply = Refused("invalid")
      BY <1>3, <2>4, <3>3 DEF Presents
    <3>4. CASE exchange.reply # Refused("invalid")
      <4>1. exchange.reply = Resolve(exchange.req.authz.claims)
        BY <2>1, <2>4, <3>4 DEF FromJWT
      <4>2. exchange.reply.err # "invalid"
        BY <3>2, <4>1 DEF Resolve, Reply, Refused
      <4>3. Signed(exchange.req.authz) /\ Timely(exchange.req.authz)
              /\ Matches(exchange.req.authz)
        BY <2>1, <2>4, <4>2 DEF FromJWT
      <4> QED BY <1>3, <2>4, <3>1, <3>2, <4>1, <4>3 DEF Presents
    <3> QED BY <3>3, <3>4
  <2> QED BY <2>2, <2>3, <2>4
<1>4. CASE rls.mode = "headers"
  <2> DEFINE headers == exchange.req.headers
  <2>1. exchange.reply \in FromHeaders(headers, exchange.req.peer)
    BY <1>1, <1>2, <1>4 DEF Authenticate
  <2>2. headers \in HeaderMaps
    BY <1>2 DEF Requests
  <2>3. CASE Carried(headers) = {}
    <3>1. ~Presents
      BY <1>4, <2>3 DEF Presents, Carried
    <3> QED BY <1>1, <2>1, <2>3, <3>1 DEF FromHeaders, Anonymous
  <2>4. Carried(headers) # {} => Presents
    BY <1>4 DEF Presents, Carried
  <2>5. CASE Carried(headers) # {} /\ ~PeerTrusted(exchange.req.peer)
    BY <2>1, <2>4, <2>5 DEF FromHeaders
  <2>6. CASE Carried(headers) # {} /\ PeerTrusted(exchange.req.peer)
    <3>1. PICK claims \in HeaderClaims(headers) : exchange.reply = Resolve(claims)
      BY <2>1, <2>6 DEF FromHeaders
    <3>2. claims \in ClaimMaps
      BY <2>2, ClaimsOfHeaders
    <3> QED BY <1>4, <2>4, <2>6, <3>1, <3>2
  <2> QED BY <2>3, <2>5, <2>6
<1>5. CASE rls.mode \notin {"jwt", "headers"}
  <2>1. exchange.reply = Anonymous
    BY <1>1, <1>2, <1>5 DEF Authenticate
  <2> QED BY <1>1, <1>5, <2>1 DEF Anonymous, Presents
<1> QED BY <1>3, <1>4, <1>5

-----------------------------------------------------------------------------
(* The properties *)

\* What a granted reply holds, in one statement: the anonymous reply to a
\* request that presents nothing, or claims with a role drawn from them or
\* from the defaults.
LEMMA Grants ==
  ASSUME Inv, Granted
  PROVE  LET reply == exchange.reply IN
         \/ reply = Reply(Nothing, rls.anonymous) /\ ~Presents
         \/ /\ reply.claims \in ClaimMaps
            /\ \/ rls.mode = "jwt"
               \/ rls.mode = "headers" /\ PeerTrusted(exchange.req.peer)
            /\ \/ /\ rls.claim \in DOMAIN reply.claims
                  /\ reply.claims[rls.claim] \in Roles
                  /\ reply.role = reply.claims[rls.claim]
                  /\ rls.allowed = {} \/ reply.role \in rls.allowed
                                      \/ reply.role \in {rls.default, rls.anonymous}
               \/ /\ rls.default # Empty => reply.role = rls.default
                  /\ rls.default = Empty => reply.role = rls.anonymous
<1>1. exchange # Nil /\ rls.enabled /\ exchange.reply.err = "none" /\ Built
  BY DEF Granted, Served, Inv
<1>2. \A kind \in {"invalid", "role"} : exchange.reply # Refused(kind)
  BY <1>1 DEF Refused
<1>3. CASE exchange.reply = Reply(Nothing, rls.anonymous) /\ ~Presents
  BY <1>3
<1>4. CASE \E claims \in ClaimMaps :
             /\ exchange.reply = Resolve(claims)
             /\ \/ rls.mode = "jwt"
                \/ rls.mode = "headers" /\ PeerTrusted(exchange.req.peer)
  <2>1. PICK claims \in ClaimMaps :
          /\ exchange.reply = Resolve(claims)
          /\ \/ rls.mode = "jwt"
             \/ rls.mode = "headers" /\ PeerTrusted(exchange.req.peer)
    BY <1>4
  <2>2. exchange.reply.claims = claims
    BY <1>1, <1>2, <2>1, Resolved
  <2> QED BY <1>1, <1>2, <2>1, <2>2, Resolved
<1> QED BY <1>1, <1>2, <1>3, <1>4, Ways

\* With a section that ValidateRLS accepts no served request is without a
\* role, for any sections, headers and tokens (validate.go:52-54).
THEOREM AlwaysARole == Spec => []NeverConnectionRole
<1>1. Inv => NeverConnectionRole
  <2> SUFFICES ASSUME Inv, Granted, ValidateRLS(rls) = {}
               PROVE  exchange.reply.role # Empty
    BY DEF NeverConnectionRole
  <2>1. rls.anonymous # Empty
    BY DEF ValidateRLS, Granted, Served
  <2>2. CASE exchange.reply = Reply(Nothing, rls.anonymous)
    BY <2>1, <2>2 DEF Reply
  <2>3. CASE exchange.reply.role \in Roles
    BY <2>3, ConstantsAssumption
  <2> QED BY <2>1, <2>2, <2>3, Grants
<1> QED BY <1>1, Invariance, PTL

\* Claim headers count only from inside an entry that parses, for any list of
\* entries, none of which may parse (validate.go:134-141, auth.go:176-191).
THEOREM PeersAreListed == Spec => []OnlyListedPeers
<1>1. Inv => OnlyListedPeers
  <2> SUFFICES ASSUME Inv, Granted, rls.mode = "headers", rls.proxies # {},
                      exchange.reply.claims # Nothing
               PROVE  \E e \in rls.proxies : Parses(e) /\ exchange.req.peer \in Covers[e]
    BY DEF OnlyListedPeers
  <2>1. PeerTrusted(exchange.req.peer)
    BY Grants DEF Reply
  <2>2. auth.proxies = UNION {Covers[e] : e \in {f \in rls.proxies : Parses(f)}}
    BY Converted DEF Inv, Built
  <2>3. auth.proxies # Nil
    <3>1. \A e \in rls.proxies : Parses(e) => Covers[e] \subseteq Peers
      BY ConstantsAssumption DEF Parses
    <3> QED BY <2>2, <3>1, ConstantsAssumption
  <2> QED BY <2>1, <2>2, <2>3 DEF PeerTrusted
<1> QED BY <1>1, Invariance, PTL

\* A role that is granted is a default or the allowed value of the role claim
\* (auth.go:196-227).
THEOREM GrantedRolesAreAllowed == Spec => []RolesAreAllowed
<1>1. Inv => RolesAreAllowed
  <2> SUFFICES ASSUME Inv, Granted
               PROVE  LET role == exchange.reply.role
                          claims == exchange.reply.claims
                      IN  \/ role \in {rls.default, rls.anonymous}
                          \/ /\ rls.claim \in DOMAIN claims /\ claims[rls.claim] = role
                             /\ rls.allowed = {} \/ role \in rls.allowed
    BY DEF RolesAreAllowed
  <2>1. CASE exchange.reply = Reply(Nothing, rls.anonymous)
    BY <2>1 DEF Reply
  <2> QED BY <2>1, Grants
<1> QED BY <1>1, Invariance, PTL

\* A request that presents something is refused or gets the claims it
\* presents, of a token that counts under the section in force or of its
\* headers; one that presents nothing is anonymous (auth.go:96-171).
THEOREM FailsClosed == Spec => []NeverFailsOpen
<1>1. Inv => NeverFailsOpen
  <2> SUFFICES ASSUME Inv, Served PROVE NeverFailsOpen
    BY DEF NeverFailsOpen
  <2>1. exchange # Nil /\ rls.enabled /\ Built
    BY DEF Served, Inv
  <2>2. /\ auth.jwks = rls.jwks /\ auth.secret = rls.secret
        /\ auth.issuer = rls.issuer /\ auth.audience = rls.audience
    BY Converted DEF Inv, Built
  <2>3. \A claims \in ClaimMaps : exchange.reply = Resolve(claims)
          => exchange.reply.err # "none" \/ exchange.reply.claims = claims
    BY <2>1, Resolved DEF Refused
  <2>4. ASSUME NEW t \in issued, Signed(t), Timely(t), Matches(t)
        PROVE  Counts(t)
    <3>1. t.exp \in Nat /\ now \in Nat
      BY ConstantsAssumption DEF Inv, Tokens
    <3> QED BY <2>2, <2>4, <3>1 DEF Signed, Timely, Matches, Counts
  <2>5. ASSUME NEW claims \in HeaderClaims(exchange.req.headers)
        PROVE  SaidBy(exchange.req.headers, claims)
    BY DEF HeaderClaims, Carried, SaidBy
  <2>6. ASSUME Presents, exchange.reply.err = "none"
        PROVE  \/ /\ rls.mode = "jwt" /\ Counts(exchange.req.authz)
                  /\ exchange.reply.claims = exchange.req.authz.claims
               \/ /\ rls.mode = "headers"
                  /\ SaidBy(exchange.req.headers, exchange.reply.claims)
    <3>1. exchange.reply # Refused("invalid")
      BY <2>6 DEF Refused
    <3> QED BY <2>1, <2>3, <2>4, <2>5, <2>6, <3>1, Ways
  <2>7. ~Presents => exchange.reply = Reply(Nothing, rls.anonymous)
    BY <2>1, Ways
  <2> QED BY <2>6, <2>7 DEF NeverFailsOpen
<1> QED BY <1>1, Invariance, PTL

\* A minted token that has not expired is accepted where the secret, issuer
\* and audience it was minted under are still in force and no JWKS URL is set
\* (mint.go:66-82, auth.go:113-153).
THEOREM MintedTokensAreAccepted == Spec => []MintedIsAccepted
<1>1. Inv => MintedIsAccepted
  <2> SUFFICES ASSUME Inv, exchange # Nil, rls.enabled, rls.mode = "jwt", ~rls.jwks,
                      NEW t \in issued, t.under # Nil, exchange.req.authz = t,
                      t.under.secret = rls.secret, t.under.issuer = rls.issuer,
                      t.under.audience = rls.audience, t.nbf <= now, now < t.exp
               PROVE  exchange.reply.err # "invalid"
    BY DEF MintedIsAccepted
  <2>1. /\ auth.enabled = rls.enabled /\ auth.mode = rls.mode
        /\ auth.jwks = rls.jwks /\ auth.secret = rls.secret
        /\ auth.issuer = rls.issuer /\ auth.audience = rls.audience
    BY Converted DEF Inv, Built
  <2>2. t \in Tokens /\ Stamped(t)
    BY DEF Inv
  <2>3. t # NoAuthz /\ t # NotBearer
    BY <2>2, ConstantsAssumption
  <2>4. exchange.reply \in FromJWT(t)
    BY <2>1 DEF Inv, Answered, Authenticate
  <2>5. Signed(t) /\ Matches(t)
    BY <2>1, <2>2 DEF Stamped, Signed, Matches
  <2>6. Timely(t)
    BY <2>2, ConstantsAssumption DEF Inv, Tokens, Timely
  <2> QED BY <2>1, <2>3, <2>4, <2>5, <2>6 DEF FromJWT
<1> QED BY <1>1, Invariance, PTL

\* The variables have their types, and a refused request gets neither claims
\* nor a role (auth.go:150).
THEOREM TypeCorrect == Spec => []TypeOK
<1>1. Inv => TypeOK
  <2> SUFFICES ASSUME Inv, exchange # Nil
               PROVE  /\ exchange.reply \in [err : Errors, claims : ClaimMaps,
                                             role : Roles \cup {Empty}]
                      /\ exchange.reply.err # "none" =>
                           exchange.reply.claims = Nothing /\ exchange.reply.role = Empty
    BY DEF Inv, Built, Answered, TypeOK
  <2>1. Nothing \in ClaimMaps
    BY DEF Nothing, ClaimMaps
  <2>2. \A kind \in {"invalid", "role"} :
          /\ Refused(kind) \in [err : Errors, claims : ClaimMaps, role : Roles \cup {Empty}]
          /\ Refused(kind).claims = Nothing /\ Refused(kind).role = Empty
    BY <2>1 DEF Refused, Errors
  <2>3. rls.default \in Roles \cup {Empty} /\ rls.anonymous \in Roles \cup {Empty}
    BY ConstantsAssumption DEF Inv, Built, RLS
  <2>4. ASSUME NEW role \in Roles \cup {Empty}, NEW claims \in ClaimMaps
        PROVE  /\ Reply(claims, role) \in [err : Errors, claims : ClaimMaps,
                                           role : Roles \cup {Empty}]
               /\ Reply(claims, role).err = "none"
    BY DEF Reply, Errors
  <2>5. CASE ~rls.enabled
    <3>1. exchange.reply = Reply(Nothing, Empty)
      <4>1. ~auth.enabled
        BY <2>5, Converted DEF Inv, Built
      <4> QED BY <4>1 DEF Inv, Answered, Authenticate
    <3> QED BY <2>1, <2>4, <3>1
  <2>6. ASSUME NEW claims \in ClaimMaps
        PROVE  Resolve(claims) \in {Reply(claims, role) : role \in Roles \cup {Empty}}
                                     \cup {Refused("role")}
    <3>1. auth.default = rls.default /\ auth.anonymous = rls.anonymous
      BY Converted DEF Inv, Built
    <3> QED BY <2>3, <3>1 DEF Resolve, FromClaim, Fallback
  <2>7. CASE rls.enabled
    BY <2>1, <2>2, <2>3, <2>4, <2>6, <2>7, Ways
  <2> QED BY <2>5, <2>7
<1> QED BY <1>1, Invariance, PTL

===============================================================================
