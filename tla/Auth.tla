--------------------------------- MODULE Auth ---------------------------------
(***************************************************************************)
(* Who a request is: the rls section of the configuration and its          *)
(* validation (confx), the Authenticator built from it at every start      *)
(* (auth), the tokens that functions of the database mint (jwtmint) and    *)
(* the clock they expire by.                                               *)
(*                                                                         *)
(* External, as src/ uses them: jwt.ParseWithClaims with the options       *)
(* fromJWT gives it, the key service behind jwksCache.key (a key it has    *)
(* published under the token's kid, or an error: module KeyService), and   *)
(* the product that reads the section and serves the requests.             *)
(***************************************************************************)
EXTENDS Naturals, Sequences, FiniteSets

CONSTANTS
  Roles,       \* database roles, as values of claims
  Empty,       \* the empty string
  NotAString,  \* a claim of another JSON type
  ClaimKeys,   \* names of claims
  KeyOf,       \* header name -> the claim name it becomes, or NoKey
  NoKey,       \* the header does not begin with the prefix
  Covers,      \* entry of trusted_proxies that parses -> peers it contains
  Entries,     \* entries of trusted_proxies
  Peers,       \* remote addresses; one in no entry's set may be unparseable
  Nil,         \* a nil slice; no token minted; no request yet
  NoAuthz,     \* no Authorization header
  NotBearer,   \* one without the Bearer prefix
  Null,        \* the JSON null
  Broken,      \* JSON that is no object
  Secrets,     \* HMAC secrets
  PublicKeys,  \* keys whose tokens the key service vouches for
  Sections,    \* the rls sections a product may start with
  HeaderMaps,  \* headers of requests: name -> first value
  Texts,       \* issuers, audiences and names of types
  Composites,  \* what mint functions return: claims, exp, nbf, iss, aud
  Calls,       \* results of function calls: type, whether a set, and items
  MaxNow,      \* bound: the clock
  MaxTokens    \* bound: tokens in circulation

ClaimValues == Roles \cup {Empty, NotAString}
ClaimMaps   == UNION {[D -> ClaimValues] : D \in SUBSET ClaimKeys}
Nothing     == [k \in {} |-> Empty]

\* The settings of the rls section that matter here.
RLS ==
  [enabled : BOOLEAN, mode : {"jwt", "headers", "none", "other"},
   secret : Secrets \cup {Empty}, jwks : BOOLEAN,
   issuer : Texts \cup {Empty}, audience : Texts \cup {Empty},
   proxies : SUBSET Entries, claim : ClaimKeys, default : Roles \cup {Empty},
   anonymous : Roles \cup {Empty}, allowed : SUBSET Roles,
   type : Texts \cup {Empty, "unqualified"}]

\* Tokens: the section they were minted under, or Nil for somebody else's.
Tokens ==
  [alg : {"HS", "RS"}, key : Secrets \cup {Empty} \cup PublicKeys,
   claims : ClaimMaps, exp : Nat, nbf : Nat,
   iss : Texts \cup {Empty}, aud : Texts \cup {Empty},
   under : Sections \cup {Nil}]

ASSUME ConstantsAssumption ==
  /\ Empty \notin Roles /\ NotAString \notin Roles /\ Empty # NotAString
  /\ NoKey \notin ClaimKeys /\ \A p \in SUBSET Peers : p # Nil
  /\ {NoAuthz, NotBearer} \cap Tokens = {}
  /\ DOMAIN Covers \subseteq Entries
  /\ \A e \in DOMAIN Covers : Covers[e] \subseteq Peers
  /\ \A h \in DOMAIN KeyOf : KeyOf[h] \in ClaimKeys \cup {NoKey}
  /\ \A m \in HeaderMaps : DOMAIN m \subseteq DOMAIN KeyOf
  /\ Sections \subseteq RLS
  /\ Composites \subseteq [claims : ClaimMaps, exp : Nat, nbf : Nat,
                           iss : Texts \cup {Empty}, aud : Texts \cup {Empty}]
  /\ \A call \in Calls : \A i \in DOMAIN call.items :
       call.items[i] \in Composites \cup {Null, Broken}
  /\ MaxNow \in Nat /\ MaxTokens \in Nat

VARIABLES
  rls,       \* the rls section in force
  auth,      \* the Authenticator's Config
  now,       \* the clock
  issued,    \* tokens in circulation
  exchange   \* history: the last request and its reply, since then nothing

vars == <<rls, auth, now, issued, exchange>>

-----------------------------------------------------------------------------
(* confx: the rls section *)

Parses(e) == e \in DOMAIN Covers

\* ValidateRLS: the paths of the settings it complains about.
ValidateRLS(c) ==
  {p \in {"mode", "proxies", "secret", "minting", "jwt_type", "anonymous"} :
     \/ p = "mode"      /\ c.mode \notin {"jwt", "headers", "none"}
     \/ p = "proxies"   /\ \E e \in c.proxies : ~Parses(e)
     \/ p = "secret"    /\ c.enabled /\ c.mode = "jwt" /\ c.secret = Empty /\ ~c.jwks
     \/ p = "minting"   /\ c.type # Empty /\ c.secret = Empty
     \/ p = "jwt_type"  /\ c.type = "unqualified"
     \/ p = "anonymous" /\ c.enabled /\ c.anonymous = Empty}

\* Mutant of AuthConfig: a slice that is only made when an entry parses.
AuthConfigNil(c) ==
  LET parsed == {e \in c.proxies : Parses(e)}
  IN  [c EXCEPT !.proxies = IF parsed = {} THEN Nil
                            ELSE UNION {Covers[e] : e \in parsed}]

\* AuthConfig copies the settings; TrustedProxies becomes the peers inside
\* the prefixes, or Nil.
AuthConfig(c) ==
  [c EXCEPT !.proxies =
     IF c.proxies = {} THEN Nil
     ELSE UNION {Covers[e] : e \in {f \in c.proxies : Parses(f)}}]

-----------------------------------------------------------------------------
(* auth: Authenticate, as the set of replies it may give *)

Reply(claims, role) == [err |-> "none", claims |-> claims, role |-> role]
\* Mutant of Refused: an error beside the role that was worked out.
RefusedRole(kind)   == [err |-> kind, claims |-> Nothing, role |-> auth.anonymous]
Refused(kind)       == [err |-> kind, claims |-> Nothing, role |-> Empty]
Anonymous           == Reply(Nothing, auth.anonymous)

RoleAllowed(role) ==
  \/ auth.allowed = {}
  \/ role \in {auth.default, auth.anonymous}
  \/ role \in auth.allowed

FromClaim(claims) ==
  auth.claim \in DOMAIN claims /\ claims[auth.claim] \in Roles

\* Mutant of Fallback: the default role, set or not.
DefaultOnly == auth.default
Fallback == IF auth.default = Empty THEN auth.anonymous ELSE auth.default

\* Mutant of Resolve: without the AllowedRoles policy.
ResolveAny(claims) ==
  Reply(claims, IF FromClaim(claims) THEN claims[auth.claim] ELSE Fallback)

Resolve(claims) ==
  IF ~FromClaim(claims) THEN Reply(claims, Fallback)
  ELSE IF RoleAllowed(claims[auth.claim])
       THEN Reply(claims, claims[auth.claim])
       ELSE Refused("role")

\* The validations of jwt.ParseWithClaims.  exp = 0: none that is a number
\* above zero.
Timely(t)  == t.exp > now /\ t.nbf <= now
Matches(t) == /\ auth.issuer   \in {Empty, t.iss}
              /\ auth.audience \in {Empty, t.aud}
Signed(t)  == IF auth.jwks THEN t.alg = "RS" /\ t.key \in PublicKeys
                           ELSE t.alg = "HS" /\ t.key = auth.secret

\* With a JWKS URL the key may also not be found.
FromJWT(authz) ==
  IF authz = NoAuthz THEN {Anonymous}
  ELSE IF authz = NotBearer THEN {Refused("invalid")}
  ELSE {r \in {Resolve(authz.claims), Refused("invalid")} :
          /\ r.err # "invalid" => Signed(authz) /\ Timely(authz) /\ Matches(authz)
          /\ r.err = "invalid" => \/ auth.jwks
                                  \/ ~(Signed(authz) /\ Timely(authz) /\ Matches(authz))}

\* The headers are visited in any order: of two that become one claim the
\* last one visited stays.
Carried(headers) == {KeyOf[h] : h \in DOMAIN headers} \ {NoKey}
HeaderClaims(headers) ==
  {f \in [Carried(headers) -> ClaimValues] :
     \A k \in Carried(headers) :
        \E h \in DOMAIN headers : KeyOf[h] = k /\ headers[h] = f[k]}

PeerTrusted(peer) == IF auth.proxies = Nil THEN TRUE ELSE peer \in auth.proxies

\* Mutant of FromHeaders: a peer that is not trusted counts as nobody.
FromHeadersQuiet(headers, peer) ==
  IF Carried(headers) = {} \/ ~PeerTrusted(peer) THEN {Anonymous}
  ELSE {Resolve(claims) : claims \in HeaderClaims(headers)}

FromHeaders(headers, peer) ==
  IF Carried(headers) = {} THEN {Anonymous}
  ELSE IF ~PeerTrusted(peer) THEN {Refused("invalid")}
  ELSE {Resolve(claims) : claims \in HeaderClaims(headers)}

Authenticate(r) ==
  IF ~auth.enabled THEN {Reply(Nothing, Empty)}
  ELSE IF auth.mode = "jwt" THEN FromJWT(r.authz)
  ELSE IF auth.mode = "headers" THEN FromHeaders(r.headers, r.peer)
  ELSE {Anonymous}

-----------------------------------------------------------------------------
(* jwtmint *)

Enabled(c) == c.type # Empty
MintsFunction(call) == Enabled(rls) /\ call.type = rls.type

\* Mutant of Sign: the composite's own issuer and audience win.
SignKeeping(c) ==
  [alg |-> "HS", key |-> rls.secret, claims |-> c.claims, exp |-> c.exp,
   nbf |-> c.nbf, iss |-> IF c.iss = Empty THEN rls.issuer ELSE c.iss,
   aud |-> IF c.aud = Empty THEN rls.audience ELSE c.aud, under |-> rls]

Sign(c) ==
  [alg |-> "HS", key |-> rls.secret, claims |-> c.claims, exp |-> c.exp,
   nbf |-> c.nbf, iss |-> IF rls.issuer = Empty THEN c.iss ELSE rls.issuer,
   aud |-> IF rls.audience = Empty THEN c.aud ELSE rls.audience,
   under |-> rls]

\* One item that is no object leaves the whole result as it was.
Minted(items) ==
  IF \E i \in DOMAIN items : items[i] = Broken THEN {}
  ELSE {Sign(items[i]) : i \in {j \in DOMAIN items : items[j] # Null}}

-----------------------------------------------------------------------------
(* The server *)

Init ==
  /\ rls \in Sections
  /\ auth = AuthConfig(rls)
  /\ now = 0
  /\ issued = {}
  /\ exchange = Nil

\* The product starts again with another section; New keeps its Config.
Restart(c) ==
  /\ c # rls
  /\ rls' = c
  /\ auth' = AuthConfig(c)
  /\ exchange' = Nil
  /\ UNCHANGED <<now, issued>>

Tick ==
  /\ now < MaxNow
  /\ now' = now + 1
  /\ exchange' = Nil
  /\ UNCHANGED <<rls, auth, issued>>

\* A function is called and the tokens of its result reach its caller.
Mint(call) ==
  /\ MintsFunction(call)
  /\ Cardinality(issued \cup Minted(call.items)) <= MaxTokens
  /\ issued' = issued \cup Minted(call.items)
  /\ exchange' = Nil
  /\ UNCHANGED <<rls, auth, now>>

\* Somebody else signs a token: another service with a private key of the
\* key service, or with a secret it shares with this one.
Issue(c, alg, key) ==
  LET t == [alg |-> alg, key |-> key, claims |-> c.claims, exp |-> c.exp,
            nbf |-> c.nbf, iss |-> c.iss, aud |-> c.aud, under |-> Nil]
  IN  /\ Cardinality(issued \cup {t}) <= MaxTokens
      /\ issued' = issued \cup {t}
      /\ exchange' = Nil
      /\ UNCHANGED <<rls, auth, now>>

Request(r) ==
  /\ \E reply \in Authenticate(r) : exchange' = [req |-> r, reply |-> reply]
  /\ UNCHANGED <<rls, auth, now, issued>>

Requests ==
  [authz : {NoAuthz, NotBearer} \cup issued, headers : HeaderMaps, peer : Peers]

Next ==
  \/ \E c \in Sections : Restart(c)
  \/ Tick
  \/ \E call \in Calls : Mint(call)
  \/ \E c \in Composites :
       \/ \E key \in PublicKeys : Issue(c, "RS", key)
       \/ \E key \in Secrets : Issue(c, "HS", key)
  \/ \E r \in Requests : Request(r)

Spec == Init /\ [][Next]_vars

-----------------------------------------------------------------------------
(* Properties *)

Errors == {"none", "invalid", "role"}

\* The variables have their types; a request that is refused gets neither
\* claims nor a role (auth.go:150).
TypeOK ==
  /\ rls \in Sections
  /\ auth = AuthConfig(rls)
  /\ now \in 0 .. MaxNow
  /\ issued \subseteq Tokens
  /\ exchange # Nil =>
       /\ exchange.req \in Requests
       /\ exchange.reply \in [err : Errors, claims : ClaimMaps,
                              role : Roles \cup {Empty}]
       /\ exchange.reply.err # "none" =>
            exchange.reply.claims = Nothing /\ exchange.reply.role = Empty

Served  == exchange # Nil /\ rls.enabled
Granted == Served /\ exchange.reply.err = "none"

\* "An empty role would run unauthenticated requests as the privileged
\* connection role, bypassing RLS" (confx/validate.go:53): with a section
\* ValidateRLS accepts, whatever is presented and whichever default is
\* missing, a request that is served has a role.
NeverConnectionRole ==
  Granted /\ ValidateRLS(rls) = {} => exchange.reply.role # Empty

\* Entries that do not parse only ever shrink the trusted set
\* (confx/validate.go:116): once any entry is configured, claim headers count
\* only from a peer inside an entry that parses, also when no entry does.
OnlyListedPeers ==
  Granted /\ rls.mode = "headers" /\ rls.proxies # {}
          /\ exchange.reply.claims # Nothing
    => \E e \in rls.proxies : Parses(e) /\ exchange.req.peer \in Covers[e]

\* The credential a request presents in the mode in force.
Presents ==
  \/ rls.mode = "jwt" /\ exchange.req.authz # NoAuthz
  \/ rls.mode = "headers" /\ \E h \in DOMAIN exchange.req.headers : KeyOf[h] # NoKey

\* A token counts only in its time, and only for the key, the issuer and the
\* audience of the section in force: one signed before the secret was changed,
\* or with the secret when a JWKS URL is set, does not.
Counts(t) ==
  /\ t \in issued /\ t.nbf <= now /\ now < t.exp
  /\ IF rls.jwks THEN t.alg = "RS" /\ t.key \in PublicKeys
                 ELSE t.alg = "HS" /\ t.key = rls.secret
  /\ rls.issuer \in {Empty, t.iss} /\ rls.audience \in {Empty, t.aud}

\* Claims that say what claim headers say, all of them and nothing else.
SaidBy(headers, claims) ==
  /\ DOMAIN claims = {KeyOf[h] : h \in DOMAIN headers} \ {NoKey}
  /\ \A k \in DOMAIN claims : \E h \in DOMAIN headers :
       KeyOf[h] = k /\ claims[k] = headers[h]

\* "Authenticate never fails open: a present-but-invalid credential is an
\* error; an absent credential yields the anonymous role" (auth.go:96).  A
\* request that presents something is refused or gets the very claims it
\* presents, those of a token that counts or those its headers carry; it is
\* never taken for one that presents nothing, also not where its peer may
\* carry no claim headers (auth_test.go:215).
NeverFailsOpen ==
  Served =>
    /\ ~Presents => exchange.reply = Reply(Nothing, rls.anonymous)
    /\ Presents /\ exchange.reply.err = "none" =>
         \/ /\ rls.mode = "jwt" /\ Counts(exchange.req.authz)
            /\ exchange.reply.claims = exchange.req.authz.claims
         \/ /\ rls.mode = "headers"
            /\ SaidBy(exchange.req.headers, exchange.reply.claims)

\* "Roles a request may assume via the role claim. Empty allows any role [...];
\* default_role and anonymous_role are always allowed" (confx/sections.go:39),
\* and a role comes from the claim of that name and no other.
RolesAreAllowed ==
  Granted =>
    LET role == exchange.reply.role
        claims == exchange.reply.claims
    IN  \/ role \in {rls.default, rls.anonymous}
        \/ /\ rls.claim \in DOMAIN claims /\ claims[rls.claim] = role
           /\ rls.allowed = {} \/ role \in rls.allowed

\* What a token says of its holder when it is minted holds until it expires:
\* minted from a composite with a usable exp, under the secret, issuer and
\* audience still in force and where no JWKS URL is set, it is not refused as
\* invalid, whatever iss and aud the composite has of its own
\* (jwtmint/mint.go:66).
MintedIsAccepted ==
  exchange # Nil /\ rls.enabled /\ rls.mode = "jwt" /\ ~rls.jwks
    /\ exchange.req.authz \in {t \in issued : t.under # Nil}
    => LET t == exchange.req.authz IN
       /\ <<t.under.secret, t.under.issuer, t.under.audience>>
            = <<rls.secret, rls.issuer, rls.audience>>
       /\ t.nbf <= now /\ now < t.exp
       => exchange.reply.err # "invalid"

===============================================================================
