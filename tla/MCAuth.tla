-------------------------------- MODULE MCAuth --------------------------------
(* Auth on a handful of sections: one per mode, and those that validation   *)
(* refuses but AuthConfig still converts.                                   *)
EXTENDS Auth

MCKeyOf == [claim_role |-> "role", claim__role |-> "role", sub |-> "sub",
            accept |-> NoKey]

\* A block of both gateways, one address, and an IPv4-mapped block: peers are
\* unmapped first, so that no peer is inside it.
MCCovers == [block |-> {"gw1", "gw2"}, single |-> {"gw1"}, mapped |-> {}]

Section ==
  [enabled |-> TRUE, mode |-> "jwt", secret |-> "s1", jwks |-> FALSE,
   issuer |-> Empty, audience |-> Empty, proxies |-> {}, claim |-> "role",
   default |-> "user", anonymous |-> "anon", allowed |-> {}, type |-> "jwt"]

MCSections ==
  { Section,
    [Section EXCEPT !.issuer = "me", !.audience = "us", !.default = Empty,
                    !.allowed = {"user"}],
    [Section EXCEPT !.secret = "s2", !.issuer = "me", !.anonymous = Empty],
    [Section EXCEPT !.jwks = TRUE, !.allowed = {"user"}],
    [Section EXCEPT !.mode = "headers", !.proxies = {"single", "typo"}],
    [Section EXCEPT !.mode = "headers", !.proxies = {"typo"}, !.default = Empty],
    [Section EXCEPT !.mode = "headers", !.proxies = {"block", "mapped"},
                    !.allowed = {"user"}, !.default = "anon"],
    [Section EXCEPT !.mode = "headers", !.type = Empty],
    [Section EXCEPT !.mode = "none", !.enabled = FALSE, !.anonymous = Empty],
    [Section EXCEPT !.mode = "none"] }

Claim(r) == [role |-> r]
NoClaims == [k \in {} |-> Empty]

MCHeaderMaps ==
  { NoClaims, [accept |-> Empty], [sub |-> "user"],
    [claim_role |-> "admin"], [claim_role |-> Empty, accept |-> Empty],
    [claim_role |-> "user", claim__role |-> "admin"] }

Composite == [claims |-> Claim("user"), exp |-> 2, nbf |-> 0,
              iss |-> Empty, aud |-> Empty]

MCComposites ==
  { Composite,
    [Composite EXCEPT !.claims = Claim("admin"), !.exp = 1, !.iss = "them"],
    [Composite EXCEPT !.claims = Claim(NotAString), !.iss = "me", !.aud = "us"],
    [Composite EXCEPT !.claims = NoClaims, !.exp = 0],
    [Composite EXCEPT !.nbf = 1, !.aud = "them"] }

MCCalls ==
  { [type |-> "jwt", items |-> <<c>>] : c \in MCComposites \cup {Null, Broken} }
  \cup { [type |-> "jwt", items |-> <<Null, Composite>>],
         [type |-> "jwt", items |-> <<Composite, Broken>>],
         [type |-> "text", items |-> <<Composite>>] }

===============================================================================
