------------------------------ MODULE MCServer ------------------------------
(* Small instances of Server for TLC. *)
EXTENDS Server, TLC

CONSTANTS p1, p2

Securities ==
  {<< >>, <<{}>>, <<{"jwt"}>>, <<{"oauth"}, {"user"}>>, <<{"jwt", "key"}>>,
   <<{"user"}, {"jwt"}>>, <<{"cookie"}, {"key"}>>, <<{"user", "key"}, {"jwt"}>>, <<{"ghost"}>>}

Ref(text) == [text |-> text, scheme |-> "", body |-> ""]
Env(name) == [text |-> "env:" \o name, scheme |-> "env", body |-> name]
Literal(value) == [text |-> "literal:" \o value, scheme |-> "literal", body |-> value]

Nothing == [k \in {} |-> k]
World(given, profile) ==
  [given |-> given, profile |-> profile, deviceToken |-> FALSE, certs |-> {"good.pem"},
   operations |-> Securities,
   store |-> ("env:SECRET" :> "secret" @@ "env:EMPTY" :> "")]

TokenURL == "tokenURL" :> Ref("https://issuer") @@ "clientId" :> Ref("id")
ClientCredentials == World(TokenURL @@ "clientSecret" :> Env("SECRET"), Nothing)
AWS == "accessKey" :> Ref("AKIA") @@ "secretKey" :> Env("SECRET") @@ "region" :> Ref("eu")

\* What a static credential may be given as.
Statics ==
  {World(b @@ k, "basic" :> Ref("user:password") @@ "bearer" :> Literal("profile")) :
     b \in {Nothing, "bearer" :> Env("SECRET"), "bearer" :> Ref("")},
     k \in {Nothing, "apikey" :> Ref("key"), "apikey" :> Ref("key") @@ "param" :> Ref("X-Mine")}}
  \cup {World("bearer" :> Ref("token"), Nothing), World("basic" :> Ref("user:password"), Nothing)}

Others ==
  {World(Nothing, Nothing),
   World("bearer" :> Env("NOWHERE"), Nothing),
   World(TokenURL @@ "clientSecret" :> Env("NOWHERE"), Nothing),
   World(TokenURL @@ "clientSecret" :> Env("EMPTY"), Nothing),
   World("clientSecret" :> Env("SECRET"), Nothing),
   [World(TokenURL, Nothing) EXCEPT !.deviceToken = TRUE],
   World(AWS, "bearer" :> Ref("token")),
   World(AWS @@ "sessionToken" :> Ref("temporary"), "bearer" :> Ref("token")),
   World("region" :> Ref("eu"), Nothing),
   World("accessKey" :> Env("NOWHERE") @@ "region" :> Ref("eu"), Nothing),
   World("mtlsCert" :> Ref("bad.pem"), Nothing),
   World("mtlsCert" :> Ref("good.pem"), Nothing),
   World("apikey" :> Ref("key"), "mtlsCert" :> Ref("bad.pem"))}

Setups == Statics \cup Others \cup {ClientCredentials}


Plain(w) == [w EXCEPT !.operations = {<< >>}]

\* Every setup with the one request of a call, and two that send requests side
\* by side in servers of each kind.
MCStarts ==
  {[kind |-> "call", world |-> w] : w \in Setups}
  \cup {[kind |-> k, world |-> Plain(ClientCredentials)] : k \in {"http", "nfs", "stdio"}}
  \cup {[kind |-> "http", world |-> Plain(World(Nothing, Nothing))]}

MCWorlds == {s.world : s \in MCStarts}

StdioStarts == {[kind |-> "stdio", world |-> Plain(World(Nothing, Nothing))]}

MCDeclared ==
  <<[name |-> "oauth", type |-> "oauth2", scheme |-> "", in |-> "", param |-> ""],
    [name |-> "user", type |-> "http", scheme |-> "basic", in |-> "", param |-> ""],
    [name |-> "cookie", type |-> "apiKey", scheme |-> "", in |-> "cookie", param |-> "sid"],
    [name |-> "key", type |-> "apiKey", scheme |-> "", in |-> "header", param |-> "X-Key"],
    [name |-> "jwt", type |-> "http", scheme |-> "bearer", in |-> "", param |-> ""]>>
=============================================================================
