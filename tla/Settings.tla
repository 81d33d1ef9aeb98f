------------------------------ MODULE Settings ------------------------------
(***************************************************************************)
(* From flags, environment, configuration file and profile to the          *)
(* credentials of the API client: initConfig of cmd/apimount/root.go,      *)
(* newExecutorFromFlags and its helpers of cmd/apimount/helpers.go, and    *)
(* Resolve of internal/core/auth/secret/secret.go.                         *)
(*                                                                         *)
(* A setting's value is a reference: its text and, where the text has a    *)
(* colon, what is before and after it.                                     *)
(***************************************************************************)
EXTENDS FiniteSets, Sequences

CONSTANTS
  Worlds      \* what a user may have set up: see WorldOK

\* given: what flags, environment and configuration file say, which is viper's
\* to rank; profile: what the profile in use says, if one is; store: the values
\* behind the references that can be read; deviceToken: there is a token file
\* to use; certs: the texts of the certificate settings whose files load;
\* operations: what the document's operations say under security, the names of
\* each alternative.
WorldOK(w) ==
  /\ \A layer \in {w.given, w.profile} : \A key \in DOMAIN layer :
       /\ DOMAIN layer[key] = {"text", "scheme", "body"}
       /\ layer[key].text = "" => layer[key].scheme = ""
  /\ w.deviceToken \in BOOLEAN
  /\ w.operations \subseteq Seq(SUBSET STRING)
  /\ \A sec \in w.operations : \A j \in DOMAIN sec : IsFiniteSet(sec[j])

ASSUME SettingsAssumption == \A w \in Worlds : WorldOK(w)

\* What a reference comes to when it cannot be read.
Unresolved == "unresolved"

Unset == [text |-> "", scheme |-> "", body |-> ""]

\* The settings initConfig takes from a profile: no certificate, no AWS key.
ProfileKeys ==
  {"bearer", "basic", "apikey", "param", "clientId", "clientSecret", "tokenURL"}

\* What v.GetString gives once initConfig is through.
Setting(w, key) ==
  IF key \in DOMAIN w.given THEN w.given[key]
  ELSE IF key \in ProfileKeys \cap DOMAIN w.profile THEN w.profile[key]
  ELSE Unset

Text(w, key) == Setting(w, key).text

SecretSchemes == {"env", "file", "literal", "op", "keychain"}

\* Resolve: a text without a known scheme stands for itself.
Resolve(w, key) ==
  LET ref == Setting(w, key)
  IN  IF ref.scheme \notin SecretSchemes THEN ref.text
      ELSE IF ref.scheme = "literal" THEN ref.body
      ELSE IF ref.text \in DOMAIN w.store THEN w.store[ref.text]
      ELSE Unresolved

-----------------------------------------------------------------------------
\* tryDeviceTokenProvider.
DeviceProvider(w) ==
  IF w.deviceToken /\ Text(w, "tokenURL") # "" /\ Text(w, "clientId") # ""
    THEN <<"device">> ELSE << >>

Failed == <<"error">>

\* buildOAuth2Provider: client credentials once there is a secret, else the
\* token of a device login, else nothing.
OAuth2Provider(w) ==
  LET secret == Resolve(w, "clientSecret")
  IN  IF secret = Unresolved THEN Failed
      ELSE IF secret = "" THEN DeviceProvider(w)
      ELSE IF Text(w, "clientId") # "" /\ Text(w, "tokenURL") # "" THEN <<"oauth2cc">>
      ELSE Failed

\* buildSigV4Provider: all of its keys or none.
SigV4Provider(w) ==
  LET named == {Text(w, "accessKey"), Text(w, "secretKey"), Text(w, "region")}
      keys == {Resolve(w, "accessKey"), Resolve(w, "secretKey"), Text(w, "region")}
  IN  IF named = {""} THEN << >>
      ELSE IF "" \in keys \/ Unresolved \in keys THEN Failed
      ELSE <<"sigv4">>

\* buildAuthChain: the providers in the order they are asked.
Providers(w) == OAuth2Provider(w) \o SigV4Provider(w)

\* NewMTLSProvider reads the files named.
CertificateFails(w) ==
  LET cert == Text(w, "mtlsCert") IN cert # "" /\ cert \notin w.certs

\* The auth.Config of newExecutorFromFlags.
Config(w) ==
  [bearer |-> Resolve(w, "bearer"), basic |-> Text(w, "basic"),
   apikey |-> Resolve(w, "apikey"), param |-> Text(w, "param")]

\* newExecutorFromFlags returns an error.
SetupFails(w) ==
  \/ Unresolved \in {Resolve(w, "bearer"), Resolve(w, "apikey")}
  \/ \E i \in DOMAIN Providers(w) : <<Providers(w)[i]>> = Failed
  \/ CertificateFails(w)
=============================================================================
