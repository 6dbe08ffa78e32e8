------------------------------ MODULE AgentServing ------------------------------
(***************************************************************************)
(* fleetpulse serve, from its command line to its answers: the layers of   *)
(* configuration (cmd/fleetpulse parseConfigFlags, internal/config), their *)
(* validation, the bearer token (internal/token EnsureFile), the listener, *)
(* and the routes behind the authentication (internal/api).                *)
(*                                                                         *)
(* Operators edit the configuration file and the token file at any time;   *)
(* the program reads each of them once, so what it finds there may be      *)
(* anything they can hold.                                                 *)
(***************************************************************************)
EXTENDS Integers

CONSTANTS
  Files,         \* the configuration files an operator may write
  Environments,  \* what FLEETPULSE_* variables may say
  FlagSets       \* what flags may say

Fields == {"addr", "auth", "token_file", "cache_ttl", "collector_timeout"}

\* The fields whose text has to be parsed.
Parsed == {"auth", "cache_ttl", "collector_timeout"}

TokenFiles == {"default", "state"}

\* addr by its host: a wildcard (":35338", "0.0.0.0:35338", "[::]:35338"),
\* 127.0.0.0/8 or ::1, the name localhost, the address of an interface, any
\* other name; or an address of this host without a port.
Durations == {"negative", "zero", "positive"}
Values(f) ==
  CASE f = "addr" -> {"", "any", "loopback", "localhost", "interface", "name",
                      "portless"}
    [] f = "auth" -> {"on", "off"}
    [] f = "token_file" -> TokenFiles \cup {""}
    [] f \in {"cache_ttl", "collector_timeout"} -> Durations

IsConfig(config) ==
  /\ config = [f \in Fields |-> config[f]]
  /\ \A f \in Fields : config[f] \in Values(f)

\* A layer sets some fields, perhaps to a text that cannot be parsed.
IsLayer(layer) ==
  /\ DOMAIN layer \subseteq Fields
  /\ \A f \in DOMAIN layer :
       layer[f] \in Values(f) \/ (f \in Parsed /\ layer[f] = "malformed")

ASSUME LayersAssumption == \A layer \in Files \cup Environments \cup FlagSets : IsLayer(layer)

VARIABLES
  pc,        \* where the program is
  env,       \* the environment it was started in
  flags,     \* the flags it was started with
  file,      \* the configuration file it read
  cfg,       \* the configuration it has built
  bearer,    \* the token it accepts, named after the file it came from
  reach,     \* whether its listener can be reached from other hosts
  reply      \* its latest answer: the status and the credential of the request

vars == <<pc, env, flags, file, cfg, bearer, reach, reply>>

NoToken  == ""
NoHeader == "none"      \* no Authorization header with a bearer token
Credentials == TokenFiles \cup {NoToken, NoHeader, "wrong"}
NoReply == [status |-> 0, credential |-> NoHeader]

DefaultOf(f) ==
  CASE f = "addr" -> "any"
    [] f = "auth" -> "on"
    [] f = "token_file" -> "default"
    [] f \in {"cache_ttl", "collector_timeout"} -> "positive"
Default == [f \in Fields |-> DefaultOf(f)]

NoLayer == [f \in {} |-> ""]

Malformed(layer) == \E f \in DOMAIN layer : layer[f] = "malformed"

Overlay(config, layer) ==
  [f \in Fields |-> IF f \in DOMAIN layer THEN layer[f] ELSE config[f]]

\* config.IsNonLocalAddr. A name that is not localhost is not resolved.
IsNonLocalAddr(addr) == addr \notin {"loopback", "localhost", "portless"}

Valid(config) ==
  /\ config.addr # ""
  /\ config.cache_ttl # "negative"
  /\ config.collector_timeout = "positive"
  /\ IsNonLocalAddr(config.addr) => config.auth = "on"
  /\ config.auth = "on" => config.token_file # ""

\* Slip: a token file without a token is read as an empty token.
EnsureFileBlank(path) == {path, NoToken}

\* token.EnsureFile: the tokens it may return, when it returns no error. A file
\* that holds only blanks is an error.
EnsureFile(path) == {path}

\* net.Listen: whether other hosts can reach what is bound. A name is one of
\* an interface or of the loopback.
Binds(addr) ==
  CASE addr \in {"any", "interface"}      -> {TRUE}
    [] addr \in {"loopback", "localhost"} -> {FALSE}
    [] addr = "name"                      -> {TRUE, FALSE}
    [] OTHER                              -> {}

Init ==
  /\ pc = "down"
  /\ env = NoLayer /\ flags = NoLayer /\ file = NoLayer
  /\ cfg = Default
  /\ bearer = NoToken
  /\ reach = FALSE
  /\ reply = NoReply

-------------------------------------------------------------------------------
(* The operator.                                                           *)

\* The flags are parsed first of all.
Start ==
  /\ pc = "down"
  /\ env' \in Environments
  /\ flags' \in {layer \in FlagSets : ~Malformed(layer)}
  /\ pc' = "load"
  /\ UNCHANGED <<file, cfg, bearer, reach, reply>>

\* The program ends: it is stopped, or it exits with an error.
End ==
  /\ pc' = "down"
  /\ env' = NoLayer /\ flags' = NoLayer /\ file' = NoLayer
  /\ cfg' = Default
  /\ bearer' = NoToken
  /\ reach' = FALSE
  /\ reply' = NoReply

Stop == pc # "down" /\ End

-------------------------------------------------------------------------------
(* parseConfigFlags and runServe.                                          *)

\* Slip: an error of the parser is passed over.
LoadConfigFileUnparsed ==
  /\ pc = "load"
  /\ file' \in Files
  /\ cfg' = Overlay(cfg, file')
  /\ pc' = "env"
  /\ UNCHANGED <<env, flags, bearer, reach, reply>>

LoadConfigFile ==
  /\ pc = "load"
  /\ file' \in {layer \in Files : ~Malformed(layer)}
  /\ cfg' = Overlay(cfg, file')
  /\ pc' = "env"
  /\ UNCHANGED <<env, flags, bearer, reach, reply>>

\* Slip: the environment yields to the file.
ApplyEnvFirst ==
  /\ pc = "env"
  /\ ~Malformed(env)
  /\ cfg' = Overlay(Overlay(Default, env), file)
  /\ pc' = "flags"
  /\ UNCHANGED <<env, flags, file, bearer, reach, reply>>

ApplyEnv ==
  /\ pc = "env"
  /\ ~Malformed(env)
  /\ cfg' = Overlay(cfg, env)
  /\ pc' = "flags"
  /\ UNCHANGED <<env, flags, file, bearer, reach, reply>>

ApplyFlags ==
  /\ pc = "flags"
  /\ cfg' = Overlay(cfg, flags)
  /\ pc' = "validate"
  /\ UNCHANGED <<env, flags, file, bearer, reach, reply>>

Validate ==
  /\ pc = "validate"
  /\ Valid(cfg)
  /\ pc' = IF cfg.auth = "on" THEN "token" ELSE "listen"
  /\ UNCHANGED <<env, flags, file, cfg, bearer, reach, reply>>

\* The token is read, or created when there is no file.
EnsureToken ==
  /\ pc = "token"
  /\ bearer' \in EnsureFile(cfg.token_file)
  /\ pc' = "listen"
  /\ UNCHANGED <<env, flags, file, cfg, reach, reply>>

Listen ==
  /\ pc = "listen"
  /\ reach' \in Binds(cfg.addr)
  /\ pc' = "serving"
  /\ UNCHANGED <<env, flags, file, cfg, bearer, reply>>

\* Any of these may fail, and must where nothing above applies: the program
\* reports the error and exits.
Fails ==
  /\ \/ pc = "load" /\ \E layer \in Files : Malformed(layer)
     \/ pc = "env" /\ Malformed(env)
     \/ pc = "validate" /\ ~Valid(cfg)
     \/ pc \in {"token", "listen"}
  /\ End

-------------------------------------------------------------------------------
(* The handler of api.NewHandlerWithOptions.                               *)

Authorized(credential) == cfg.auth = "on" => credential = bearer

Status(known, get, credential) ==
  IF ~Authorized(credential) THEN 401
  ELSE IF ~known THEN 404
  ELSE IF ~get THEN 405
  ELSE 200

Respond ==
  /\ pc = "serving"
  /\ \E known \in BOOLEAN, get \in BOOLEAN, credential \in Credentials :
       reply' = [status |-> Status(known, get, credential),
                 credential |-> credential]
  /\ UNCHANGED <<pc, env, flags, file, cfg, bearer, reach>>

Next ==
  \/ Start \/ Stop
  \/ LoadConfigFile \/ ApplyEnv \/ ApplyFlags \/ Validate \/ EnsureToken
  \/ Listen \/ Fails \/ Respond

Spec == Init /\ [][Next]_vars

-------------------------------------------------------------------------------
TypeOK ==
  /\ pc \in {"down", "load", "env", "flags", "validate", "token", "listen",
             "serving"}
  /\ env \in Environments \cup {NoLayer}
  /\ flags \in {layer \in FlagSets : ~Malformed(layer)} \cup {NoLayer}
  /\ file \in {layer \in Files : ~Malformed(layer)} \cup {NoLayer}
  /\ IsConfig(cfg)
  /\ bearer \in TokenFiles \cup {NoToken}
  /\ reach \in BOOLEAN
  /\ reply \in [status: {0, 200, 401, 404, 405}, credential: Credentials]

\* The safety rule of docs/CONFIGURATION.md: a listener that other hosts can
\* reach gives telemetry only to requests that carry a token of a token file,
\* whichever layer set the address and the authentication, whatever a name
\* resolves to, and whatever the token file holds at the start.
ExposedOnlyWithToken ==
  reach /\ reply.status = 200 => reply.credential \in TokenFiles

\* The program serves with the configuration its flags, its environment, the
\* file it read and the defaults agree on, the first of them to set a field
\* deciding, even when the file was edited while it started or served.
HighestLayerDecides ==
  pc = "serving" =>
    \A f \in Fields :
      cfg[f] = CASE f \in DOMAIN flags -> flags[f]
                 [] f \notin DOMAIN flags /\ f \in DOMAIN env -> env[f]
                 [] f \notin DOMAIN flags \cup DOMAIN env /\ f \in DOMAIN file -> file[f]
                 [] OTHER -> Default[f]
===============================================================================
