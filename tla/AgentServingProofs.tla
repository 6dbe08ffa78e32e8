--------------------------- MODULE AgentServingProofs ---------------------------
(***************************************************************************)
(* Proofs about AgentServing, for every set of configuration files, of     *)
(* environments and of flags: its type, that the highest layer decides,    *)
(* and that a listener other hosts can reach asks for the token.           *)
(***************************************************************************)
EXTENDS AgentServing, TLAPS

\* Between Validate and the end of the program its configuration is valid.
Vetted == pc \in {"token", "listen", "serving"} => Valid(cfg)

\* From EnsureToken on, authentication has a token to compare with.
Armed == pc \in {"listen", "serving"} /\ cfg["auth"] = "on" => bearer \in TokenFiles

\* Only a listener is reached, and only at an address that says so.
Reached == reach => pc = "serving" /\ IsNonLocalAddr(cfg["addr"])

\* Replies come from this start of the program, and were checked by it.
Replied ==
  /\ pc # "serving" => reply = NoReply
  /\ reply.status = 200 /\ cfg["auth"] = "on" => reply.credential = bearer

\* What the configuration is, stage by stage.
Built ==
  /\ pc \in {"down", "load"} => cfg = Default /\ file = NoLayer
  /\ pc = "env" => cfg = Overlay(Default, file)
  /\ pc = "flags" => cfg = Overlay(Overlay(Default, file), env)
  /\ pc \in {"validate", "token", "listen", "serving"}
       => cfg = Overlay(Overlay(Overlay(Default, file), env), flags)

Inv == TypeOK /\ Vetted /\ Armed /\ Reached /\ Replied /\ Built

-------------------------------------------------------------------------------
\* config.Default is a configuration.
LEMMA DefaultType == IsConfig(Default)
<1>1. ASSUME NEW f \in Fields PROVE DefaultOf(f) \in Values(f)
  BY DEF DefaultOf, Fields, Values, TokenFiles, Durations
<1> QED
  BY <1>1 DEF IsConfig, Default

\* LoadFile, ApplyEnv and the flags keep a configuration well typed, whatever
\* the layer sets, as long as all of it could be parsed.
LEMMA OverlayType ==
  ASSUME NEW config, IsConfig(config), NEW layer, IsLayer(layer), ~Malformed(layer)
  PROVE  IsConfig(Overlay(config, layer))
<1>1. \A f \in Fields : Overlay(config, layer)[f] \in Values(f)
  BY DEF Overlay, IsConfig, IsLayer, Malformed
<1>2. Overlay(config, layer) = [f \in Fields |-> Overlay(config, layer)[f]]
  BY DEF Overlay
<1> QED
  BY <1>1, <1>2 DEF IsConfig

\* A layer that sets nothing is a layer.
LEMMA NoLayerType == IsLayer(NoLayer) /\ ~Malformed(NoLayer)
  BY DEF NoLayer, IsLayer, Malformed

\* Every layer in use can be laid over a configuration.
LEMMA LayersInUse ==
  ASSUME TypeOK
  PROVE  /\ IsLayer(file) /\ ~Malformed(file)
         /\ IsLayer(env)
         /\ IsLayer(flags) /\ ~Malformed(flags)
  BY LayersAssumption, NoLayerType DEF TypeOK

\* What the program is before its first start.
LEMMA InitInv == Init => Inv
<1> SUFFICES ASSUME Init PROVE Inv
    OBVIOUS
<1> USE DEF Init
<1>1. TypeOK
  BY DefaultType DEF TypeOK, NoReply, Credentials
<1>2. Vetted /\ Armed /\ Reached /\ Built
  BY DEF Vetted, Armed, Reached, Built
<1>3. Replied
  BY DEF Replied, NoReply
<1> QED
  BY <1>1, <1>2, <1>3 DEF Inv

\* Every step of the program keeps the types.
LEMMA StepType == TypeOK /\ [Next]_vars => TypeOK'
<1> SUFFICES ASSUME TypeOK, [Next]_vars
             PROVE  TypeOK'
    OBVIOUS
<1>a. \A addr : Binds(addr) \subseteq BOOLEAN
  BY DEF Binds
<1>b. Values("token_file") = TokenFiles \cup {NoToken}
  BY DEF Values, NoToken
<1>c. NoReply \in [status: {0, 200, 401, 404, 405}, credential: Credentials]
  BY DEF NoReply, Credentials
<1> USE DEF TypeOK
<1>1. CASE Start
  BY <1>1 DEF Start
<1>2. CASE End
  <2>1. cfg' = Default /\ reply' = NoReply
    BY <1>2 DEF End
  <2>2. IsConfig(cfg')
    BY <2>1, DefaultType
  <2> HIDE DEF TypeOK
  <2>3. env' = NoLayer /\ flags' = NoLayer /\ file' = NoLayer /\ pc' = "down"
    BY <1>2 DEF End
  <2>4. bearer' = NoToken /\ reach' = FALSE
    BY <1>2 DEF End
  <2> QED
    BY <1>c, <2>1, <2>2, <2>3, <2>4 DEF TypeOK
<1>3. CASE LoadConfigFile
  <2>1. IsLayer(file') /\ ~Malformed(file')
    BY <1>3, LayersAssumption DEF LoadConfigFile
  <2>2. IsConfig(cfg')
    BY <1>3, <2>1, OverlayType DEF LoadConfigFile
  <2> QED
    BY <1>3, <2>2 DEF LoadConfigFile
<1>4. CASE ApplyEnv
  <2>1. IsConfig(cfg')
    BY <1>4, LayersInUse, OverlayType DEF ApplyEnv
  <2> QED
    BY <1>4, <2>1 DEF ApplyEnv
<1>5. CASE ApplyFlags
  <2>1. IsConfig(cfg')
    BY <1>5, LayersInUse, OverlayType DEF ApplyFlags
  <2> QED
    BY <1>5, <2>1 DEF ApplyFlags
<1>6. CASE Validate
  BY <1>6 DEF Validate
<1>7. CASE EnsureToken
  <2>1. bearer' \in TokenFiles \cup {NoToken}
    <3>1. cfg["token_file"] \in Values("token_file")
      BY DEF IsConfig, Fields
    <3>2. bearer' = cfg["token_file"]
      BY <1>7 DEF EnsureToken, EnsureFile
    <3> HIDE DEF TypeOK
    <3> QED
      BY <1>b, <3>1, <3>2
  <2> QED
    BY <1>7, <2>1 DEF EnsureToken
<1>8. CASE Listen
  <2>1. reach' \in BOOLEAN
    BY <1>a, <1>8 DEF Listen
  <2> QED
    BY <1>8, <2>1 DEF Listen
<1>9. CASE Respond
  <2>1. reply' \in [status: {0, 200, 401, 404, 405}, credential: Credentials]
    BY <1>9 DEF Respond, Status
  <2> QED
    BY <1>9, <2>1 DEF Respond
<1>10. CASE UNCHANGED vars
  BY <1>10 DEF vars
<1> QED
  BY <1>1, <1>2, <1>3, <1>4, <1>5, <1>6, <1>7, <1>8, <1>9, <1>10
     DEF Next, Stop, Fails

\* The invariant survives every step.
LEMMA StepInv == Inv /\ [Next]_vars => Inv'
<1> SUFFICES ASSUME Inv, [Next]_vars
             PROVE  Inv'
    OBVIOUS
<1>0. TypeOK'
  BY StepType DEF Inv
<1> SUFFICES Vetted' /\ Armed' /\ Reached' /\ Replied' /\ Built'
  BY <1>0 DEF Inv
<1> USE DEF Inv, Vetted, Armed, Reached, Replied, Built
<1>1. CASE Start
  BY <1>1 DEF Start
<1>2. CASE End
  BY <1>2 DEF End, NoReply
<1>3. CASE LoadConfigFile
  BY <1>3 DEF LoadConfigFile, NoReply
<1>4. CASE ApplyEnv
  BY <1>4 DEF ApplyEnv, NoReply
<1>5. CASE ApplyFlags
  BY <1>5 DEF ApplyFlags, NoReply
<1>6. CASE Validate
  BY <1>6 DEF Validate
<1>7. CASE EnsureToken
  <2>1. cfg["auth"] = "on" => bearer' \in TokenFiles
    <3>1. Valid(cfg) /\ IsConfig(cfg)
      BY <1>7 DEF EnsureToken, TypeOK
    <3> QED
      BY <1>7, <3>1 DEF EnsureToken, EnsureFile, Valid, IsConfig, Fields, Values
  <2> QED
    BY <1>7, <2>1 DEF EnsureToken, NoReply
<1>8. CASE Listen
  <2>1. reach' => IsNonLocalAddr(cfg["addr"])
    BY <1>8 DEF Listen, Binds, IsNonLocalAddr
  <2> QED
    BY <1>8, <2>1 DEF Listen, NoReply
<1>9. CASE Respond
  <2>1. reply'.status = 200 /\ cfg["auth"] = "on" => reply'.credential = bearer
    BY <1>9 DEF Respond, Status, Authorized
  <2> QED
    BY <1>9, <2>1 DEF Respond
<1>10. CASE UNCHANGED vars
  BY <1>10 DEF vars
<1> QED
  BY <1>1, <1>2, <1>3, <1>4, <1>5, <1>6, <1>7, <1>8, <1>9, <1>10
     DEF Next, Stop, Fails

\* The inductive invariant of the program, from its command line to its replies.
THEOREM Invariance == Spec => []Inv
  BY InitInv, StepInv, PTL DEF Spec

\* The state of the program keeps its type.
THEOREM TypeCorrect == Spec => []TypeOK
<1>1. Inv => TypeOK
  BY DEF Inv
<1> QED
  BY <1>1, Invariance, PTL

\* Whatever the layers say, a listener that other hosts can reach gives
\* telemetry only to requests with a token of a token file.
THEOREM ExposedOnlyWithTokenHolds == Spec => []ExposedOnlyWithToken
<1>1. Inv => ExposedOnlyWithToken
  <2> SUFFICES ASSUME Inv, reach, reply.status = 200
               PROVE  reply.credential \in TokenFiles
    BY DEF ExposedOnlyWithToken
  <2>1. pc = "serving" /\ IsNonLocalAddr(cfg["addr"])
    BY DEF Inv, Reached
  <2>2. cfg["auth"] = "on"
    BY <2>1 DEF Inv, Vetted, Valid
  <2> QED
    BY <2>1, <2>2 DEF Inv, Armed, Replied
<1> QED
  BY <1>1, Invariance, PTL

\* Whatever the layers say, the first of flags, environment and file to set a
\* field decides it.
THEOREM HighestLayerDecidesHolds == Spec => []HighestLayerDecides
<1>1. Inv => HighestLayerDecides
  BY DEF Inv, Built, HighestLayerDecides, Overlay
<1> QED
  BY <1>1, Invariance, PTL
===============================================================================
