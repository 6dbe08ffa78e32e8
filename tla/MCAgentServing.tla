---------------------------- MODULE MCAgentServing ----------------------------
(***************************************************************************)
(* Instances of AgentServing for TLC: layers that set the address and the  *)
(* authentication in every combination, and each other field by itself.    *)
(***************************************************************************)
EXTENDS AgentServing

Only(field, value) == [f \in {field} |-> value]

Exposure(addrs) ==
  {NoLayer}
    \cup {Only("addr", a) : a \in addrs} \cup {Only("auth", v) : v \in Values("auth")}
    \cup {[addr |-> a, auth |-> v] : a \in addrs, v \in Values("auth")}

\* The file: every address.
SomeFiles ==
  Exposure(Values("addr"))
    \cup {Only("auth", "malformed"), Only("token_file", ""),
          Only("token_file", "state"), Only("cache_ttl", "negative")}

SomeEnvironments ==
  Exposure({"any", "loopback", "name"})
    \cup {Only("collector_timeout", "malformed"), Only("token_file", "state")}

SomeFlags ==
  Exposure({"", "any", "interface"})
    \cup {Only("auth", "malformed"), Only("token_file", "default"),
          Only("collector_timeout", "zero")}
===============================================================================
