--------------------------- MODULE MCDynamicConfig ---------------------------
(* The configurations of the model checking runs: two that can be applied,    *)
(* and one for each way in which applying or replacing one goes wrong.        *)
EXTENDS DynamicConfig

MCFails == [c \in Known |->
    CASE c = "unreadable" -> "load" [] c = "no_backends" -> "discovery"
      [] c = "no_session_key" -> "router" [] c = "bad_callbacks" -> "callbacks" [] OTHER -> "never"]
MCRouting == [c \in Known |->
    CASE c = "k8s_prefix" -> "prefixaware" [] c \in {"args", "no_session_key"} -> "session"
      [] OTHER -> "roundrobin"]
MCChecks == [c \in Known |-> c = "plain"]
MCStuck == [c \in Known |-> CASE c = "plain" -> "raises" [] c = "k8s_prefix" -> "hangs" [] OTHER -> "no"]
MCUnlistable == [c \in Known |-> c = "no_session_key"]
=============================================================================
