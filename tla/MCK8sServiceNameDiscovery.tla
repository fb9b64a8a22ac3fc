---------------------- MODULE MCK8sServiceNameDiscovery ----------------------
(* Instances of K8sServiceNameDiscovery for TLC.                             *)
EXTENDS K8sServiceNameDiscovery

CONSTANTS s1, s2
=============================================================================
