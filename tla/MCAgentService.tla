---------------------------- MODULE MCAgentService ----------------------------
(* A server set up from nothing, reconfigured, diagnosed and upgraded.  *)
(* NPMplus answers on loopback over TLS, with its own certificate.      *)
EXTENDS AgentService

MCReleases == 1..2
Local(tls) == [loopback |-> TRUE, tls |-> tls]
MCTyped == {Local(FALSE), [loopback |-> FALSE, tls |-> TRUE]}
MCAnswers == {[url |-> Local(TRUE), insecure |-> TRUE]}

=============================================================================
