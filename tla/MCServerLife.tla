---------------------------- MODULE MCServerLife ----------------------------
(* ServerLife for TLC.                                                     *)
EXTENDS ServerLife

Config(t, o, d) == [transport |-> t, flagsOK |-> TRUE, oauth |-> o, downstream |-> d]

\* One configuration per way of serving, and one per reason to refuse.
MCConfigs ==
    {Config("stdio", FALSE, FALSE), Config("sse", TRUE, FALSE),
     Config("streamable-http", FALSE, FALSE), Config("streamable-http", TRUE, TRUE),
     Config("stdio", TRUE, FALSE), Config("sse", FALSE, TRUE),
     [Config("sse", TRUE, FALSE) EXCEPT !.flagsOK = FALSE]}

MCPolicies ==
    {[readOnly |-> FALSE, gitOpsGuard |-> TRUE, exposeKubeconfig |-> FALSE],
     [readOnly |-> TRUE, gitOpsGuard |-> TRUE, exposeKubeconfig |-> TRUE]}
=============================================================================
