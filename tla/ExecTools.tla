----------------------------- MODULE ExecTools -----------------------------
(***************************************************************************)
(* capi_kubectl, capi_helm and capi_get_kubeconfig (pkg/capi/client.go):   *)
(* the calls that read a workload cluster's kubeconfig.  The first two     *)
(* write it to a temporary file, run a child process on it and remove it.  *)
(*                                                                         *)
(* The module has the calls and the files; ServerLife adds the process     *)
(* they run in, which may end at any point.  The management cluster's      *)
(* answers are inputs: its Clusters and Secrets may change at any time.    *)
(***************************************************************************)
EXTENDS ToolRegistry

CONSTANTS
    Clusters,   \* workload clusters (namespace/name)
    Paths,      \* names that os.CreateTemp may choose
    NoPath,     \* no temporary file
    Calls,      \* tool calls that may be in flight at the same time
    Policies    \* the write policies the server may be started with

ASSUME ExecAssumption == NoPath \notin Paths /\ Policies \subseteq WritePolicies

VARIABLES
    policy,     \* the server's write policy
    hostKnown,  \* Client.config.Host has a hostname
    files,      \* the temporary directory
    left,       \* history: files left behind, os.Remove having failed or the process ended
    calls

execVars == <<policy, hostKnown, files, left, calls>>

\* What a Secret may hold for its cluster: neither key, something that does not
\* parse, or a kubeconfig with the hostname of the management cluster or another.
Secrets == {"noKey", "garbage", "management", "workload"}

\* A file is empty at first, then holds the kubeconfig read for a cluster.
Contents == [of : Clusters \cup {"nothing"}, host : {"none", "management", "workload"}]
EmptyFile == [of |-> "nothing", host |-> "none"]
NoFile == [of |-> "nothing", host |-> "noFile"]

\* pc names what the call does next; "child" is waiting for the child.  exec
\* tells kubectl and helm from capi_get_kubeconfig.  What a call answers to its
\* client is left out.
PCs == {"idle", "getCluster", "getSecret", "createTemp", "writeString", "child", "cleanup"}
NoCall == [pc |-> "idle", exec |-> FALSE, cluster |-> "nothing", host |-> "none", path |-> NoPath]

InFlight == {c \in Calls : calls[c].pc # "idle"}

\* The call has a file that it must remove.
Holds(c) == calls[c].path # NoPath

ExecInit ==
    /\ policy \in Policies
    /\ hostKnown \in BOOLEAN
    /\ files = [p \in Paths |-> NoFile]
    /\ left = {}
    /\ calls = [c \in Calls |-> NoCall]
-----------------------------------------------------------------------------
Setup == UNCHANGED <<policy, hostKnown>>
Server == Setup /\ UNCHANGED left
Answer(c) == calls' = [calls EXCEPT ![c] = NoCall]
Goto(c, pc) == calls' = [calls EXCEPT ![c].pc = pc]

\* A handler that has its namespace and its cluster's name reads the kubeconfig
\* (without them the call ends at once).
Call(c, exec, k) ==
    calls' = [calls EXCEPT ![c] =
                 [NoCall EXCEPT !.pc = "getCluster", !.exec = exec, !.cluster = k]]

\* The handlers of the two tools: there are arguments, all of them strings.
Exec(c, tool, k) ==
    /\ calls[c].pc = "idle"
    /\ tool \in BuildAllTools(policy)
    /\ Call(c, TRUE, k)
    /\ Server /\ UNCHANGED files

\* No argument is a flag in blockedKubectlFlags, with or without a value (else
\* the call ends at once).  The policy is not asked.
ExecKubectl(c, k) == Exec(c, "capi_kubectl", k)

\* The same with blockedHelmFlags.
ExecHelm(c, k) == Exec(c, "capi_helm", k)

\* The handler asks the policy again (a refusal ends the call at once).
GetKubeconfig(c, k) ==
    /\ calls[c].pc = "idle"
    /\ "capi_get_kubeconfig" \in BuildAllTools(policy)
    /\ CheckCredentialExport(policy) = "ok"
    /\ Call(c, FALSE, k)
    /\ Server /\ UNCHANGED files

\* readKubeconfig: the Cluster must be there (found; an error counts as not).
GetCluster(c, found) ==
    /\ calls[c].pc = "getCluster"
    /\ IF found THEN Goto(c, "getSecret") ELSE Answer(c)
    /\ Server /\ UNCHANGED files

\* The Secret could not be read, or has neither the key "value" nor "data".
ReadFails(c) ==
    /\ calls[c].pc = "getSecret"
    /\ Answer(c)
    /\ Server /\ UNCHANGED files

\* Mutant of Refused: what does not parse is not compared, and let through.
RefusedHostOnly(s) == s = "management" /\ hostKnown

\* resolveWorkloadKubeconfigFile: not a kubeconfig, or one of the management
\* cluster, if its hostname is known.
Refused(s) == s = "garbage" \/ (s = "management" /\ hostKnown)

\* readKubeconfig returns: capi_get_kubeconfig hands the kubeconfig out as it is.
GetSecret(c, s) ==
    /\ calls[c].pc = "getSecret"
    /\ s # "noKey"
    /\ IF ~calls[c].exec \/ Refused(s) THEN Answer(c)
       ELSE calls' = [calls EXCEPT ![c].pc = "createTemp", ![c].host = s]
    /\ Server /\ UNCHANGED files

\* Mutant of CreateTemp: every call uses the same name.
CreateFixed(c, p) ==
    /\ calls[c].pc = "createTemp"
    /\ p = CHOOSE q \in Paths : TRUE
    /\ files' = [files EXCEPT ![p] = EmptyFile]
    /\ calls' = [calls EXCEPT ![c].pc = "writeString", ![c].path = p]
    /\ Server

\* os.CreateTemp creates a file of a name that no file has.
CreateTemp(c, p) ==
    /\ calls[c].pc = "createTemp"
    /\ files[p] = NoFile
    /\ files' = [files EXCEPT ![p] = EmptyFile]
    /\ calls' = [calls EXCEPT ![c].pc = "writeString", ![c].path = p]
    /\ Server

CreateTempFails(c) ==
    /\ calls[c].pc = "createTemp"
    /\ Answer(c)
    /\ Server /\ UNCHANGED files

\* WriteString and Close; the child is then started with the file's name.
WriteString(c) ==
    /\ calls[c].pc = "writeString"
    /\ files' = [files EXCEPT ![calls[c].path] =
                    [of |-> calls[c].cluster, host |-> calls[c].host]]
    /\ Goto(c, "child")
    /\ Server

\* cleanup: nobody looks at the error of os.Remove.
Remove(c) ==
    \/ files' = [files EXCEPT ![calls[c].path] = NoFile] /\ UNCHANGED left
    \/ left' = left \cup {calls[c].path} /\ UNCHANGED files

\* Mutant of WriteFails: only the file is closed.
WriteFailsUnremoved(c) ==
    /\ calls[c].pc = "writeString"
    /\ Answer(c)
    /\ Server /\ UNCHANGED files

\* WriteString or Close fails: the file is removed and the call ends.
WriteFails(c) ==
    /\ calls[c].pc = "writeString"
    /\ Remove(c)
    /\ Answer(c)
    /\ Setup

\* CombinedOutput returns: the child did not start, has exited, or was killed
\* because the call's context is done.
ChildEnds(c) ==
    /\ calls[c].pc = "child"
    /\ Goto(c, "cleanup")
    /\ Server /\ UNCHANGED files

\* The deferred cleanup, and the answer.
Cleanup(c) ==
    /\ calls[c].pc = "cleanup"
    /\ Remove(c)
    /\ Answer(c)
    /\ Setup

\* The steps of a call that has begun.
CallStep(c) ==
    \/ \E found \in BOOLEAN : GetCluster(c, found)
    \/ ReadFails(c)
    \/ \E s \in Secrets : GetSecret(c, s)
    \/ \E p \in Paths : CreateTemp(c, p)
    \/ CreateTempFails(c)
    \/ WriteString(c) \/ WriteFails(c)
    \/ ChildEnds(c) \/ Cleanup(c)

BeginCall(c) == \E k \in Clusters : ExecKubectl(c, k) \/ ExecHelm(c, k) \/ GetKubeconfig(c, k)
-----------------------------------------------------------------------------
\* The type invariant of the calls and the files.
ExecTypeOK ==
    /\ policy \in WritePolicies
    /\ hostKnown \in BOOLEAN
    /\ files \in [Paths -> Contents \cup {NoFile}]
    /\ left \subseteq Paths
    /\ calls \in [Calls -> [pc : PCs, exec : BOOLEAN, cluster : Clusters \cup {"nothing"},
                            host : {"none", "management", "workload"},
                            path : Paths \cup {NoPath}]]

\* A child finds, as long as it runs, the complete kubeconfig of the cluster
\* its call named in the file it was given, whatever other calls create, write
\* and remove meanwhile, and it is not the management cluster's, whose hostname
\* was compared before the file was written.
ChildSeesItsCluster ==
    \A c \in Calls :
        calls[c].pc = "child" =>
           /\ files[calls[c].path] = [of |-> calls[c].cluster, host |-> calls[c].host]
           /\ hostKnown => calls[c].host = "workload"

\* What the policy keeps from a caller: a read-only server runs no kubectl and
\* no helm, although ExecKubectl and ExecHelm do not ask the policy and only the
\* registry keeps them from being called, and kubeconfigs are read for a caller
\* only if the operator allowed their export.
PolicyBoundsReads ==
    \A c \in InFlight : IF calls[c].exec THEN ~policy.readOnly ELSE policy.exposeKubeconfig
=============================================================================
