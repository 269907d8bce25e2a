-------------------------- MODULE ServerLifeProofs --------------------------
(***************************************************************************)
(* Proofs about ServerLife and ExecTools, for any workload clusters, file  *)
(* names, calls in flight, policies, configurations and restarts.          *)
(***************************************************************************)
EXTENDS ServerLife, TLAPS

CallRecs == [pc : PCs, exec : BOOLEAN, cluster : Clusters \cup {"nothing"},
             host : {"none", "management", "workload"}, path : Paths \cup {NoPath}]

\* What a call q relies on in the directory fs: it has a file from its creation
\* until its removal, the file is complete when the child runs, and the host and
\* the policy were looked at before.
CallOK(q, fs) ==
    /\ q.path # NoPath <=> q.pc \in {"writeString", "child", "cleanup"}
    /\ q.path # NoPath => fs[q.path] # NoFile
    /\ q.pc = "child" => fs[q.path] = [of |-> q.cluster, host |-> q.host]
    /\ hostKnown /\ q.pc \in {"createTemp", "writeString", "child"} => q.host = "workload"
    /\ q.pc # "idle" => IF q.exec THEN ~policy.readOnly ELSE policy.exposeKubeconfig

\* No two calls share a file.
FilesAreApart ==
    \A c, d \in Calls : c # d /\ Holds(c) => calls[c].path # calls[d].path

\* The calls and their files.
ExecInv ==
    /\ ExecTypeOK
    /\ \A c \in Calls : CallOK(calls[c], files)
    /\ FilesAreApart
    /\ FilesAreAccountedFor

\* The main goroutine: where calls may be in flight and the store open, and what
\* a result says.
MainInv ==
    /\ main \notin {"stdio", "serve", "shutdown", "return"} => InFlight = {}
    /\ store = "open" => \/ main \in {"oauthServer", "Run", "stdio", "serve", "shutdown", "return"}
                         \/ main = "ended" /\ result = "killed"
    /\ main = "stdio" => config.transport = "stdio"
    /\ main = "return" => result \in {"ok", "error"}
    /\ main = "return" /\ result = "ok" /\ config.transport = "streamable-http" => InFlight = {}

\* The inductive invariant.
IInv == TypeOK /\ ExecInv /\ MainInv

LEMMA Idleness == NoCall \in CallRecs /\ NoCall.pc = "idle" /\ NoCall.path = NoPath
BY DEF NoCall, CallRecs, PCs

LEMMA IdleOK == ASSUME NEW fs PROVE CallOK(NoCall, fs)
BY DEF NoCall, CallOK

LEMMA ContentsExist ==
    ASSUME NEW v \in Contents
    PROVE  v # NoFile
BY DEF Contents, NoFile

\* One call goes on and no file changes.
LEMMA CallKeeps ==
    ASSUME ExecInv, NEW c \in Calls, NEW q \in CallRecs,
           q.path = calls[c].path, CallOK(q, files),
           calls' = [calls EXCEPT ![c] = q],
           UNCHANGED <<policy, hostKnown, files, left>>
    PROVE  ExecInv'
<1>1. ExecTypeOK'
    BY DEF ExecInv, ExecTypeOK, CallRecs
<1>2. \A d \in Calls : calls'[d] = IF d = c THEN q ELSE calls[d]
    BY DEF ExecInv, ExecTypeOK
<1>3. (\A d \in Calls : CallOK(calls[d], files))'
    BY <1>2 DEF ExecInv, CallOK
<1>4. FilesAreApart'
    BY <1>2 DEF ExecInv, FilesAreApart, Holds
<1>5. FilesAreAccountedFor'
    BY <1>2 DEF ExecInv, FilesAreAccountedFor
<1>. QED  BY <1>1, <1>3, <1>4, <1>5 DEF ExecInv

\* One call creates, writes or removes the file p, which no other call has.
LEMMA FileKeeps ==
    ASSUME ExecInv, NEW c \in Calls, NEW q \in CallRecs,
           NEW p \in Paths, NEW v \in Contents \cup {NoFile},
           \A d \in Calls \ {c} : calls[d].path # p,
           calls[c].path \in {p, NoPath},
           q.path = IF v = NoFile THEN NoPath ELSE p,
           files' = [files EXCEPT ![p] = v], CallOK(q, files'),
           calls' = [calls EXCEPT ![c] = q],
           UNCHANGED <<policy, hostKnown, left>>
    PROVE  ExecInv'
<1>1. ExecTypeOK'
    BY DEF ExecInv, ExecTypeOK, CallRecs
<1>2. \A d \in Calls : calls'[d] = IF d = c THEN q ELSE calls[d]
    BY DEF ExecInv, ExecTypeOK
<1>3. \A x \in Paths : files'[x] = IF x = p THEN v ELSE files[x]
    BY DEF ExecInv, ExecTypeOK
<1>4. ASSUME NEW d \in Calls PROVE CallOK(calls'[d], files')
    <2>1. CASE d = c
        BY <1>2, <2>1
    <2>2. CASE d # c
        <3>1. calls'[d] = calls[d] /\ calls[d].path # p /\ calls[d].path \in Paths \cup {NoPath}
            BY <1>2, <2>2 DEF ExecInv, ExecTypeOK
        <3>2. CallOK(calls[d], files)
            BY DEF ExecInv
        <3>. QED  BY <1>3, <3>1, <3>2 DEF CallOK
    <2>. QED  BY <2>1, <2>2
<1>5. (\A d \in Calls : CallOK(calls[d], files))'
    BY <1>4 DEF CallOK
<1>6. FilesAreApart'
    BY <1>2 DEF ExecInv, FilesAreApart, Holds
<1>7. FilesAreAccountedFor'
    <2>1. SUFFICES ASSUME NEW x \in Paths, files'[x] # NoFile
                   PROVE  x \in left \/ \E d \in Calls : calls'[d].path = x
        BY DEF FilesAreAccountedFor
    <2>2. CASE x = p
        BY <1>2, <1>3, <2>1, <2>2
    <2>3. CASE x # p
        <3>1. x \in left \/ \E d \in Calls : calls[d].path = x
            BY <1>3, <2>1, <2>3 DEF ExecInv, FilesAreAccountedFor
        <3>2. x # NoPath
            BY ExecAssumption
        <3>. QED  BY <1>2, <2>3, <3>1, <3>2
    <2>. QED  BY <2>2, <2>3
<1>. QED  BY <1>1, <1>5, <1>6, <1>7 DEF ExecInv

\* A call ends that has no file.
LEMMA AnswerKeeps ==
    ASSUME ExecInv, NEW c \in Calls, calls[c].path = NoPath,
           Answer(c), UNCHANGED <<policy, hostKnown, files, left>>
    PROVE  ExecInv'
BY CallKeeps, Idleness, IdleOK DEF Answer

\* A call ends that has one: it is gone, or os.Remove has failed.
LEMMA RemovalKeeps ==
    ASSUME ExecInv, NEW c \in Calls, Holds(c), Answer(c), Remove(c),
           UNCHANGED <<policy, hostKnown>>
    PROVE  ExecInv'
<1>1. calls[c].path \in Paths
    BY DEF ExecInv, ExecTypeOK, Holds
<1>2. \A d \in Calls \ {c} : calls[d].path # calls[c].path
    BY DEF ExecInv, FilesAreApart
<1>3. CallOK(NoCall, files') /\ NoCall \in CallRecs /\ NoCall.path = NoPath
    BY IdleOK, Idleness
<1>4. CASE files' = [files EXCEPT ![calls[c].path] = NoFile] /\ left' = left
    BY <1>1, <1>2, <1>3, <1>4, FileKeeps DEF Answer
<1>5. CASE left' = left \cup {calls[c].path} /\ files' = files
    <2>1. \A d \in Calls : calls'[d] = IF d = c THEN NoCall ELSE calls[d]
        BY DEF Answer, ExecInv, ExecTypeOK
    <2>2. ExecTypeOK'
        BY <1>1, <1>3, <1>5 DEF Answer, ExecInv, ExecTypeOK, CallRecs
    <2>3. (\A d \in Calls : CallOK(calls[d], files))'
        BY <1>3, <1>5, <2>1 DEF ExecInv, CallOK
    <2>4. FilesAreApart'
        BY <1>3, <2>1 DEF ExecInv, FilesAreApart, Holds
    <2>5. FilesAreAccountedFor'
        BY <1>5, <2>1 DEF ExecInv, FilesAreAccountedFor
    <2>. QED  BY <2>2, <2>3, <2>4, <2>5 DEF ExecInv
<1>. QED  BY <1>4, <1>5 DEF Remove

LEMMA BeginCallKeeps ==
    ASSUME ExecInv, NEW c \in Calls, BeginCall(c)
    PROVE  ExecInv' /\ calls[c].pc = "idle"
<1>1. PICK k \in Clusters, exec \in BOOLEAN :
          /\ calls[c].pc = "idle" /\ Call(c, exec, k)
          /\ IF exec THEN ~policy.readOnly ELSE policy.exposeKubeconfig
          /\ UNCHANGED <<policy, hostKnown, files, left>>
    <2>1. PICK k \in Clusters : ExecKubectl(c, k) \/ ExecHelm(c, k) \/ GetKubeconfig(c, k)
        BY DEF BeginCall
    <2>2. CASE ExecKubectl(c, k) \/ ExecHelm(c, k)
        <3>1. PICK tool \in {"capi_kubectl", "capi_helm"} : Exec(c, tool, k)
            BY <2>2 DEF ExecKubectl, ExecHelm
        <3>2. ~policy.readOnly
            BY <3>1 DEF Exec, BuildAllTools, credentialTools, mutatingTools
        <3>. QED  BY <3>1, <3>2 DEF Exec, Server, Setup
    <2>3. CASE GetKubeconfig(c, k)
        BY <2>3 DEF GetKubeconfig, CheckCredentialExport, Server, Setup
    <2>. QED  BY <2>1, <2>2, <2>3
<1>. DEFINE q == [NoCall EXCEPT !.pc = "getCluster", !.exec = exec, !.cluster = k]
<1>2. q \in CallRecs /\ q.path = NoPath /\ q.pc = "getCluster" /\ q.exec = exec
    BY DEF NoCall, CallRecs, PCs
<1>3. calls[c].path = NoPath
    BY <1>1 DEF ExecInv, CallOK
<1>4. CallOK(q, files)
    BY <1>1, <1>2 DEF CallOK
<1>5. calls' = [calls EXCEPT ![c] = q]
    BY <1>1 DEF Call
<1>. HIDE DEF q
<1>. QED  BY <1>1, <1>2, <1>3, <1>4, <1>5, CallKeeps

LEMMA CallStepKeeps ==
    ASSUME ExecInv, NEW c \in Calls, CallStep(c)
    PROVE  ExecInv' /\ calls[c].pc # "idle"
<1>. DEFINE r == calls[c]
<1>1. r \in CallRecs /\ CallOK(r, files) /\ calls \in [Calls -> CallRecs]
    BY DEF ExecInv, ExecTypeOK, CallRecs
<1>2. CASE \E found \in BOOLEAN : GetCluster(c, found)
    <2>1. CASE Answer(c)
        BY <1>1, <1>2, <2>1, AnswerKeeps DEF GetCluster, Server, Setup, CallOK
    <2>2. CASE Goto(c, "getSecret")
        <3>. DEFINE q == [r EXCEPT !.pc = "getSecret"]
        <3>1. q \in CallRecs /\ q.path = r.path /\ CallOK(q, files)
            BY <1>1, <1>2 DEF CallRecs, PCs, CallOK, GetCluster
        <3>2. calls' = [calls EXCEPT ![c] = q]
            BY <1>1, <2>2 DEF Goto
        <3>. QED  BY <1>2, <3>1, <3>2, CallKeeps DEF GetCluster, Server, Setup
    <2>. QED  BY <1>2, <2>1, <2>2 DEF GetCluster
<1>3. CASE ReadFails(c) \/ CreateTempFails(c)
    BY <1>1, <1>3, AnswerKeeps DEF ReadFails, CreateTempFails, Server, Setup, CallOK
<1>4. CASE \E s \in Secrets : GetSecret(c, s)
    <2>1. PICK s \in Secrets : GetSecret(c, s)
        BY <1>4
    <2>2. CASE Answer(c)
        BY <1>1, <2>1, <2>2, AnswerKeeps DEF GetSecret, Server, Setup, CallOK
    <2>3. CASE r.exec /\ ~Refused(s)
        <3>. DEFINE q == [r EXCEPT !.pc = "createTemp", !.host = s]
        <3>1. s \in {"management", "workload"} /\ (hostKnown => s = "workload")
            BY <2>1, <2>3 DEF GetSecret, Secrets, Refused
        <3>2. q \in CallRecs /\ q.path = r.path /\ CallOK(q, files)
            BY <1>1, <2>1, <3>1 DEF CallRecs, PCs, CallOK, GetSecret
        <3>3. calls' = [calls EXCEPT ![c] = q]
            BY <1>1, <2>1, <2>3 DEF GetSecret
        <3>. QED  BY <2>1, <3>2, <3>3, CallKeeps DEF GetSecret, Server, Setup
    <2>. QED  BY <2>1, <2>2, <2>3 DEF GetSecret
<1>5. CASE \E p \in Paths : CreateTemp(c, p)
    <2>1. PICK p \in Paths : CreateTemp(c, p)
        BY <1>5
    <2>. DEFINE q == [r EXCEPT !.pc = "writeString", !.path = p]
    <2>2. EmptyFile \in Contents /\ EmptyFile # NoFile
        BY DEF EmptyFile, Contents, NoFile
    <2>3. p # NoPath
        BY ExecAssumption
    <2>4. q \in CallRecs /\ q.path = p /\ r.path = NoPath
        BY <1>1, <2>1 DEF CallRecs, PCs, CallOK, CreateTemp
    <2>5. files' = [files EXCEPT ![p] = EmptyFile] /\ files'[p] = EmptyFile
        BY <2>1 DEF CreateTemp, ExecInv, ExecTypeOK
    <2>6. CallOK(q, files')
        BY <1>1, <2>1, <2>2, <2>3, <2>5 DEF CallRecs, CallOK, CreateTemp
    <2>7. \A d \in Calls : calls[d].path # p
        <3>1. ASSUME NEW d \in Calls, calls[d].path = p PROVE FALSE
            <4>1. files[p] # NoFile
                BY <2>3, <3>1 DEF ExecInv, CallOK
            <4>. QED  BY <2>1, <4>1 DEF CreateTemp
        <3>. QED  BY <3>1
    <2>8. calls' = [calls EXCEPT ![c] = q]
        BY <1>1, <2>1 DEF CreateTemp
    <2>9. UNCHANGED <<policy, hostKnown, left>>
        BY <2>1 DEF CreateTemp, Server, Setup
    <2>. HIDE DEF q
    <2>10. q.path = IF EmptyFile = NoFile THEN NoPath ELSE p
        BY <2>2, <2>4
    <2>11. ExecInv'
        BY <2>2, <2>4, <2>5, <2>6, <2>7, <2>8, <2>9, <2>10, FileKeeps
    <2>. QED  BY <2>1, <2>11 DEF CreateTemp
<1>6. CASE WriteString(c)
    <2>. DEFINE q == [r EXCEPT !.pc = "child"]
                v == [of |-> r.cluster, host |-> r.host]
                p == r.path
    <2>1. p \in Paths /\ p # NoPath
        BY <1>1, <1>6 DEF CallRecs, CallOK, WriteString
    <2>2. v \in Contents /\ v # NoFile
        BY <1>1, ContentsExist DEF CallRecs, Contents
    <2>3. files' = [files EXCEPT ![p] = v] /\ files'[p] = v
        BY <1>6, <2>1 DEF WriteString, ExecInv, ExecTypeOK
    <2>4. /\ q \in CallRecs /\ q.path = p /\ q.pc = "child" /\ q.exec = r.exec
          /\ q.host = r.host /\ q.cluster = r.cluster
        BY <1>1 DEF CallRecs, PCs
    <2>5. CallOK(q, files')
        BY <1>1, <1>6, <2>1, <2>2, <2>3, <2>4 DEF CallOK, WriteString
    <2>6. \A d \in Calls \ {c} : calls[d].path # p
        BY <2>1 DEF ExecInv, FilesAreApart, Holds
    <2>7. calls' = [calls EXCEPT ![c] = q]
        BY <1>1, <1>6 DEF WriteString, Goto
    <2>8. UNCHANGED <<policy, hostKnown, left>>
        BY <1>6 DEF WriteString, Server, Setup
    <2>. HIDE DEF q, v
    <2>9. q.path = IF v = NoFile THEN NoPath ELSE p
        BY <2>2, <2>4
    <2>10. ExecInv'
        BY <2>1, <2>2, <2>3, <2>4, <2>5, <2>6, <2>7, <2>8, <2>9, FileKeeps
    <2>. QED  BY <1>6, <2>10 DEF WriteString
<1>7. CASE WriteFails(c) \/ Cleanup(c)
    <2>1. Holds(c)
        BY <1>1, <1>7 DEF CallOK, Holds, WriteFails, Cleanup
    <2>. QED  BY <1>7, <2>1, RemovalKeeps DEF WriteFails, Cleanup, Setup
<1>8. CASE ChildEnds(c)
    <2>. DEFINE q == [r EXCEPT !.pc = "cleanup"]
    <2>1. q \in CallRecs /\ q.path = r.path /\ CallOK(q, files)
        BY <1>1, <1>8 DEF CallRecs, PCs, CallOK, ChildEnds
    <2>2. calls' = [calls EXCEPT ![c] = q]
        BY <1>1, <1>8 DEF ChildEnds, Goto
    <2>. QED  BY <1>8, <2>1, <2>2, CallKeeps DEF ChildEnds, Server, Setup
<1>. QED  BY <1>2, <1>3, <1>4, <1>5, <1>6, <1>7, <1>8 DEF CallStep

LEMMA InitHolds == Init => IInv
<1>. SUFFICES ASSUME Init PROVE IInv
    OBVIOUS
<1>1. ExecTypeOK
    BY ExecAssumption, Idleness DEF Init, ExecInit, ExecTypeOK, CallRecs
<1>2. TypeOK
    <2>1. runs \in 1 .. MaxRuns
        BY LifeAssumption DEF Init
    <2>. QED  BY <1>1, <2>1 DEF Init, TypeOK, MainPCs
<1>3. \A c \in Calls : calls[c] = NoCall
    BY DEF Init, ExecInit
<1>4. ExecInv
    BY <1>1, <1>3, IdleOK, Idleness
       DEF Init, ExecInit, ExecInv, FilesAreApart, Holds, FilesAreAccountedFor
<1>5. MainInv
    BY <1>3, Idleness DEF Init, MainInv, InFlight
<1>. QED  BY <1>2, <1>4, <1>5 DEF IInv

\* The main goroutine goes on, and no call and no file is touched.
LEMMA MainKeepsCalls ==
    ASSUME ExecInv, UNCHANGED execVars
    PROVE  ExecInv' /\ InFlight' = InFlight
<1>1. ExecInv'
    BY DEF ExecInv, ExecTypeOK, CallOK, FilesAreApart, Holds, FilesAreAccountedFor, execVars
<1>2. InFlight' = InFlight
    BY DEF InFlight, execVars
<1>. QED  BY <1>1, <1>2

\* The process ends.  Its calls leave their files behind.
LEMMA EndsKeeps ==
    ASSUME TypeOK, ExecInv, NEW r, Ends(r)
    PROVE  ExecInv' /\ InFlight' = {}
<1>1. \A c \in Calls : calls'[c] = NoCall
    BY DEF Ends
<1>2. ExecTypeOK'
    <2>1. left' \subseteq Paths
        BY DEF Ends, Holds, ExecInv, ExecTypeOK
    <2>. QED  BY <2>1, Idleness DEF Ends, ExecInv, ExecTypeOK, CallRecs
<1>3. (\A c \in Calls : CallOK(calls[c], files))'
    BY <1>1 DEF NoCall, CallOK
<1>4. FilesAreApart'
    BY <1>1, Idleness DEF FilesAreApart, Holds
<1>5. FilesAreAccountedFor'
    <2>1. SUFFICES ASSUME NEW p \in Paths, files'[p] # NoFile
                   PROVE  p \in left'
        BY DEF FilesAreAccountedFor
    <2>2. p \in left \/ \E c \in Calls : calls[c].path = p
        BY <2>1 DEF Ends, ExecInv, FilesAreAccountedFor
    <2>3. p # NoPath
        BY ExecAssumption
    <2>. QED  BY <2>2, <2>3 DEF Ends, Holds
<1>6. InFlight' = {}
    BY <1>1, Idleness DEF InFlight
<1>. QED  BY <1>2, <1>3, <1>4, <1>5, <1>6 DEF ExecInv

LEMMA MainHolds ==
    ASSUME IInv, Main
    PROVE  IInv'
<1>. USE DEF IInv
<1>1. CASE Requests /\ UNCHANGED <<config, runs, signalled>> /\ main' # "ended"
    <2>1. ExecInv' /\ InFlight' = InFlight
        BY <1>1, MainKeepsCalls DEF Requests, execVars
    <2>2. TypeOK'
        BY <1>1, <2>1 DEF Main, RunServe, newServerContext, newStore, oauthServer, Run,
              ListenReturns, ServeFails, BeginShutdown, ShutdownDone, ShutdownTimesOut,
              Return, Fails, Ends, Shutdown, GoesTo, At, TypeOK, MainPCs, Requests, ExecInv
    <2>3. MainInv'
        BY <1>1, <2>1 DEF Main, RunServe, newServerContext, newStore, oauthServer, Run,
              ListenReturns, ServeFails, BeginShutdown, ShutdownDone, ShutdownTimesOut,
              Return, Fails, Ends, GoesTo, At, TypeOK, MainInv, Requests, Active
    <2>. QED  BY <2>1, <2>2, <2>3
<1>2. CASE /\ \E r \in {"ok", "error"} : Ends(r)
           /\ UNCHANGED <<config, runs, signalled>>
           /\ ctxDone' \in BOOLEAN
           /\ store' \in {"none", "open", "closed"} /\ store' # "open"
    <2>1. ExecInv' /\ InFlight' = {}
        BY <1>2, EndsKeeps
    <2>2. TypeOK'
        BY <1>2, <2>1 DEF Ends, TypeOK, MainPCs, ExecInv
    <2>3. MainInv'
        BY <1>2, <2>1 DEF Ends, MainInv
    <2>. QED  BY <2>1, <2>2, <2>3
<1>. QED
    <2>1. CASE RunServe \/ newServerContext \/ newStore
        BY <1>1, <1>2, <2>1 DEF RunServe, newServerContext, newStore, Fails, Same, At,
              GoesTo, TypeOK, MainInv
    <2>2. CASE oauthServer \/ Run \/ ServeFails \/ BeginShutdown \/ ShutdownDone
               \/ ShutdownTimesOut \/ ListenReturns
        BY <1>1, <1>2, <2>2 DEF oauthServer, Run, ServeFails, BeginShutdown, ShutdownDone,
              ShutdownTimesOut, ListenReturns, Fails, Same, GoesTo
    <2>3. CASE Return
        BY <1>2, <2>3 DEF Return, Shutdown, Same, TypeOK, At, MainInv
    <2>. QED  BY <2>1, <2>2, <2>3 DEF Main

LEMMA StepHolds == IInv /\ [Next]_vars => IInv'
<1>. SUFFICES ASSUME IInv, [Next]_vars PROVE IInv'
    OBVIOUS
<1>1. CASE Main
    BY <1>1, MainHolds
<1>2. CASE CancelOnSignal \/ Stream \/ Signal
    <2>1. ExecInv' /\ InFlight' = InFlight
        BY <1>2, MainKeepsCalls DEF CancelOnSignal, Stream, Signal, IInv, Requests, Process, execVars
    <2>2. TypeOK'
        BY <1>2, <2>1 DEF CancelOnSignal, Stream, Signal, IInv, Requests, Process, Same, TypeOK, ExecInv
    <2>3. MainInv'
        BY <1>2, <2>1 DEF CancelOnSignal, Stream, Signal, IInv, Requests, Process, Same, MainInv
    <2>. QED  BY <2>1, <2>2, <2>3 DEF IInv
<1>3. ASSUME NEW c \in Calls, Begin(c) PROVE IInv'
    <2>1. ExecInv'
        BY <1>3, BeginCallKeeps DEF Begin, Process, IInv
    <2>2. TypeOK'
        BY <1>3, <2>1 DEF Begin, Process, IInv, TypeOK, ExecInv
    <2>3. MainInv'
        BY <1>3 DEF Begin, Accepts, Process, IInv, MainInv
    <2>. QED  BY <2>1, <2>2, <2>3 DEF IInv
<1>4. ASSUME NEW c \in Calls, Continue(c) PROVE IInv'
    <2>1. ExecInv' /\ c \in InFlight
        BY <1>4, CallStepKeeps DEF Continue, Process, IInv, InFlight
    <2>2. TypeOK'
        BY <1>4, <2>1 DEF Continue, Process, IInv, TypeOK, ExecInv
    <2>3. MainInv'
        BY <1>4, <2>1 DEF Continue, Process, IInv, MainInv
    <2>. QED  BY <2>1, <2>2, <2>3 DEF IInv
<1>5. CASE Killed
    <2>1. ExecInv' /\ InFlight' = {}
        BY <1>5, EndsKeeps DEF Killed, IInv
    <2>2. TypeOK'
        BY <1>5, <2>1 DEF Killed, Ends, IInv, TypeOK, MainPCs, ExecInv
    <2>3. MainInv'
        BY <1>5, <2>1 DEF Killed, Ends, MainInv
    <2>. QED  BY <2>1, <2>2, <2>3 DEF IInv
<1>6. CASE Restart
    <2>1. ExecInv' /\ InFlight' = InFlight
        BY <1>6, MainKeepsCalls DEF Restart, IInv
    <2>2. TypeOK'
        <3>1. runs' \in 1 .. MaxRuns
            BY <1>6, LifeAssumption DEF Restart, IInv, TypeOK
        <3>. QED  BY <1>6, <2>1, <3>1 DEF Restart, IInv, TypeOK, MainPCs, ExecInv
    <2>3. MainInv'
        BY <1>6, <2>1 DEF Restart, IInv, MainInv
    <2>. QED  BY <2>1, <2>2, <2>3 DEF IInv
<1>7. CASE UNCHANGED vars
    <2>1. ExecInv' /\ InFlight' = InFlight
        BY <1>7, MainKeepsCalls DEF vars, execVars, IInv
    <2>2. TypeOK'
        BY <1>7, <2>1 DEF vars, IInv, TypeOK, ExecInv
    <2>3. MainInv'
        BY <1>7, <2>1 DEF vars, IInv, MainInv
    <2>. QED  BY <2>1, <2>2, <2>3 DEF IInv
<1>. QED  BY <1>1, <1>2, <1>3, <1>4, <1>5, <1>6, <1>7 DEF Next

LEMMA Invariance == Spec => []IInv
BY InitHolds, StepHolds, PTL DEF Spec

\* Every variable keeps its type, through start-up failures, kills and restarts.
THEOREM TypeCorrect == Spec => []TypeOK
<1>1. IInv => TypeOK
    BY DEF IInv
<1>. QED  BY <1>1, Invariance, PTL

\* kubectl and helm always find, in the file they were given, the complete
\* kubeconfig of the cluster their call named, and never the management
\* cluster's if its hostname is known; any number of calls may be in flight.
THEOREM ChildrenSeeTheirCluster == Spec => []ChildSeesItsCluster
<1>1. IInv => ChildSeesItsCluster
    BY DEF IInv, ExecInv, CallOK, ChildSeesItsCluster
<1>. QED  BY <1>1, Invariance, PTL

\* Under any policy, a read-only server runs no child process and kubeconfigs
\* are read for a caller only where their export is allowed.
THEOREM PolicyIsKept == Spec => []PolicyBoundsReads
<1>1. IInv => PolicyBoundsReads
    BY DEF IInv, ExecInv, CallOK, PolicyBoundsReads, InFlight
<1>. QED  BY <1>1, Invariance, PTL

\* No error path forgets a kubeconfig on the disk: every file belongs to a call
\* that will try to remove it, or to one that ended with its process, or one
\* whose os.Remove failed.
THEOREM NoFileIsForgotten == Spec => []FilesAreAccountedFor
<1>1. IInv => FilesAreAccountedFor
    BY DEF IInv, ExecInv
<1>. QED  BY <1>1, Invariance, PTL

\* The token store is released on every path on which the server ends by itself.
THEOREM StoreIsReleased == Spec => []StoreReleased
<1>1. IInv => StoreReleased
    BY DEF IInv, MainInv, StoreReleased
<1>. QED  BY <1>1, Invariance, PTL

\* A streamable-http server that reports a graceful stop has cut off no call,
\* and closes the token store under a call only after it gave up waiting.
THEOREM GracefulStop == Spec => GracefulStopCutsNothing
<1>. DEFINE A == /\ config.transport = "streamable-http"
                 /\ \/ Return /\ result = "ok"
                    \/ store = "open" /\ store' = "closed" /\ result # "error"
                 => InFlight = {}
<1>1. ASSUME IInv, [Next]_vars PROVE [A]_vars
    <2>. SUFFICES ASSUME config.transport = "streamable-http", store = "open",
                         store' = "closed", result # "error", ~Return
                  PROVE  InFlight = {}
        BY <1>1 DEF IInv, MainInv, Return, At
    <2>1. oauthServer
        BY <1>1 DEF Next, Main, RunServe, newServerContext, newStore, Run, ServeFails,
              BeginShutdown, ShutdownDone, ShutdownTimesOut, ListenReturns,
              CancelOnSignal, Begin, Continue, Stream, Signal, Killed, Restart, Process, vars
    <2>. QED  BY <1>1, <2>1 DEF oauthServer, At, IInv, MainInv
<1>. QED  BY <1>1, Invariance, PTL DEF Spec, GracefulStopCutsNothing
=============================================================================
