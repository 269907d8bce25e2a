------------------------------ MODULE MCDrain ------------------------------
(* Drain for TLC.                                                          *)
EXTENDS Drain, TLC

Policy(readOnly, guard) ==
    [readOnly |-> readOnly, gitOpsGuard |-> guard, exposeKubeconfig |-> FALSE]

\* With the guard on, the Node's ownership marker decides.
MCPolicies == {Policy(TRUE, FALSE), Policy(FALSE, TRUE)}
MCOptions == Options

\* Two pods that come and go: nothing is accepted, or DaemonSet pods are left.
TwoPods ==
    /\ policy.gitOpsGuard
    /\ ~drain.opts.DeleteLocalData /\ ~drain.opts.Force
    /\ \A n \in Names : pods[n].kind \in {"daemon", "plain"}

\* What planning looks at: one pod of any kind beside a mirror pod nobody
\* touches, under every combination of the options.
OnePod ==
    LET other == CHOOSE n \in Names : TRUE
    IN  pods[other] = [NoPod EXCEPT !.uid = 1, !.kind = "mirror", !.here = TRUE]

\* Only the cluster's steps lead out of it: no step of the drain is cut off.
TwoPodsOrOne == TwoPods \/ OnePod
=============================================================================
