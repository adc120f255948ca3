----------------------------- MODULE MCWorkflow -----------------------------
(* Instances of WorkflowCoordinator for TLC.                                *)
EXTENDS WorkflowCoordinator, TLC

CONSTANTS k1, k2, s1, s2

\* Two tasks of one workspace that listen to one topic.
OneWorkspace == (k1 :> "w" @@ k2 :> "w")
SharedTopic == (k1 :> {s1} @@ k2 :> {s1})

\* Two tasks outside any workspace.
NoWorkspaces == (k1 :> "none" @@ k2 :> "none")

\* One task alone, on a topic with one subscription, and with two, so that it is
\* ambiguous while it is not bound and both are active.
SoloWorkspace == (k1 :> "w")
SoloTopic == (k1 :> {s1})
SoloTopics == (k1 :> {s1, s2})

\* Run ids are interchangeable, and so are tasks and subscriptions when their
\* workspaces and topics are the same, as in the instances that use these.
RunSymmetry == Permutations(Dispatch)
FullSymmetry == Permutations(Dispatch) \cup Permutations(Task) \cup Permutations(Sub)
=============================================================================
