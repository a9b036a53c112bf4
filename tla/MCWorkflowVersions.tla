-------------------------- MODULE MCWorkflowVersions --------------------------
(* Two definitions of a small flow: as shipped, and with a state more and an *)
(* edge that asks for more, but one edge less.  u1 is of the tenant, u2      *)
(* operates the platform.                                                    *)
EXTENDS WorkflowVersions

CONSTANTS shipped, wider, u1, u2

MCStates  == [d \in {shipped, wider} |-> IF d = wider THEN {"open", "check", "done"} ELSE {"open", "done"}]
MCInitial == [d \in {shipped, wider} |-> "open"]
MCEdges   == [d \in {shipped, wider} |->
                {<<"open", "done">>} \cup (IF d = wider THEN {<<"open", "check">>, <<"check", "done">>}
                                           ELSE {<<"done", "open">>})]
MCDemands == [d \in {shipped, wider} |-> [e \in MCEdges[d] |-> IF d = wider THEN {"photo"} ELSE {}]]
MCTune    == [d \in {shipped, wider} |-> wider]
AllKinds  == {"approve", "template", "tune", "rollback"}
Overwriting == {"template", "rollback"}
(* A bound: a draft is saved a second time only on the first version.        *)
FirstDrafts == change.rev > 1 => live.version < 2
=============================================================================
