-------------------------- MODULE MCWorkspacePages --------------------------
(***************************************************************************)
(* Windows, tour cards and targets of many sizes, the targets beyond the   *)
(* edges of the window too; the projects that the mock API starts with.    *)
(***************************************************************************)
EXTENDS WorkspacePages

Span == {<<-4, 2>>, <<0, 0>>, <<0, 6>>, <<2, 4>>, <<4, 10>>, <<6, 6>>, <<8, 12>>,
         <<2, 14>>, <<14, 18>>}
MCTargetRects == {[left |-> x[1], right |-> x[2], top |-> y[1], bottom |-> y[2]] :
                    x \in Span, y \in Span}
MCViewports == [width : {8, 12, 16}, height : {8, 14}]
MCCardSizes == [width : {4, 6}, height : {2, 6}] \cup {[width |-> 10, height |-> 4]}

MCSeededRepos == [w \in {"home", "nimbus"} |-> IF w = "home" THEN {"r"} ELSE {"n"}]
=============================================================================
