-------------------------- MODULE MCDashboardPages --------------------------
(***************************************************************************)
(* Three findings for the list, of which the filters hide different ones;  *)
(* five for the excerpt, at the start, the end and outside of their files; *)
(* two reports whose folders differ.                                       *)
(***************************************************************************)
EXTENDS DashboardPages, TLC

Row(s, p, t, src) == [severity |-> s, priority |-> p, test |-> t, source |-> src,
                      category |-> "c", matched |-> t]
MCFindings == <<Row("low", 4, FALSE, "rule"), Row("critical", -1, TRUE, "rule"),
                Row("low", 5, FALSE, "satd")>>

Excerpt(f, l, e, p) == [file |-> f, line |-> l, end |-> e, plain |-> p]
MCPanelFindings == {Excerpt("a", 1, 0, TRUE), Excerpt("a", 2, 30, TRUE),
                    Excerpt("b", 9, 12, TRUE), Excerpt("b", 0, 0, TRUE),
                    Excerpt("o", 3, 0, FALSE)}
MCFileLength == [u \in {"c1", "c2"} \X {"a", "b", "o"} |->
                   IF u[2] # "a" THEN 10 ELSE IF u[1] = "c1" THEN 40 ELSE 3]

MCTrees == <<[x |-> <<"d">>, y |-> <<>>], [y |-> <<>>]>>
MCTrendScores == 0..100
=============================================================================
