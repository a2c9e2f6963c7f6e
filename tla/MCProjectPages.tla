--------------------------- MODULE MCProjectPages ---------------------------
(***************************************************************************)
(* Two workspaces with a repository each; projects of the overview whose   *)
(* health is bad, good, falling or measured over much code, two of one     *)
(* name.                                                                   *)
(***************************************************************************)
EXTENDS ProjectPages, TLC

MCHomeOf == ("r" :> "w1" @@ "s" :> "w2")
MCHealth == [score : {30}, delta : {0, -5}, kloc : {0}, scanned_at : {1}]
              \cup [score : {90}, delta : {0, -5}, kloc : {0}, scanned_at : {2}]
              \cup {[score |-> 50, delta |-> 0, kloc |-> 2, scanned_at |-> 2]}
MCNameOf == 1 :> 2 @@ 2 :> 1 @@ 3 :> 1
=============================================================================
