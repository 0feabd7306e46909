------------------------------ MODULE MCAutoDraw ------------------------------
(***************************************************************************)
(* TLC instances of AutoDraw: a day of three hours, Beijing one hour ahead. *)
(***************************************************************************)
EXTENDS AutoDraw, TLC

MCTask == "d" :> "draw" @@ "k" :> "checkin" @@ "c" :> "claim" @@ "b" :> "claim"
MCKind == "d" :> "random" @@ "k" :> "fixed" @@ "c" :> "fixed" @@ "b" :> "random"
MCStart == "d" :> 0 @@ "k" :> 1 @@ "c" :> 2 @@ "b" :> 1
MCEnd == "d" :> 2 @@ "k" :> 0 @@ "c" :> 0 @@ "b" :> 2
===============================================================================
