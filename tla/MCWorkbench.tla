---------------------------- MODULE MCWorkbench ----------------------------
(* TLC instance of Workbench: which requests meet each other. *)
EXTENDS Workbench, TLC

CONSTANTS t1, t2

Serving(a, b) == t1 :> a @@ t2 :> b

\* A click and the plan; a claim beside the plan, or beside another claim; the
\* session handlers around a page; the list of tasks.
MCMixes ==
    { Serving({"draw"}, {"plan"}),
      Serving({"claim"}, {"plan"}),
      Serving({"claim"}, {"claim"}),
      Serving({"login", "logout"}, {"page"}),
      Serving({"toggle", "put"}, {"toggle"}) }

\* Two switches of one list.
SwitchMixes == { Serving({"toggle"}, {"toggle"}) }
=============================================================================
