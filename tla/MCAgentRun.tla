----------------------------- MODULE MCAgentRun -----------------------------
(* A small instance of AgentRun: one or two signatures of each kind of tool *)
(* and every order in which a model can ask for them.                       *)
EXTENDS AgentRun

MCToolOf == [c \in Calls |->
    CASE c = "edit" -> Edit [] c = "report" -> Report
      [] c \in {"deep1", "deep2"} -> Deep
      [] c \in {"ctx1", "ctx2"} -> Context
      [] c = "web" -> "web" [] OTHER -> "unexposed"]
MCEligible == {Edit, Report, Deep, Context, "web"}

=============================================================================
