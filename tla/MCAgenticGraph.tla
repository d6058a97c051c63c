--------------------------- MODULE MCAgenticGraph ---------------------------
(***************************************************************************)
(* Instance of AgenticGraph with two settings of AGENT_MAX_TURNS, of which *)
(* a deployment has one: the shipped limit, which the planner never        *)
(* reaches, and the smallest one with which every property holds.          *)
(***************************************************************************)
EXTENDS AgenticGraph

CONSTANT TightCap

VARIABLE tight   \* the deployment has the small limit

Tight == INSTANCE AgenticGraph WITH TurnCap <- TightCap

MCInit == Init /\ tight \in BOOLEAN

MCNext ==
  \/ ~tight /\ Next /\ UNCHANGED tight
  \/ tight /\ Tight!Next /\ UNCHANGED tight

MCSpec == MCInit /\ [][MCNext]_<<vars, tight>> /\ WF_<<vars, tight>>(MCNext)
=============================================================================
