------------------------------ MODULE MCAgent ------------------------------
(***************************************************************************)
(* Model values for the runs of Agent.                                     *)
(***************************************************************************)
EXTENDS Agent

\* A safety file and a sensor file: the most and the least urgent class, and the
\* class an observation should point at.
TwoClasses == {"safety", "sensor"}
OneEach == [c \in TwoClasses |-> 0]

\* One class, one name.
OneClass == {"safety"}
OneFile == [c \in OneClass |-> 0]
=============================================================================
