----------------------------- MODULE MCPrograms -----------------------------
(***************************************************************************)
(* The two programs that run once per user: the macro engine with its       *)
(* socket, and the GUI with its socket and its overlay.  One of the two is  *)
(* at work in a behaviour.                                                  *)
(***************************************************************************)
EXTENDS MCEngineSocket, Overlay

MCPids == {1, 2}

VARIABLE part   \* the program at work

ProgramsInit == /\ part \in {"engine", "gui"}
                /\ Init
                /\ SessionInit

ProgramsNext == /\ part' = part
                /\ \/ part = "engine" /\ Next /\ UNCHANGED sessionVars
                   \/ part = "gui" /\ SessionNext /\ UNCHANGED vars

ProgramsSpec == ProgramsInit /\ [][ProgramsNext]_<<part, vars, sessionVars>>
=============================================================================
