---------------------------- MODULE EngineClients ----------------------------
(***************************************************************************)
(* The GUI beside its engine: the poller and the recorder dialog, which     *)
(* send it requests (KeyEvents), and the service that starts and stops its  *)
(* process (EngineService).  The parts that are at work in a behaviour: the *)
(* poller beside an engine that may fail, the dialog beside one, both       *)
(* beside one that does not, or the service.                                *)
(***************************************************************************)
EXTENDS KeyEvents, EngineService

VARIABLE part

allVars == <<part, vars, serviceVars>>

ClientsInit ==
  /\ part \in {"poller", "dialog", "both", "service"}
  /\ Init
  /\ ServiceInit
  /\ other => part = "service"

\* Bounds of the composition: one capture, one press, no faults.
Together ==
  /\ \/ next = 0 /\ Press
     \/ \E j \in jobs : Request(j) \/ OnPollerFailed(j)
     \/ SetWanted
     \/ Sync
     \/ DialogStep
  /\ dialog'.shown # "no" => dialog'.capture
  /\ dialog.previous # Unread => dialog'.phase # "starting"

ClientsNext ==
  /\ part' = part
  /\ \/ part = "poller" /\ (EngineStep \/ PollerStep) /\ UNCHANGED serviceVars
     \/ part = "dialog" /\ (EngineStep \/ DialogStep) /\ next' < 2 /\ UNCHANGED serviceVars
     \/ part = "both" /\ Together /\ UNCHANGED serviceVars
     \/ part = "service" /\ ServiceNext /\ UNCHANGED vars

ClientsSpec == ClientsInit /\ [][ClientsNext]_allVars /\ (part = "poller" => Fairness)

-----------------------------------------------------------------------------
(* Properties, beside those of the parts *)

\* The types of both modules.
ClientsTypeOK == TypeOK /\ ServiceTypeOK

\* WatchReturns, where no dialog borrows the watch.
PollerRegainsWatch == part = "poller" => WatchReturns
=============================================================================
