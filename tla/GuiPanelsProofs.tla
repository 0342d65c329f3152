--------------------------- MODULE GuiPanelsProofs ---------------------------
(* What the parts of the GUI keep true, for all values of the constants: the   *)
(* window, the lighting and mouse panels, the settings, the loads and the      *)
(* settings of the overlay, and the macro editor with the lists and recordings *)
(* it reads. Each has an invariant of its own, kept by the steps of that part. *)
EXTENDS Gui, Integers, Lists, FiniteSetTheorems, SequenceTheorems, WellFoundedInduction, TLAPS

-----------------------------------------------------------------------------
(* The window and the Daemon dialog: service actions and the page on top.   *)

Jobs == Window!WindowActions \cup Window!PanelActions \cup {"connect", "attempt", "ended"}

(* Each flag says whether its place has a task, and has been told to the other *)
(* place, which then starts none.                                              *)
FlagsAgree ==
    /\ job \in [Window!Users -> Jobs \cup {Window!None}]
    /\ {busy, panelRuns} \subseteq BOOLEAN
    /\ externalBusy = busy /\ panelBusy = panelRuns
    /\ ~(busy /\ panelRuns)
    /\ job["window"] # Window!None <=> busy
    /\ job["panel"] # Window!None <=> panelRuns
    /\ offered = Window!Offered(busy, panelBusy, panelRuns, externalBusy)

LEMMA JobsAreNotNone == Window!None \notin Jobs
  BY DEF Window!None, Jobs, Window!WindowActions, Window!PanelActions

LEMMA InitAgrees == Window!Init => FlagsAgree
<1>1. ASSUME Window!Init PROVE job \in [Window!Users -> Jobs \cup {Window!None}]
  BY <1>1 DEF Window!Init, Jobs
<1>2. ASSUME Window!Init PROVE job["window"] # Window!None /\ job["panel"] = Window!None
  BY <1>2 DEF Window!Init, Window!Users, Window!None
<1>3. ASSUME Window!Init PROVE offered = Window!Offered(busy, panelBusy, panelRuns, externalBusy)
  BY <1>3 DEF Window!Init, Window!Offered
<1>4. QED
  BY <1>1, <1>2, <1>3 DEF Window!Init, FlagsAgree

(* A task goes on to other work or ends, but is not over.                      *)
LEMMA WorkAgrees ==
  ASSUME FlagsAgree, NEW u \in Window!Users, Window!Work(u)
  PROVE  FlagsAgree'
<1>1. UNCHANGED Window!busyVars
  BY DEF Window!Work
<1>2. PICK j \in Jobs : job' = [job EXCEPT ![u] = j]
  BY DEF Window!Work, Window!DropManager, Window!Attempt, Window!StartDaemon, Window!StopDaemon,
     Window!SetAttribute, Window!Ends, Window!GoesOn, Jobs
<1>3. job[u] # Window!None
  BY DEF Window!Work, Window!DropManager, Window!Attempt, Window!StartDaemon, Window!StopDaemon,
     Window!SetAttribute, Window!None
<1>4. j # Window!None
  BY JobsAreNotNone
<1>5. job' \in [Window!Users -> Jobs \cup {Window!None}]
  BY <1>2 DEF FlagsAgree
<1>6. \A v \in Window!Users : job'[v] # Window!None <=> job[v] # Window!None
  BY <1>2, <1>3, <1>4 DEF FlagsAgree
<1>7. QED
  BY <1>1, <1>5, <1>6 DEF FlagsAgree, Window!busyVars, Window!Users, Window!Offered

(* Both places look at both flags before they start.                           *)
LEMMA StartAgrees ==
  ASSUME FlagsAgree,
         \/ \E what \in Window!WindowActions : Window!WindowAction(what)
         \/ \E what \in Window!PanelActions : Window!PanelAction(what)
  PROVE  FlagsAgree'
<1>1. CASE \E what \in Window!WindowActions : Window!WindowAction(what)
  <2>1. PICK what \in Window!WindowActions : Window!WindowAction(what)
    BY <1>1
  <2>2. what \in Jobs /\ what # Window!None
    BY JobsAreNotNone DEF Jobs
  <2>3. /\ job' = [job EXCEPT !["window"] = what]
        /\ ~busy /\ ~panelBusy
        /\ busy' = TRUE /\ externalBusy' = TRUE /\ UNCHANGED <<panelBusy, panelRuns>>
        /\ offered' = Window!Offered(TRUE, panelBusy, panelRuns, TRUE)
    BY <2>1 DEF Window!WindowAction, Window!Submit, Window!SetBusy
  <2>4. /\ job' \in [Window!Users -> Jobs \cup {Window!None}]
        /\ job'["window"] = what /\ job'["panel"] = job["panel"]
    BY <2>2, <2>3 DEF FlagsAgree, Window!Users
  <2>5. QED
    BY <2>2, <2>3, <2>4 DEF FlagsAgree, Window!Offered
<1>2. CASE \E what \in Window!PanelActions : Window!PanelAction(what)
  <2>1. PICK what \in Window!PanelActions : Window!PanelAction(what)
    BY <1>2
  <2>2. what \in Jobs /\ what # Window!None
    BY JobsAreNotNone DEF Jobs
  <2>3. /\ job' = [job EXCEPT !["panel"] = what]
        /\ ~panelRuns /\ ~externalBusy
        /\ panelRuns' = TRUE /\ panelBusy' = TRUE /\ UNCHANGED <<busy, externalBusy>>
        /\ offered' = Window!Offered(busy, TRUE, TRUE, externalBusy)
    BY <2>1 DEF Window!PanelAction, Window!Submit, Window!SetPanelBusy
  <2>4. /\ job' \in [Window!Users -> Jobs \cup {Window!None}]
        /\ job'["panel"] = what /\ job'["window"] = job["window"]
    BY <2>2, <2>3 DEF FlagsAgree, Window!Users
  <2>5. QED
    BY <2>2, <2>3, <2>4 DEF FlagsAgree, Window!Offered
<1>3. QED
  BY <1>1, <1>2

LEMMA DoneAgrees ==
  ASSUME FlagsAgree, Window!WindowDone \/ Window!PanelDone
  PROVE  FlagsAgree'
<1>1. CASE Window!WindowDone
  <2>1. /\ job' = [job EXCEPT !["window"] = Window!None]
        /\ busy' = FALSE /\ externalBusy' = FALSE /\ UNCHANGED <<panelBusy, panelRuns>>
        /\ offered' = Window!Offered(FALSE, panelBusy, panelRuns, FALSE)
    BY <1>1 DEF Window!WindowDone, Window!SetBusy
  <2>2. /\ job' \in [Window!Users -> Jobs \cup {Window!None}]
        /\ job'["window"] = Window!None /\ job'["panel"] = job["panel"]
    BY <2>1 DEF FlagsAgree, Window!Users
  <2>3. QED
    BY <2>1, <2>2 DEF FlagsAgree, Window!Offered
<1>2. CASE Window!PanelDone
  <2>1. /\ job' = [job EXCEPT !["panel"] = Window!None]
        /\ panelRuns' = FALSE /\ panelBusy' = FALSE /\ UNCHANGED <<busy, externalBusy>>
        /\ offered' = Window!Offered(busy, FALSE, FALSE, externalBusy)
    BY <1>2 DEF Window!PanelDone, Window!SetPanelBusy
  <2>2. /\ job' \in [Window!Users -> Jobs \cup {Window!None}]
        /\ job'["panel"] = Window!None /\ job'["window"] = job["window"]
    BY <2>1 DEF FlagsAgree, Window!Users
  <2>3. QED
    BY <2>1, <2>2 DEF FlagsAgree, Window!Offered
<1>3. QED
  BY <1>1, <1>2

(* Visits of pages and the outside world touch neither.                        *)
LEMMA OthersAgree ==
  ASSUME FlagsAgree, UNCHANGED <<job, Window!busyVars>>
  PROVE  FlagsAgree'
  BY DEF FlagsAgree, Window!busyVars, Window!Offered

LEMMA VisitsTouchNoFlag ==
  ASSUME \/ \E s \in Serials : Window!ActivateCard(s) \/ Window!Plug(s)
         \/ Window!GoHome \/ Window!ShowMacros \/ Window!LeaveMacros
         \/ \E p \in Window!Pages : Window!ShowPage(p) \/ Window!LeavePage(p)
         \/ Window!DaemonUp \/ Window!DaemonDies
  PROVE  UNCHANGED <<job, Window!busyVars>>
  BY DEF Window!ActivateCard, Window!Plug, Window!GoHome, Window!ShowMacros, Window!LeaveMacros,
     Window!ShowPage, Window!LeavePage,
         Window!DaemonUp, Window!DaemonDies, Window!Stays, Window!jobVars

LEMMA StepAgrees == FlagsAgree /\ Window!Next => FlagsAgree'
<1> SUFFICES ASSUME FlagsAgree, Window!Next PROVE FlagsAgree'
  OBVIOUS
<1>1. CASE \E u \in Window!Users : Window!Work(u)
  BY <1>1, WorkAgrees
<1>2. CASE \/ \E what \in Window!WindowActions : Window!WindowAction(what)
           \/ \E what \in Window!PanelActions : Window!PanelAction(what)
  BY <1>2, StartAgrees
<1>3. CASE Window!WindowDone \/ Window!PanelDone
  BY <1>3, DoneAgrees
<1>4. CASE \/ \E s \in Serials : Window!ActivateCard(s) \/ Window!Plug(s)
           \/ Window!GoHome \/ Window!ShowMacros \/ Window!LeaveMacros
           \/ \E p \in Window!Pages : Window!ShowPage(p) \/ Window!LeavePage(p)
           \/ Window!DaemonUp \/ Window!DaemonDies
  BY <1>4, OthersAgree, VisitsTouchNoFlag
<1>5. QED
  BY <1>1, <1>2, <1>3, <1>4 DEF Window!Next

LEMMA AgreementExcludes == FlagsAgree => Window!OneServiceAction
<1> SUFFICES ASSUME FlagsAgree PROVE Window!OneServiceAction
  OBVIOUS
<1>1. Window!Quiet <=> ~busy /\ ~panelRuns
  BY DEF FlagsAgree, Window!Quiet, Window!Users
<1>2. ASSUME NEW u \in Window!Users PROVE (offered[u] <=> ~busy /\ ~panelRuns) /\ offered[u] \in BOOLEAN
  BY DEF FlagsAgree, Window!Offered, Window!Users
<1>3. Window!Quiet \in BOOLEAN
  BY DEF Window!Quiet
<1>4. \A u \in Window!Users : offered[u] = Window!Quiet
  BY <1>1, <1>2, <1>3
<1>5. ~(job["window"] # Window!None /\ job["panel"] # Window!None)
  BY DEF FlagsAgree
<1>6. QED
  BY <1>4, <1>5 DEF Window!OneServiceAction

-----------------------------------------------------------------------------
(* Whatever page is on top, a reload leaves the selection on it.               *)
LEMMA ReloadSelects ==
  ASSUME NEW top, Window!ReloadOn(top)
  PROVE  Window!SelectionIsShown'
<1>1. entries' = manager
  BY DEF Window!ReloadOn
<1>2. CASE top \in Window!StayOn
  <2>1. page' \in Window!StayOn
    BY <1>2 DEF Window!ReloadOn
  <2>2. QED
    BY <2>1 DEF Window!SelectionIsShown, Window!StayOn
<1>3. CASE top \notin Window!StayOn /\ manager.devs = {}
  <2>1. page' = "empty" /\ shown' = Window!NoDevice
    BY <1>3 DEF Window!ReloadOn, Window!ShowEmpty
  <2>2. QED
    BY <1>1, <1>3, <2>1 DEF Window!SelectionIsShown, Window!NoDevice
<1>4. CASE top \notin Window!StayOn /\ manager.devs # {} /\ top = "device" /\ last \in manager.devs
  <2>1. Window!OpenDevice(manager, last)
    BY <1>4 DEF Window!ReloadOn
  <2>2. QED
    BY <1>1, <1>4, <2>1 DEF Window!OpenDevice, Window!SelectionIsShown
<1>5. CASE top \notin Window!StayOn /\ manager.devs # {} /\ ~(top = "device" /\ last \in manager.devs)
  <2>1. Window!ShowHome(manager)
    BY <1>5 DEF Window!ReloadOn
  <2>2. QED
    BY <1>1, <2>1 DEF Window!ShowHome, Window!SelectionIsShown, Window!NoDevice
<1>6. QED
  BY <1>2, <1>3, <1>4, <1>5

(* Opening, leaving and changing pages.                                        *)
LEMMA VisitSelects ==
  ASSUME Window!SelectionIsShown,
         \/ \E s \in Serials : Window!ActivateCard(s)
         \/ Window!GoHome \/ Window!ShowMacros \/ \E p \in Window!Pages : Window!ShowPage(p)
  PROVE  Window!SelectionIsShown'
<1>1. CASE \E s \in Serials : Window!ActivateCard(s)
  <2>1. PICK s \in Serials : s \in entries.devs /\ Window!OpenDevice(entries, s) /\ UNCHANGED entries
    BY <1>1 DEF Window!ActivateCard
  <2>2. QED
    BY <2>1 DEF Window!OpenDevice, Window!SelectionIsShown
<1>2. CASE Window!GoHome
  BY <1>2 DEF Window!GoHome, Window!ShowHome, Window!SelectionIsShown, Window!NoDevice
<1>3. CASE Window!ShowMacros \/ \E p \in Window!Pages : Window!ShowPage(p)
  <2>1. page' \in {"macros", "sysmon", "effects"}
    BY <1>3 DEF Window!ShowMacros, Window!ShowPage
  <2>2. QED
    BY <2>1 DEF Window!SelectionIsShown
<1>4. QED
  BY <1>1, <1>2, <1>3

LEMMA StepSelects == Window!SelectionIsShown /\ Window!Next => Window!SelectionIsShown'
<1> SUFFICES ASSUME Window!SelectionIsShown, Window!Next PROVE Window!SelectionIsShown'
  OBVIOUS
<1>1. CASE UNCHANGED Window!pageVars
  BY <1>1 DEF Window!pageVars, Window!SelectionIsShown
<1>2. CASE \E top : Window!ReloadOn(top)
  BY <1>2, ReloadSelects
<1>3. CASE \/ \E s \in Serials : Window!ActivateCard(s)
           \/ Window!GoHome \/ Window!ShowMacros \/ \E p \in Window!Pages : Window!ShowPage(p)
  BY <1>3, VisitSelects
<1>4. CASE Window!WindowDone \/ Window!PanelDone \/ Window!LeaveMacros \/ \E p \in Window!Pages : Window!LeavePage(p)
  BY <1>4, <1>2 DEF Window!WindowDone, Window!PanelDone, Window!LeaveMacros, Window!LeavePage
<1>5. CASE \/ \E u \in Window!Users : Window!Work(u)
           \/ \E what \in Window!WindowActions : Window!WindowAction(what)
           \/ \E what \in Window!PanelActions : Window!PanelAction(what)
           \/ \E s \in Serials : Window!Plug(s)
           \/ Window!DaemonUp \/ Window!DaemonDies
  BY <1>5, <1>1 DEF Window!Work, Window!WindowAction, Window!PanelAction, Window!Submit,
     Window!Plug, Window!DaemonUp, Window!DaemonDies
<1>6. QED
  BY <1>3, <1>4, <1>5 DEF Window!Next

-----------------------------------------------------------------------------
(* The types, with the count of managers that bounds their identities.         *)
WindowTypes == Window!TypeOK /\ made \in Nat

LEMMA TypesStart == Window!Init => WindowTypes
<1> SUFFICES ASSUME Window!Init PROVE WindowTypes
  OBVIOUS
<1>1. /\ Window!NoManager \in [id : 0..0, devs : SUBSET Serials]
      /\ Window!NoDevice \in [id : 0..0, serial : Serials \cup {Window!None}]
  BY DEF Window!NoManager, Window!NoDevice
<1>2. tries \in [Window!Users -> 0..Retries]
  BY GuiAssumption DEF Window!Init, Window!WindowAssumption
<1>3. job \in [Window!Users -> Window!WindowActions \cup Window!PanelActions \cup {"connect", "attempt", "ended", Window!None}]
  BY DEF Window!Init
<1>4. QED
  BY <1>1, <1>2, <1>3 DEF Window!Init, WindowTypes, Window!TypeOK, Window!Pages

(* A manager more, or none.                                                    *)
LEMMA WorkTypes ==
  ASSUME WindowTypes, NEW u \in Window!Users, Window!Work(u)
  PROVE  WindowTypes'
<1>0. UNCHANGED <<Window!busyVars, Window!pageVars, before>>
  BY DEF Window!Work
<1>1. /\ daemon' \in {"up", "starting", "down"} /\ plugged' \subseteq Serials
      /\ made' \in {made, made + 1}
      /\ made' = made => manager' \in {manager, Window!NoManager}
      /\ made' = made + 1 => manager' = [id |-> made + 1, devs |-> plugged]
  <2> USE DEF WindowTypes, Window!TypeOK
  <2>1. CASE Window!DropManager(u)
    BY <2>1 DEF Window!DropManager
  <2>2. CASE Window!Attempt(u)
    BY <2>2 DEF Window!Attempt, Window!Connects, Window!ConnectFails
  <2>3. CASE Window!StartDaemon(u)
    BY <2>3 DEF Window!StartDaemon
  <2>4. CASE Window!StopDaemon(u)
    BY <2>4 DEF Window!StopDaemon
  <2>5. CASE Window!SetAttribute(u)
    BY <2>5 DEF Window!SetAttribute, Window!serviceVars
  <2>6. QED
    BY <2>1, <2>2, <2>3, <2>4, <2>5 DEF Window!Work
<1>2. made' \in Nat /\ 0..made \subseteq 0..made'
  BY <1>1 DEF WindowTypes
<1>3. manager' \in [id : 0..made', devs : SUBSET Serials]
  <2>1. Window!NoManager \in [id : 0..made', devs : SUBSET Serials]
    BY <1>2 DEF Window!NoManager
  <2>2. CASE made' = made
    BY <1>1, <1>2, <2>1, <2>2 DEF WindowTypes, Window!TypeOK
  <2>3. CASE made' = made + 1
    BY <1>1, <1>2, <2>3 DEF WindowTypes, Window!TypeOK
  <2>4. QED
    BY <1>1, <2>2, <2>3
<1>4. /\ entries' \in [id : 0..made', devs : SUBSET Serials]
      /\ shown' \in [id : 0..made', serial : Serials \cup {Window!None}]
  BY <1>0, <1>2 DEF WindowTypes, Window!TypeOK, Window!pageVars
<1>5. PICK j \in Jobs, n \in 0..Retries : /\ job' = [job EXCEPT ![u] = j]
                                         /\ tries' = [tries EXCEPT ![u] = n]
  <2>1. /\ 0 \in 0..Retries /\ 1 \in 0..Retries /\ Retries \in 0..Retries
        /\ tries[u] > 1 => tries[u] - 1 \in 0..Retries
    BY GuiAssumption DEF Window!WindowAssumption, WindowTypes, Window!TypeOK
  <2>2. {"attempt", "ended"} \subseteq Jobs
    BY DEF Jobs
  <2>3. QED
    BY <2>1, <2>2 DEF Window!Work, Window!DropManager, Window!Attempt, Window!StartDaemon,
       Window!StopDaemon, Window!SetAttribute, Window!Ends, Window!GoesOn
<1>6. /\ job' \in [Window!Users -> Window!WindowActions \cup Window!PanelActions \cup {"connect", "attempt", "ended", Window!None}]
      /\ tries' \in [Window!Users -> 0..Retries]
  BY <1>5 DEF WindowTypes, Window!TypeOK, Jobs
<1>7. QED
  BY <1>0, <1>1, <1>2, <1>3, <1>4, <1>6 DEF WindowTypes, Window!TypeOK, Window!busyVars,
     Window!pageVars

LEMMA ReloadTypes ==
  ASSUME WindowTypes, NEW top \in Window!Pages, Window!ReloadOn(top)
  PROVE  /\ entries' = manager /\ bar' \in {"connected", "running", "stopped"}
         /\ page' \in Window!Pages /\ {last', current', checked'} \subseteq Serials \cup {Window!None}
         /\ shown' \in [id : 0..made, serial : Serials \cup {Window!None}]
<1>1. entries' = manager /\ bar' \in {"connected", "running", "stopped"}
  BY DEF Window!ReloadOn, Window!Status
<1>2. manager.devs \subseteq Serials /\ manager.id \in 0..made
  BY DEF WindowTypes, Window!TypeOK
<1>3. Window!NoDevice \in [id : 0..made, serial : Serials \cup {Window!None}]
  BY DEF Window!NoDevice, WindowTypes
<1>4. CASE top \in Window!StayOn
  BY <1>1, <1>2, <1>4 DEF Window!ReloadOn, WindowTypes, Window!TypeOK, Window!StillChecked
<1>5. CASE top \notin Window!StayOn
  BY <1>1, <1>2, <1>3, <1>5 DEF Window!ReloadOn, Window!ShowEmpty, Window!OpenDevice,
     Window!ShowHome, WindowTypes, Window!TypeOK,
     Window!StillChecked, Window!Pages
<1>6. QED
  BY <1>4, <1>5

LEMMA VisitTypes ==
  ASSUME WindowTypes,
         \/ \E s \in Serials : Window!ActivateCard(s)
         \/ Window!GoHome \/ Window!ShowMacros \/ Window!LeaveMacros
         \/ \E p \in Window!Pages : Window!ShowPage(p) \/ Window!LeavePage(p)
  PROVE  WindowTypes'
<1> SUFFICES /\ entries' \in [id : 0..made, devs : SUBSET Serials]
             /\ bar' \in {"connected", "running", "stopped"}
             /\ page' \in Window!Pages /\ {last', current', checked'} \subseteq Serials \cup {Window!None}
             /\ shown' \in [id : 0..made, serial : Serials \cup {Window!None}]
             /\ before' \in [{"sysmon", "effects"} -> Window!Pages \cup {Window!None}]
  <2>1. Window!Stays
    BY DEF Window!ActivateCard, Window!GoHome, Window!ShowMacros, Window!LeaveMacros,
       Window!ShowPage, Window!LeavePage
  <2>2. QED
    BY <2>1 DEF Window!Stays, Window!serviceVars, Window!jobVars, Window!busyVars, WindowTypes,
       Window!TypeOK
<1>1. entries.devs \subseteq Serials /\ entries.id \in 0..made
  BY DEF WindowTypes, Window!TypeOK
<1>2. Window!NoDevice \in [id : 0..made, serial : Serials \cup {Window!None}]
  BY DEF Window!NoDevice, WindowTypes
<1>3. CASE \E s \in Serials : Window!ActivateCard(s)
  BY <1>1, <1>3 DEF Window!ActivateCard, Window!OpenDevice, WindowTypes, Window!TypeOK,
     Window!Pages
<1>4. CASE Window!GoHome
  BY <1>1, <1>2, <1>4 DEF Window!GoHome, Window!ShowHome, Window!StillChecked, WindowTypes,
     Window!TypeOK, Window!Pages
<1>5. CASE Window!ShowMacros \/ \E p \in Window!Pages : Window!ShowPage(p)
  BY <1>5 DEF Window!ShowMacros, Window!ShowPage, WindowTypes, Window!TypeOK, Window!Pages,
     Window!StayOn
<1>6. CASE Window!LeaveMacros
  <2>1. "home" \in Window!Pages
    BY DEF Window!Pages
  <2>2. QED
    BY <1>6, <2>1, ReloadTypes DEF Window!LeaveMacros, WindowTypes, Window!TypeOK
<1>7. CASE \E p \in Window!Pages : Window!LeavePage(p)
  <2>1. PICK p \in {"sysmon", "effects"} : Window!LeavePage(p)
    BY <1>7 DEF Window!LeavePage
  <2>2. Window!PageBack(p) \in Window!Pages
    BY <2>1 DEF Window!PageBack, WindowTypes, Window!TypeOK, Window!Pages
  <2>3. QED
    BY <2>1, <2>2, ReloadTypes DEF Window!LeavePage, WindowTypes, Window!TypeOK
<1>8. QED
  BY <1>3, <1>4, <1>5, <1>6, <1>7

LEMMA TypesStep == WindowTypes /\ FlagsAgree' /\ Window!Next => WindowTypes'
<1> SUFFICES ASSUME WindowTypes, FlagsAgree', Window!Next PROVE WindowTypes'
  OBVIOUS
<1>0. /\ job' \in [Window!Users -> Window!WindowActions \cup Window!PanelActions \cup {"connect", "attempt", "ended", Window!None}]
      /\ {busy', panelBusy', panelRuns', externalBusy'} \subseteq BOOLEAN
      /\ offered' \in [Window!Users -> BOOLEAN]
  <2>1. {busy', panelBusy', panelRuns', externalBusy'} \subseteq BOOLEAN
    BY DEF FlagsAgree
  <2>2. offered' \in [Window!Users -> BOOLEAN]
    BY DEF FlagsAgree, Window!Offered
  <2>3. QED
    BY <2>1, <2>2 DEF FlagsAgree, Jobs
<1>1. CASE \E u \in Window!Users : Window!Work(u)
  BY <1>1, WorkTypes
<1>2. CASE \/ \E what \in Window!WindowActions : Window!WindowAction(what)
           \/ \E what \in Window!PanelActions : Window!PanelAction(what)
  <2>1. UNCHANGED <<Window!serviceVars, tries, Window!pageVars, before>>
    BY <1>2 DEF Window!WindowAction, Window!PanelAction, Window!Submit
  <2>2. QED
    BY <1>0, <2>1 DEF Window!serviceVars, Window!pageVars, WindowTypes, Window!TypeOK
<1>3. CASE Window!WindowDone \/ Window!PanelDone
  <2>1. UNCHANGED <<Window!serviceVars, tries, before>> /\ Window!ReloadOn(page) /\ page \in Window!Pages
    BY <1>3 DEF Window!WindowDone, Window!PanelDone, WindowTypes, Window!TypeOK
  <2>2. QED
    BY <1>0, <2>1, ReloadTypes DEF Window!serviceVars, WindowTypes, Window!TypeOK
<1>4. CASE \/ \E s \in Serials : Window!ActivateCard(s)
           \/ Window!GoHome \/ Window!ShowMacros \/ Window!LeaveMacros
           \/ \E p \in Window!Pages : Window!ShowPage(p) \/ Window!LeavePage(p)
  BY <1>4, VisitTypes
<1>5. CASE (\E s \in Serials : Window!Plug(s)) \/ Window!DaemonUp \/ Window!DaemonDies
  <2>1. /\ daemon' \in {"up", "starting", "down"} /\ plugged' \subseteq Serials
        /\ UNCHANGED <<manager, made, Window!jobVars, Window!busyVars, Window!pageVars, before>>
    BY <1>5 DEF Window!Plug, Window!DaemonUp, Window!DaemonDies, WindowTypes, Window!TypeOK
  <2>2. QED
    BY <2>1 DEF Window!jobVars, Window!busyVars, Window!pageVars, WindowTypes, Window!TypeOK
<1>6. QED
  BY <1>1, <1>2, <1>3, <1>4, <1>5 DEF Window!Next

-----------------------------------------------------------------------------
(* The home page and the page of a device are for devices that are listed, and *)
(* the list is the manager's unless a task is under way.                       *)
ListIsCurrent ==
    /\ Window!Quiet => entries = manager
    /\ page \in {"home", "device"} => entries.devs # {}

LEMMA ReloadLists ==
  ASSUME NEW top, Window!ReloadOn(top), UNCHANGED manager
  PROVE  ListIsCurrent'
<1>1. entries' = manager'
  BY DEF Window!ReloadOn
<1>2. page' \in {"home", "device"} => manager.devs # {}
  BY DEF Window!ReloadOn, Window!ShowEmpty, Window!StayOn
<1>3. QED
  BY <1>1, <1>2 DEF ListIsCurrent

LEMMA StepLists ==
  ASSUME ListIsCurrent, FlagsAgree, Window!Next
  PROVE  ListIsCurrent'
<1>1. CASE \E u \in Window!Users : Window!Work(u)
  <2>1. PICK u \in Window!Users : Window!Work(u)
    BY <1>1
  <2>2. PICK j \in Jobs : job' = [job EXCEPT ![u] = j]
    BY <2>1 DEF Window!Work, Window!DropManager, Window!Attempt, Window!StartDaemon,
       Window!StopDaemon, Window!SetAttribute, Window!Ends, Window!GoesOn, Jobs
  <2>3. ~Window!Quiet'
    BY <2>2, JobsAreNotNone DEF Window!Quiet, FlagsAgree
  <2>4. QED
    BY <2>1, <2>3 DEF ListIsCurrent, Window!Work, Window!pageVars
<1>2. CASE \/ \E what \in Window!WindowActions : Window!WindowAction(what)
           \/ \E what \in Window!PanelActions : Window!PanelAction(what)
  <2>1. PICK u \in Window!Users, j \in Jobs : job' = [job EXCEPT ![u] = j] /\ UNCHANGED Window!pageVars
    BY <1>2 DEF Window!WindowAction, Window!PanelAction, Window!Submit, Jobs, Window!Users
  <2>2. ~Window!Quiet'
    BY <2>1, JobsAreNotNone DEF Window!Quiet, FlagsAgree
  <2>3. QED
    BY <2>1, <2>2 DEF ListIsCurrent, Window!pageVars
<1>3. CASE Window!WindowDone \/ Window!PanelDone \/ Window!LeaveMacros \/ \E p \in Window!Pages : Window!LeavePage(p)
  BY <1>3, ReloadLists DEF Window!WindowDone, Window!PanelDone, Window!LeaveMacros,
     Window!LeavePage, Window!Stays, Window!serviceVars
<1>4. CASE \/ \E s \in Serials : Window!ActivateCard(s)
           \/ Window!GoHome \/ Window!ShowMacros \/ \E p \in Window!Pages : Window!ShowPage(p)
  <2>1. UNCHANGED <<job, manager, entries>>
    BY <1>4 DEF Window!ActivateCard, Window!GoHome, Window!ShowMacros, Window!ShowPage,
       Window!Stays, Window!jobVars, Window!serviceVars
  <2>2. page' \in {"home", "device"} => entries.devs # {}
    BY <1>4 DEF Window!ActivateCard, Window!GoHome, Window!ShowMacros, Window!ShowPage,
       ListIsCurrent
  <2>3. QED
    BY <2>1, <2>2 DEF ListIsCurrent, Window!Quiet
<1>5. CASE (\E s \in Serials : Window!Plug(s)) \/ Window!DaemonUp \/ Window!DaemonDies
  BY <1>5 DEF Window!Plug, Window!DaemonUp, Window!DaemonDies, Window!jobVars, Window!pageVars,
     ListIsCurrent, Window!Quiet
<1>6. QED
  BY <1>1, <1>2, <1>3, <1>4, <1>5 DEF Window!Next

WindowInv == FlagsAgree /\ WindowTypes /\ Window!SelectionIsShown /\ ListIsCurrent

LEMMA WindowStart == Window!Init => WindowInv
<1> SUFFICES ASSUME Window!Init PROVE WindowInv
  OBVIOUS
<1>1. Window!SelectionIsShown /\ ListIsCurrent
  BY DEF Window!Init, Window!SelectionIsShown, ListIsCurrent, Window!NoManager
<1>2. QED
  BY <1>1, InitAgrees, TypesStart DEF WindowInv

LEMMA WindowInvKept == WindowInv /\ Window!Next => WindowInv'
  BY StepAgrees, TypesStep, StepSelects, StepLists DEF WindowInv

LEMMA WindowAgrees ==
  WindowInv => Window!TypeOK /\ Window!OneServiceAction /\ Window!PagesShowTheManager /\ Window!SelectionIsShown
<1> SUFFICES ASSUME WindowInv
             PROVE  Window!TypeOK /\ Window!OneServiceAction /\ Window!PagesShowTheManager /\ Window!SelectionIsShown
  OBVIOUS
<1>1. page \in Window!Pages
  BY DEF WindowInv, WindowTypes, Window!TypeOK
<1>2. page \in {"home", "device"} <=> page \notin Window!StayOn /\ entries.devs # {}
  BY <1>1 DEF WindowInv, ListIsCurrent, Window!SelectionIsShown, Window!Pages, Window!StayOn
<1>3. Window!PagesShowTheManager
  BY <1>2 DEF WindowInv, ListIsCurrent, Window!SelectionIsShown, Window!PagesShowTheManager
<1>4. QED
  BY <1>3, AgreementExcludes DEF WindowInv, WindowTypes
-----------------------------------------------------------------------------
(* The lighting panel: brightness, effect and the running label.            *)

(* How far the task in flight is, and what it is for.                          *)
TaskAgrees ==
    /\ writing <=> stage # "idle"
    /\ writing => job.kind \in {"effect", "brightness"} /\ job.at \in Lights!Targets
    /\ ~writing => job = Lights!NoJob /\ ~queued
    /\ stage \in {"claim", "record"} => job.kind = "effect"
    /\ stage = "failed" /\ job.kind = "brightness" => job.at \in excused

(* Where the brightness the slider shows is: on the device, on its way there,  *)
(* or waiting for the write in flight.                                         *)
SliderIsHeard ==
    target # Lights!NoTarget /\ target \notin excused =>
        /\ ~writing /\ ~down => slider = brightness[target]
        /\ writing => job.at = target
        /\ writing /\ ~queued /\ ~down =>
              /\ job.kind = "brightness" /\ stage = "write" => job.value = slider
              /\ job.kind = "brightness" /\ stage = "done" => brightness[target] = slider
              /\ job.kind = "effect" => brightness[target] = slider

(* Only news under way make the label an old one.                              *)
LabelIsNew ==
    ~relay /\ ~(job.kind = "effect" /\ stage = "done") => label = Lights!RunningText(target, record, preset)

LightsInv == Lights!TypeOK /\ TaskAgrees /\ SliderIsHeard /\ LabelIsNew

LEMMA LightsStart == Lights!Init => LightsInv
<1> SUFFICES ASSUME Lights!Init PROVE LightsInv
  OBVIOUS
<1>0. 0 \in Lights!Levels /\ 0 \in 0..InputsOf["lights"] /\ 0 \in 0..MaxFailures
  BY GuiAssumption DEF Lights!PanelAssumption, Lights!Levels
<1>a. job \in [kind : {Lights!None, "effect", "brightness"}, at : Lights!Targets \cup {Lights!NoTarget},
               value : Lights!Levels, effect : ZoneEffects \cup {Lights!None}]
  BY <1>0 DEF Lights!Init, Lights!NoJob
<1>1. Lights!TypeOK
  BY <1>0, <1>a DEF Lights!Init, Lights!TypeOK
<1>2. TaskAgrees /\ SliderIsHeard /\ LabelIsNew
  BY DEF Lights!Init, TaskAgrees, SliderIsHeard, LabelIsNew, Lights!NoJob, Lights!RunningText
<1>3. QED
  BY <1>1, <1>2 DEF LightsInv

LEMMA RunningTextType ==
  ASSUME NEW t \in Lights!Targets \cup {Lights!NoTarget}, NEW rec \in [Lights!Targets -> ZoneEffects \cup {Lights!None}], NEW pre
  PROVE  Lights!RunningText(t, rec, pre) \in ZoneEffects \cup {Lights!PerKey, Lights!None}
  BY DEF Lights!RunningText

LEMMA InputType == Lights!TypeOK /\ Lights!Input => inputs' \in 0..InputsOf["lights"]
  BY GuiAssumption DEF Lights!TypeOK, Lights!Input, Lights!PanelAssumption

LEMMA FaultType == Lights!TypeOK /\ Lights!Fault => failures' \in 0..MaxFailures
  BY GuiAssumption DEF Lights!TypeOK, Lights!Fault, Lights!PanelAssumption

(* Another target, or the same one anew.                                       *)
LEMMA ShowTargetKeeps ==
  ASSUME LightsInv, NEW t \in Lights!Targets \cup {Lights!NoTarget}, Lights!ShowTarget(t), Lights!Input,
         UNCHANGED <<down, writing>>, Lights!Elsewhere,
         queued' = FALSE \/ UNCHANGED queued
  PROVE  LightsInv'
<1>1. Lights!TypeOK'
  <2>1. combo' \in ZoneEffects \cup {Lights!None}
    BY GuiAssumption DEF Lights!ShowTarget, LightsInv, Lights!TypeOK, Lights!PanelAssumption
  <2>2. slider' \in Lights!Levels /\ failures' \in 0..MaxFailures
    BY FaultType DEF Lights!ShowTarget, LightsInv, Lights!TypeOK
  <2>3. label' \in ZoneEffects \cup {Lights!PerKey, Lights!None}
    BY RunningTextType DEF Lights!ShowTarget, LightsInv, Lights!TypeOK
  <2>4. excused' \subseteq Lights!Targets
    BY DEF Lights!ShowTarget, LightsInv, Lights!TypeOK
  <2>5. inputs' \in 0..InputsOf["lights"]
    BY InputType DEF LightsInv
  <2>6. target' = t
    BY DEF Lights!ShowTarget
  <2>7. queued' \in BOOLEAN
    BY DEF LightsInv, Lights!TypeOK
  <2>8. QED
    BY <2>1, <2>2, <2>3, <2>4, <2>5, <2>6, <2>7 DEF LightsInv, Lights!TypeOK, Lights!Elsewhere
<1>2. TaskAgrees'
  <2>1. stage = "failed" /\ job.kind = "brightness" => job.at \in excused'
    BY DEF Lights!ShowTarget, LightsInv, TaskAgrees
  <2>2. QED
    BY <2>1 DEF LightsInv, TaskAgrees, Lights!Elsewhere
<1>3. SliderIsHeard'
  <2>1. CASE writing
    <3>1. target' # Lights!NoTarget => target' \in excused'
      BY <2>1 DEF Lights!ShowTarget
    <3>2. QED
      BY <3>1 DEF SliderIsHeard
  <2>2. CASE ~writing
    <3>1. target' # Lights!NoTarget /\ target' \notin excused' => slider' = brightness[t]
      BY <2>2 DEF Lights!ShowTarget, Lights!Fault, LightsInv, Lights!TypeOK
    <3>2. QED
      BY <2>2, <3>1 DEF SliderIsHeard, Lights!Elsewhere, Lights!ShowTarget
  <2>3. QED
    BY <2>1, <2>2
<1>4. LabelIsNew'
  BY DEF LabelIsNew, Lights!ShowTarget, Lights!Elsewhere
<1>5. QED
  BY <1>1, <1>2, <1>3, <1>4 DEF LightsInv

LEMMA SetDeviceKeeps ==
  ASSUME LightsInv, NEW d \in Lamps \cup {Lights!None}, Lights!SetDevice(d)
  PROVE  LightsInv'
<1>1. PICK t \in Lights!Targets \cup {Lights!NoTarget} : Lights!ShowTarget(t)
  BY DEF Lights!SetDevice, Lights!Targets
<1>2. QED
  BY <1>1, ShowTargetKeeps DEF Lights!SetDevice

LEMMA ChooseZoneKeeps ==
  ASSUME LightsInv, NEW z \in Zones, Lights!ChooseZone(z)
  PROVE  LightsInv'
<1>1. <<target[1], z>> \in Lights!Targets
  BY DEF Lights!ChooseZone, LightsInv, Lights!TypeOK, Lights!Targets
<1>2. QED
  BY <1>1, ShowTargetKeeps DEF Lights!ChooseZone

(* The slider moved or was let go of, and the brightness goes its way.         *)
LEMMA ApplyBrightnessKeeps ==
  ASSUME LightsInv, NEW v \in Lights!Levels, Lights!ApplyBrightness(v), slider' = v, down' = FALSE,
         UNCHANGED <<target, combo, label, brightness, record, preset, relay,
                     excused, failures>>,
         Lights!Input \/ UNCHANGED inputs
  PROVE  LightsInv'
<1>1. CASE target = Lights!NoTarget
  <2>1. UNCHANGED <<writing, queued, job, stage>>
    BY <1>1 DEF Lights!ApplyBrightness
  <2>2. Lights!TypeOK'
    BY ZenonT(60), <2>1, InputType DEF LightsInv, Lights!TypeOK
  <2>3. QED
    BY <1>1, <2>1, <2>2 DEF LightsInv, TaskAgrees, SliderIsHeard, LabelIsNew
<1>2. CASE target # Lights!NoTarget /\ writing
  <2>1. queued' = TRUE /\ UNCHANGED <<writing, job, stage>>
    BY <1>2 DEF Lights!ApplyBrightness
  <2>2. Lights!TypeOK'
    BY ZenonT(60), <2>1, InputType DEF LightsInv, Lights!TypeOK
  <2>3. QED
    BY <1>2, <2>1, <2>2 DEF LightsInv, TaskAgrees, SliderIsHeard, LabelIsNew
<1>3. CASE target # Lights!NoTarget /\ ~writing
  <2>1. /\ job' = [kind |-> "brightness", at |-> target, value |-> v, effect |-> Lights!None]
        /\ writing' = TRUE /\ stage' = "write" /\ UNCHANGED queued
    BY <1>3 DEF Lights!ApplyBrightness, Lights!Submit
  <2>2. target \in Lights!Targets
    BY <1>3 DEF LightsInv, Lights!TypeOK
  <2>3. job' \in [kind : {Lights!None, "effect", "brightness"}, at : Lights!Targets \cup {Lights!NoTarget},
                  value : Lights!Levels, effect : ZoneEffects \cup {Lights!None}]
    BY <2>1, <2>2
  <2>4. Lights!TypeOK'
    BY <2>1, <2>3, InputType DEF LightsInv, Lights!TypeOK
  <2>5. /\ job'.kind = "brightness" /\ job'.at = target /\ job'.value = v
    BY <2>1
  <2>6. TaskAgrees' /\ SliderIsHeard'
    BY <1>3, <2>1, <2>2, <2>5 DEF LightsInv, TaskAgrees, SliderIsHeard
  <2>7. LabelIsNew'
    BY <1>3, <2>1, <2>5 DEF LightsInv, TaskAgrees, LabelIsNew, Lights!NoJob, Lights!None
  <2>8. QED
    BY <2>4, <2>6, <2>7 DEF LightsInv
<1>4. QED
  BY <1>1, <1>2, <1>3

LEMMA ApplyKeeps == LightsInv /\ Lights!Apply => LightsInv'
<1> SUFFICES ASSUME LightsInv, Lights!Apply PROVE LightsInv'
  OBVIOUS
<1>1. /\ job' = [kind |-> "effect", at |-> target, value |-> 0, effect |-> combo]
      /\ writing' = TRUE /\ stage' = "claim" /\ ~writing
      /\ UNCHANGED <<target, combo, slider, down, queued, label, excused, failures,
                     brightness, record, preset, relay>>
  BY DEF Lights!Apply, Lights!Submit
<1>2. target \in Lights!Targets /\ 0 \in Lights!Levels /\ combo \in ZoneEffects \cup {Lights!None}
  BY GuiAssumption DEF Lights!Apply, LightsInv, Lights!TypeOK, Lights!Levels,
     Lights!PanelAssumption
<1>3. job' \in [kind : {Lights!None, "effect", "brightness"}, at : Lights!Targets \cup {Lights!NoTarget},
                value : Lights!Levels, effect : ZoneEffects \cup {Lights!None}]
  BY <1>1, <1>2
<1>4. Lights!TypeOK'
  BY <1>1, <1>3, InputType DEF LightsInv, Lights!TypeOK, Lights!Apply
<1>5. job'.kind = "effect" /\ job'.at = target
  BY <1>1
<1>6. TaskAgrees' /\ SliderIsHeard'
  BY <1>1, <1>2, <1>5 DEF LightsInv, TaskAgrees, SliderIsHeard
<1>7. LabelIsNew'
  BY <1>1, <1>5 DEF LightsInv, TaskAgrees, LabelIsNew, Lights!NoJob, Lights!None
<1>8. QED
  BY <1>4, <1>6, <1>7 DEF LightsInv

LEMMA ClaimKeeps == LightsInv /\ Lights!Claim => LightsInv'
<1> SUFFICES ASSUME LightsInv, Lights!Claim PROVE LightsInv'
  OBVIOUS
<1>1. Lights!TypeOK'
  BY DEF LightsInv, Lights!TypeOK, Lights!Claim, Lights!panelVars
<1>2. TaskAgrees' /\ SliderIsHeard' /\ LabelIsNew'
  BY DEF LightsInv, TaskAgrees, SliderIsHeard, LabelIsNew, Lights!Claim, Lights!panelVars
<1>3. QED
  BY <1>1, <1>2 DEF LightsInv

LEMMA WriteKeeps == LightsInv /\ Lights!Write => LightsInv'
<1> SUFFICES ASSUME LightsInv, Lights!Write PROVE LightsInv'
  OBVIOUS
<1>0. writing /\ job.at \in Lights!Targets /\ job.value \in Lights!Levels
  BY DEF LightsInv, TaskAgrees, Lights!TypeOK, Lights!Write
<1>1. Lights!TypeOK'
  BY <1>0, FaultType DEF LightsInv, Lights!TypeOK, Lights!Write, Lights!panelVars
<1>2. TaskAgrees'
  BY <1>0 DEF LightsInv, TaskAgrees, Lights!Write, Lights!panelVars
<1>3. SliderIsHeard'
  <2>1. CASE brightness' = [brightness EXCEPT ![job.at] = job.value]
             /\ job.kind = "brightness" /\ stage' = "done" /\ UNCHANGED excused
    BY <1>0, <2>1 DEF LightsInv, Lights!TypeOK, SliderIsHeard, Lights!Write, Lights!panelVars
  <2>2. CASE UNCHANGED brightness /\ stage' # "write" /\ excused \subseteq excused'
             /\ (job.kind = "brightness" => job.at \in excused')
    BY <1>0, <2>2 DEF LightsInv, SliderIsHeard, Lights!Write, Lights!panelVars
  <2>3. QED
    BY <1>0, <2>1, <2>2 DEF Lights!Write, LightsInv, TaskAgrees
<1>4. LabelIsNew'
  BY DEF LightsInv, LabelIsNew, Lights!Write, Lights!panelVars
<1>5. QED
  BY <1>1, <1>2, <1>3, <1>4 DEF LightsInv

LEMMA RecordKeeps == LightsInv /\ Lights!Record => LightsInv'
<1> SUFFICES ASSUME LightsInv, Lights!Record PROVE LightsInv'
  OBVIOUS
<1>1. Lights!TypeOK'
  BY FaultType DEF LightsInv, Lights!TypeOK, Lights!Record, Lights!panelVars
<1>2. TaskAgrees' /\ SliderIsHeard' /\ LabelIsNew'
  BY DEF LightsInv, TaskAgrees, SliderIsHeard, LabelIsNew, Lights!Record, Lights!panelVars
<1>3. QED
  BY <1>1, <1>2 DEF LightsInv

LEMMA WriteDoneKeeps == LightsInv /\ Lights!WriteDone => LightsInv'
<1> SUFFICES ASSUME LightsInv, Lights!WriteDone PROVE LightsInv'
  OBVIOUS
<1>0. writing /\ UNCHANGED <<target, combo, slider, down, brightness, record, preset, relay,
                             excused, inputs, failures>> /\ queued' = FALSE
  BY DEF LightsInv, TaskAgrees, Lights!WriteDone, Lights!FinishWrite
<1>1. label' \in ZoneEffects \cup {Lights!PerKey, Lights!None}
  BY RunningTextType DEF LightsInv, Lights!TypeOK, Lights!WriteDone
<1>2. ~relay => label' = Lights!RunningText(target, record, preset)
  BY DEF LightsInv, LabelIsNew, Lights!WriteDone
<1>3. CASE queued /\ target # Lights!NoTarget
  <2>1. /\ job' = [kind |-> "brightness", at |-> target, value |-> slider, effect |-> Lights!None]
    BY <1>3 DEF Lights!WriteDone, Lights!FinishWrite
  <2>2. job'.kind = "brightness" /\ job'.at = target /\ job'.value = slider
    BY <2>1
  <2>3. writing' = TRUE /\ stage' = "write"
    BY <2>2 DEF Lights!WriteDone, Lights!FinishWrite, Lights!NoJob, Lights!None
  <2>4. target \in Lights!Targets
    BY <1>3 DEF LightsInv, Lights!TypeOK
  <2>5. job' \in [kind : {Lights!None, "effect", "brightness"}, at : Lights!Targets \cup {Lights!NoTarget},
                  value : Lights!Levels, effect : ZoneEffects \cup {Lights!None}]
    BY <2>1, <2>4 DEF LightsInv, Lights!TypeOK
  <2>6. Lights!TypeOK'
    BY <1>0, <1>1, <2>3, <2>5 DEF LightsInv, Lights!TypeOK
  <2>7. TaskAgrees' /\ SliderIsHeard'
    BY <1>0, <2>2, <2>3, <2>4 DEF LightsInv, TaskAgrees, SliderIsHeard
  <2>8. LabelIsNew'
    BY <1>0, <1>2, <2>2 DEF LabelIsNew
  <2>9. QED
    BY <2>6, <2>7, <2>8 DEF LightsInv
<1>4. CASE ~(queued /\ target # Lights!NoTarget)
  <2>1. job' = Lights!NoJob /\ writing' = FALSE /\ stage' = "idle"
    BY <1>4 DEF Lights!WriteDone, Lights!FinishWrite
  <2>2. job' \in [kind : {Lights!None, "effect", "brightness"}, at : Lights!Targets \cup {Lights!NoTarget},
                  value : Lights!Levels, effect : ZoneEffects \cup {Lights!None}]
    BY GuiAssumption, <2>1 DEF Lights!NoJob, Lights!Levels, Lights!PanelAssumption
  <2>3. Lights!TypeOK'
    BY <1>0, <1>1, <2>1, <2>2 DEF LightsInv, Lights!TypeOK
  <2>4. TaskAgrees'
    BY <1>0, <2>1 DEF TaskAgrees
  <2>5. SliderIsHeard'
    BY <1>0, <1>4, <2>1 DEF LightsInv, TaskAgrees, SliderIsHeard, Lights!WriteDone
  <2>6. LabelIsNew'
    BY <1>0, <1>2, <2>1 DEF LabelIsNew
  <2>7. QED
    BY <2>3, <2>4, <2>5, <2>6 DEF LightsInv
<1>5. QED
  BY <1>3, <1>4

LEMMA LightsInvKept ==
  ASSUME LightsInv, Lights!Next
  PROVE  LightsInv'
<1>1. CASE \E d \in Lamps \cup {Lights!None} : Lights!SetDevice(d)
  BY <1>1, SetDeviceKeeps
<1>2. CASE \E z \in Zones : Lights!ChooseZone(z)
  BY <1>2, ChooseZoneKeeps
<1>3. CASE \E e \in ZoneEffects : Lights!ChooseEffect(e)
  <2>1. Lights!TypeOK'
    BY <1>3, InputType DEF Lights!ChooseEffect, Lights!Elsewhere, LightsInv, Lights!TypeOK
  <2>2. QED
    BY <1>3, <2>1 DEF Lights!ChooseEffect, Lights!Elsewhere, LightsInv, TaskAgrees,
       SliderIsHeard, LabelIsNew
<1>4. CASE \E v \in Lights!Levels : Lights!StepSlider(v)
  <2>1. PICK v \in Lights!Levels : Lights!StepSlider(v)
    BY <1>4
  <2>2. down' = FALSE
    BY <2>1 DEF Lights!StepSlider, LightsInv, Lights!TypeOK
  <2>3. QED
    BY <2>1, <2>2, ApplyBrightnessKeeps DEF Lights!StepSlider
<1>5. CASE \E v \in Lights!Levels : Lights!DragSlider(v)
  <2>1. Lights!TypeOK'
    BY <1>5, InputType DEF Lights!DragSlider, Lights!Elsewhere, LightsInv, Lights!TypeOK
  <2>2. QED
    BY <1>5, <2>1 DEF Lights!DragSlider, Lights!Elsewhere, LightsInv, TaskAgrees, SliderIsHeard,
       LabelIsNew
<1>6. CASE Lights!ReleaseSlider
  <2>1. slider \in Lights!Levels
    BY DEF LightsInv, Lights!TypeOK
  <2>2. QED
    BY <1>6, <2>1, ApplyBrightnessKeeps DEF Lights!ReleaseSlider
<1>7. CASE \E d \in Lamps : Lights!PresetChanges(d)
  <2>1. Lights!TypeOK'
    BY <1>7, InputType DEF Lights!PresetChanges, Lights!panelVars, LightsInv, Lights!TypeOK
  <2>2. QED
    BY <1>7, <2>1 DEF Lights!PresetChanges, Lights!panelVars, LightsInv, TaskAgrees,
       SliderIsHeard, LabelIsNew
<1>8. CASE Lights!RelayArrives
  <2>1. Lights!TypeOK'
    BY <1>8, RunningTextType DEF Lights!RelayArrives, LightsInv, Lights!TypeOK
  <2>2. QED
    BY <1>8, <2>1 DEF Lights!RelayArrives, LightsInv, TaskAgrees, SliderIsHeard, LabelIsNew
<1>9. QED
  BY <1>1, <1>2, <1>3, <1>4, <1>5, <1>6, <1>7, <1>8, ApplyKeeps, ClaimKeeps, WriteKeeps,
     RecordKeeps, WriteDoneKeeps DEF Lights!Next

LEMMA LightsAgree == LightsInv => Lights!TypeOK /\ Lights!LastBrightnessArrives /\ Lights!LabelIsTrue
<1> SUFFICES ASSUME LightsInv PROVE Lights!TypeOK /\ Lights!LastBrightnessArrives /\ Lights!LabelIsTrue
  OBVIOUS
<1>1. ~writing => job.kind # "effect"
  BY DEF LightsInv, TaskAgrees, Lights!NoJob, Lights!None
<1>2. QED
  BY <1>1 DEF LightsInv, SliderIsHeard, LabelIsNew, Lights!LastBrightnessArrives,
     Lights!LabelIsTrue
-----------------------------------------------------------------------------
(* The panel of a mouse: its DPI and its polling rate.                      *)

(* A set of numbers that is not empty has a least one.                         *)
LEMMA NatHasMin ==
  ASSUME NEW T, T \subseteq Nat, T # {}
  PROVE  \E n \in T : \A m \in T : n <= m
<1> DEFINE R == OpToRel(<, Nat)
<1>1. IsWellFoundedOn(R, Nat)
  BY NatLessThanWellFounded
<1>2. \A m, n \in Nat : m < n => <<m, n>> \in R
  BY DEF OpToRel
<1> HIDE DEF R
<1>3. PICK n \in T : \A m \in T : <<m, n>> \notin R
  BY <1>1, WFMin
<1>4. ASSUME NEW m \in T PROVE n <= m
  <2>1. m \in Nat /\ n \in Nat /\ <<m, n>> \notin R
    BY <1>3
  <2>2. ~(m < n)
    BY <1>2, <2>1
  <2>3. QED
    BY <2>1, <2>2
<1>5. QED
  BY <1>4

(* What the constants say of one mouse.                                        *)
LEMMA SensorBounds ==
  ASSUME NEW d \in Mice
  PROVE  /\ MinDpi \in Nat /\ MaxDpi[d] \in Nat /\ MinDpi <= MaxDpi[d]
         /\ Choices[d] \subseteq MinDpi..MaxDpi[d]
         /\ MinDpi..MaxDpi[d] \subseteq Mouse!Dpi
<1>1. MinDpi..MaxDpi[d] \subseteq Mouse!Dpi
  BY DEF Mouse!Dpi
<1>2. QED
  BY <1>1, GuiAssumption DEF Mouse!MouseAssumption

LEMMA DpiIsNat == Mouse!Dpi \subseteq Nat /\ Mouse!Dpi \cup {0} \subseteq Nat
  BY GuiAssumption DEF Mouse!Dpi, Mouse!MouseAssumption

LEMMA ClampBounds ==
  ASSUME NEW v \in Nat, NEW d \in Mice
  PROVE  Mouse!Clamp(v, d) \in MinDpi..MaxDpi[d]
  BY SensorBounds DEF Mouse!Clamp

(* A value is fitted to one of a fixed list: there is always a nearest one,    *)
(* and a smaller one of two.                                                   *)
LEMMA FitChooses ==
  ASSUME NEW v \in Nat, NEW d \in Mice, Choices[d] # {}
  PROVE  Mouse!Fit(v, d) \in Choices[d]
<1> DEFINE c == Mouse!Clamp(v, d)
           C == Choices[d]
           D == {Mouse!Apart(n, c) : n \in C}
<1>1. c \in Nat /\ C \subseteq Nat
  BY ClampBounds, SensorBounds
<1>2. \A n \in C : Mouse!Apart(n, c) \in Nat
  BY <1>1 DEF Mouse!Apart
<1>3. PICK m \in D : \A k \in D : m <= k
  <2>1. D \subseteq Nat /\ D # {}
    BY <1>2
  <2> HIDE DEF D
  <2>2. QED
    BY <2>1, NatHasMin
<1> DEFINE E == {n \in C : Mouse!Apart(n, c) = m}
<1>4. PICK n \in E : \A o \in E : n <= o
  <2>1. E \subseteq Nat /\ E # {}
    BY <1>1
  <2> HIDE DEF E
  <2>2. QED
    BY <2>1, NatHasMin
<1>5. ASSUME NEW o \in C
      PROVE  Mouse!Apart(n, c) < Mouse!Apart(o, c) \/ (Mouse!Apart(n, c) = Mouse!Apart(o, c) /\ n <= o)
  <2>1. Mouse!Apart(n, c) = m /\ m <= Mouse!Apart(o, c) /\ m \in Nat /\ Mouse!Apart(o, c) \in Nat
    BY <1>2, <1>3, <1>4
  <2>2. CASE Mouse!Apart(o, c) = m
    BY <1>4, <2>1, <2>2
  <2>3. CASE Mouse!Apart(o, c) # m
    BY <2>1, <2>3
  <2>4. QED
    BY <2>2, <2>3
<1>6. n \in C
  BY <1>4
<1> HIDE DEF C, c, D, E
<1>7. \E k \in C : \A o \in C : Mouse!Apart(k, c) < Mouse!Apart(o, c) \/ (Mouse!Apart(k, c) = Mouse!Apart(o, c) /\ k <= o)
  BY <1>5, <1>6
<1>8. (CHOOSE k \in C : \A o \in C : Mouse!Apart(k, c) < Mouse!Apart(o, c) \/ (Mouse!Apart(k, c) = Mouse!Apart(o, c) /\ k <= o)) \in C
  BY <1>7
<1>9. QED
  BY <1>8 DEF Mouse!Fit, C, c

LEMMA FitBounds ==
  ASSUME NEW v \in Nat, NEW d \in Mice
  PROVE  Mouse!Fit(v, d) \in MinDpi..MaxDpi[d]
<1>1. CASE Choices[d] = {}
  BY <1>1, ClampBounds DEF Mouse!Fit
<1>2. CASE Choices[d] # {}
  BY <1>2, FitChooses, SensorBounds
<1>3. QED
  BY <1>1, <1>2

(* The rate that is shown or written is one of the device it is for.           *)
RateIsLegal ==
    /\ mouse # Mouse!None /\ Rates[mouse] # {} => rate \in Rates[mouse]
    /\ job.stage \in {"dpi", "rate"} =>
           job.at \in Mice /\ job.x \in Mouse!Dpi /\ job.y \in Mouse!Dpi /\ (Rates[job.at] # {} => job.rate \in Rates[job.at])

MouseInv == Mouse!TypeOK /\ Mouse!MouseIsLegal /\ RateIsLegal

LEMMA InputsCount ==
  /\ Mouse!TypeOK /\ Mouse!Input => inputs' \in 0..InputsOf["mouse"]
  /\ Mouse!TypeOK /\ Mouse!Fault => failures' \in 0..MaxFailures
  BY GuiAssumption DEF Mouse!TypeOK, Mouse!Input, Mouse!Fault, Mouse!MouseAssumption

LEMMA LeastValues == MinDpi \in Mouse!Dpi /\ 0 \in Mouse!AnyRate
<1> DEFINE D == UNION {MinDpi..MaxDpi[d] : d \in Mice}
           R == UNION {Rates[d] : d \in Mice}
<1>1. Mouse!Dpi = {MinDpi} \cup D /\ Mouse!AnyRate = {0} \cup R
  BY DEF Mouse!Dpi, Mouse!AnyRate
<1> HIDE DEF D, R
<1>2. QED
  BY <1>1

LEMMA NoJobType ==
  Mouse!NoJob \in [at : Mice \cup {Mouse!None}, x : Mouse!Dpi \cup {0}, y : Mouse!Dpi \cup {0}, rate : Mouse!AnyRate,
             stage : {"idle", "dpi", "rate", "done"}]
<1>1. 0 \in Mouse!AnyRate
  BY LeastValues
<1>2. QED
  BY <1>1 DEF Mouse!NoJob

LEMMA MouseStart == Mouse!Init => MouseInv
<1> SUFFICES ASSUME Mouse!Init PROVE MouseInv
  OBVIOUS
<1>1. Mouse!TypeOK
  <2>1. MinDpi \in Mouse!Dpi /\ 0 \in Mouse!AnyRate
    BY LeastValues
  <2>2. 0 \in 0..InputsOf["mouse"] /\ 0 \in 0..MaxFailures
    BY GuiAssumption DEF Mouse!MouseAssumption
  <2>3. QED
    BY <2>1, <2>2, NoJobType DEF Mouse!Init, Mouse!TypeOK
<1>2. Mouse!MouseIsLegal
  <2>1. ASSUME NEW d \in Mice
        PROVE  /\ dpi[d].x <= MaxDpi[d] /\ dpi[d].y <= MaxDpi[d]
               /\ Choices[d] # {} => dpi[d].x \in Choices[d] /\ dpi[d].y = 0
    <3>1. dpi[d].x \in Nat
      BY DpiIsNat DEF Mouse!Init
    <3>2. dpi[d].x = Mouse!Fit(dpi[d].x, d) /\ dpi[d].y <= MaxDpi[d]
      BY DEF Mouse!Init
    <3>3. Mouse!Fit(dpi[d].x, d) <= MaxDpi[d]
      BY <3>1, FitBounds, SensorBounds
    <3>4. Choices[d] # {} => dpi[d].x \in Choices[d] /\ dpi[d].y = 0
      BY <3>1, <3>2, FitChooses DEF Mouse!Init
    <3>5. QED
      BY <3>2, <3>3, <3>4
  <2>2. \A d \in Mice : Rates[d] # {} => pollRate[d] \in Rates[d]
    BY DEF Mouse!Init
  <2>3. QED
    BY <2>1, <2>2 DEF Mouse!Init, Mouse!MouseIsLegal
<1>3. RateIsLegal
  BY DEF Mouse!Init, RateIsLegal, Mouse!NoJob
<1>4. QED
  BY <1>1, <1>2, <1>3 DEF MouseInv

(* The values of the panel change, the devices and the task do not.            *)
LEMMA PanelKeeps ==
  ASSUME MouseInv, UNCHANGED <<writing, job, dpi, pollRate>>,
         mouse' \in Mice \cup {Mouse!None},
         Mouse!Input, Mouse!Fault \/ UNCHANGED failures,
         {x', y'} \subseteq Mouse!Dpi, slider' = x', rate' \in Mouse!AnyRate, lock' \in BOOLEAN,
         lock' => y' = x',
         mouse' # Mouse!None => /\ x' <= MaxDpi[mouse'] /\ y' <= MaxDpi[mouse']
                                /\ Rates[mouse'] # {} => rate' \in Rates[mouse']
  PROVE  MouseInv'
<1>1. Mouse!TypeOK'
  BY InputsCount DEF MouseInv, Mouse!TypeOK
<1>2. Mouse!MouseIsLegal'
  BY DEF MouseInv, Mouse!MouseIsLegal
<1>3. RateIsLegal'
  BY DEF MouseInv, RateIsLegal
<1>4. QED
  BY <1>1, <1>2, <1>3 DEF MouseInv

LEMMA SetDeviceKeepsMouse ==
  ASSUME MouseInv, NEW d \in Mice \cup {Mouse!None}, Mouse!SetDevice(d)
  PROVE  MouseInv'
<1>1. CASE mouse' = Mouse!None /\ UNCHANGED <<x, slider, y, lock, rate>>
  BY <1>1, PanelKeeps DEF Mouse!SetDevice, MouseInv, Mouse!TypeOK, Mouse!MouseIsLegal
<1>2. CASE d # Mouse!None /\ Mouse!Load(d) /\ UNCHANGED failures
  <2>0. d \in Mice /\ dpi[d].x \in Mouse!Dpi /\ dpi[d].y \in Mouse!Dpi \cup {0}
    BY <1>2 DEF MouseInv, Mouse!TypeOK
  <2>1. d \in Mice /\ dpi[d].x \in Nat /\ dpi[d].y \in Nat
    BY <2>0, DpiIsNat
  <2>2. /\ Mouse!Clamp(dpi[d].x, d) \in Mouse!Dpi /\ Mouse!Clamp(dpi[d].x, d) <= MaxDpi[d]
        /\ Mouse!Clamp(dpi[d].y, d) \in Mouse!Dpi /\ Mouse!Clamp(dpi[d].y, d) <= MaxDpi[d]
    BY <2>1, ClampBounds, SensorBounds
  <2>3. x' = Mouse!Clamp(dpi[d].x, d) /\ slider' = x'
    BY <1>2 DEF Mouse!Load
  <2>4. lock' \in BOOLEAN /\ y' = IF lock' THEN x' ELSE Mouse!Clamp(dpi[d].y, d)
    BY <1>2, <2>3 DEF Mouse!Load
  <2>5. rate' = pollRate[d] /\ mouse' = d
    BY <1>2 DEF Mouse!Load
  <2>6. rate' \in Mouse!AnyRate /\ (Rates[d] # {} => rate' \in Rates[d])
    BY <2>1, <2>5 DEF MouseInv, Mouse!TypeOK, Mouse!MouseIsLegal
  <2>7. QED
    BY <1>2, <2>1, <2>2, <2>3, <2>4, <2>5, <2>6, PanelKeeps DEF Mouse!SetDevice
<1>3. QED
  BY <1>1, <1>2 DEF Mouse!SetDevice

(* A change the user makes on the panel.                                       *)
LEMMA EditKeepsMouse ==
  ASSUME MouseInv,
         \/ \E v \in Mouse!Dpi : Mouse!SetX(v) \/ Mouse!SetY(v)
         \/ \E d \in Mice : \E r \in Rates[d] : Mouse!SetRate(r)
         \/ Mouse!ToggleLock
  PROVE  MouseInv'
<1> USE DEF MouseInv, Mouse!TypeOK, Mouse!MouseIsLegal, RateIsLegal
<1>1. CASE \E v \in Mouse!Dpi : Mouse!SetX(v)
  BY <1>1, PanelKeeps DEF Mouse!SetX
<1>2. CASE \E v \in Mouse!Dpi : Mouse!SetY(v)
  BY <1>2, PanelKeeps DEF Mouse!SetY
<1>3. CASE \E d \in Mice : \E r \in Rates[d] : Mouse!SetRate(r)
  <2>0. PICK d \in Mice : \E r \in Rates[d] : Mouse!SetRate(r)
    BY <1>3
  <2>1. PICK r \in Rates[d] : Mouse!SetRate(r)
    BY <2>0
  <2>2. r \in Mouse!AnyRate
    BY DEF Mouse!AnyRate
  <2>3. QED
    BY <2>1, <2>2, PanelKeeps DEF Mouse!SetRate
<1>4. CASE Mouse!ToggleLock
  BY <1>4, PanelKeeps DEF Mouse!ToggleLock
<1>5. QED
  BY <1>1, <1>2, <1>3, <1>4

(* The task: what it takes from the panel, and what the device makes of it.    *)
LEMMA ApplyKeepsMouse == MouseInv /\ Mouse!Apply => MouseInv'
<1> SUFFICES ASSUME MouseInv, Mouse!Apply PROVE MouseInv'
  OBVIOUS
<1> DEFINE w == IF lock THEN x ELSE y
<1>1. /\ mouse \in Mice /\ x \in Mouse!Dpi /\ w \in Mouse!Dpi /\ rate \in Mouse!AnyRate
      /\ Rates[mouse] # {} => rate \in Rates[mouse]
  BY DEF Mouse!Apply, MouseInv, Mouse!TypeOK, RateIsLegal
<1>2. job' = [at |-> mouse, x |-> x, y |-> w, rate |-> rate, stage |-> "dpi"]
  BY DEF Mouse!Apply
<1> HIDE DEF w
<1>3. /\ job'.at = mouse /\ job'.x = x /\ job'.y = w /\ job'.rate = rate
      /\ job' \in [at : Mice \cup {Mouse!None}, x : Mouse!Dpi \cup {0}, y : Mouse!Dpi \cup {0}, rate : Mouse!AnyRate,
                   stage : {"idle", "dpi", "rate", "done"}]
  BY <1>1, <1>2
<1>4. Mouse!TypeOK'
  BY <1>3, InputsCount DEF Mouse!Apply, Mouse!panel, MouseInv, Mouse!TypeOK
<1>5. Mouse!MouseIsLegal'
  BY DEF Mouse!Apply, Mouse!panel, MouseInv, Mouse!MouseIsLegal
<1>6. RateIsLegal'
  BY <1>1, <1>3 DEF Mouse!Apply, Mouse!panel, MouseInv, RateIsLegal
<1>7. QED
  BY <1>4, <1>5, <1>6 DEF MouseInv

LEMMA WriteDpiKeepsMouse == MouseInv /\ Mouse!WriteDpi => MouseInv'
<1> SUFFICES ASSUME MouseInv, Mouse!WriteDpi PROVE MouseInv'
  OBVIOUS
<1>1. /\ job.at \in Mice /\ job.x \in Nat /\ job.y \in Nat
      /\ Rates[job.at] # {} => job.rate \in Rates[job.at]
  BY DpiIsNat DEF Mouse!WriteDpi, MouseInv, RateIsLegal
<1> DEFINE d == job.at
           new == [x |-> Mouse!Fit(job.x, d), y |-> IF Choices[d] # {} THEN 0 ELSE Mouse!Fit(job.y, d)]
<1>2. /\ new.x \in Mouse!Dpi /\ new.y \in Mouse!Dpi \cup {0}
      /\ new.x <= MaxDpi[d] /\ new.y <= MaxDpi[d]
      /\ Choices[d] # {} => new.x \in Choices[d] /\ new.y = 0
  BY <1>1, FitBounds, FitChooses, SensorBounds
<1>3. UNCHANGED <<Mouse!panel, writing, pollRate, inputs>>
      /\ (dpi' = [dpi EXCEPT ![d] = new] \/ UNCHANGED dpi)
      /\ (UNCHANGED failures \/ Mouse!Fault)
  BY DEF Mouse!WriteDpi
<1>4. PICK s \in {"rate", "done"} : job' = [job EXCEPT !.stage = s]
  BY DEF Mouse!WriteDpi
<1>5. new \in [x : Mouse!Dpi, y : Mouse!Dpi \cup {0}]
  BY <1>2
<1> HIDE DEF new
<1>6. Mouse!TypeOK'
  <2>1. dpi' \in [Mice -> [x : Mouse!Dpi, y : Mouse!Dpi \cup {0}]]
    BY <1>3, <1>5 DEF MouseInv, Mouse!TypeOK
  <2>2. job' \in [at : Mice \cup {Mouse!None}, x : Mouse!Dpi \cup {0}, y : Mouse!Dpi \cup {0}, rate : Mouse!AnyRate,
                  stage : {"idle", "dpi", "rate", "done"}]
    BY <1>4 DEF MouseInv, Mouse!TypeOK
  <2>3. QED
    BY <1>3, <2>1, <2>2, InputsCount DEF Mouse!panel, MouseInv, Mouse!TypeOK
<1>7. Mouse!MouseIsLegal'
  <2>1. ASSUME NEW m \in Mice
        PROVE  /\ dpi'[m].x <= MaxDpi[m] /\ dpi'[m].y <= MaxDpi[m]
               /\ Choices[m] # {} => dpi'[m].x \in Choices[m] /\ dpi'[m].y = 0
    <3>1. dpi'[m] = dpi[m] \/ (m = d /\ dpi'[m] = new)
      BY <1>3 DEF MouseInv, Mouse!TypeOK
    <3>2. QED
      BY <1>2, <3>1 DEF MouseInv, Mouse!MouseIsLegal
  <2>2. QED
    BY <1>3, <2>1 DEF Mouse!panel, MouseInv, Mouse!MouseIsLegal
<1>8. RateIsLegal'
  BY <1>3, <1>4 DEF Mouse!panel, MouseInv, Mouse!TypeOK, RateIsLegal, Mouse!WriteDpi
<1>9. QED
  BY <1>6, <1>7, <1>8 DEF MouseInv

LEMMA WriteRateKeepsMouse == MouseInv /\ Mouse!WriteRate => MouseInv'
<1> SUFFICES ASSUME MouseInv, Mouse!WriteRate PROVE MouseInv'
  OBVIOUS
<1>1. job.at \in Mice /\ (Rates[job.at] # {} => job.rate \in Rates[job.at]) /\ job.rate \in Mouse!AnyRate
  BY DEF Mouse!WriteRate, MouseInv, RateIsLegal, Mouse!TypeOK
<1>2. /\ job' = [job EXCEPT !.stage = "done"]
      /\ pollRate' = [pollRate EXCEPT ![job.at] = job.rate] \/ UNCHANGED pollRate
      /\ UNCHANGED <<Mouse!panel, writing, dpi, inputs>>
      /\ Mouse!Fault \/ UNCHANGED failures
  BY DEF Mouse!WriteRate
<1>3. Mouse!TypeOK'
  BY <1>1, <1>2, InputsCount DEF Mouse!panel, MouseInv, Mouse!TypeOK
<1>4. Mouse!MouseIsLegal'
  <2>1. \A m \in Mice : Rates[m] # {} => pollRate'[m] \in Rates[m]
    BY <1>1, <1>2 DEF MouseInv, Mouse!MouseIsLegal, Mouse!TypeOK
  <2>2. QED
    BY <1>2, <2>1 DEF Mouse!panel, MouseInv, Mouse!MouseIsLegal
<1>5. RateIsLegal'
  BY <1>2 DEF Mouse!panel, MouseInv, Mouse!TypeOK, RateIsLegal
<1>6. QED
  BY <1>3, <1>4, <1>5 DEF MouseInv

LEMMA AppliedKeepsMouse == MouseInv /\ Mouse!Applied => MouseInv'
<1> SUFFICES ASSUME MouseInv, Mouse!Applied PROVE MouseInv'
  OBVIOUS
<1>2. Mouse!TypeOK'
  BY NoJobType DEF Mouse!Applied, Mouse!panel, MouseInv, Mouse!TypeOK
<1>3. Mouse!MouseIsLegal'
  BY DEF Mouse!Applied, Mouse!panel, MouseInv, Mouse!MouseIsLegal
<1>4. RateIsLegal'
  BY DEF Mouse!Applied, Mouse!panel, MouseInv, RateIsLegal, Mouse!NoJob
<1>5. QED
  BY <1>2, <1>3, <1>4 DEF MouseInv

LEMMA MouseInvKept == MouseInv /\ Mouse!Next => MouseInv'
  BY SetDeviceKeepsMouse, EditKeepsMouse, ApplyKeepsMouse, WriteDpiKeepsMouse,
     WriteRateKeepsMouse, AppliedKeepsMouse DEF Mouse!Next
-----------------------------------------------------------------------------
(* The settings of the program and the autostart entry.                     *)

(* The page has one copy of the settings at most.                              *)
OneCopy == pageCopy = {} \/ \E c \in Prefs!Settings : pageCopy = {c}

PrefsInv == Prefs!TypeOK /\ Prefs!AutostartIsTrue

LEMMA CopyCounts == OneCopy <=> pageCopy \in {{}} \cup {{c} : c \in Prefs!Settings}
  BY DEF OneCopy

LEMMA PrefsStart == Prefs!Init => PrefsInv
<1> SUFFICES ASSUME Prefs!Init PROVE PrefsInv
  OBVIOUS
<1>1. Prefs!NoSettings \in Prefs!Settings
  BY DEF Prefs!NoSettings, Prefs!Settings
<1>2. OneCopy
  BY DEF Prefs!Init, OneCopy
<1>3. Prefs!TypeOK
  BY <1>1, <1>2, CopyCounts DEF Prefs!Init, Prefs!TypeOK
<1>4. Prefs!AutostartIsTrue
  BY DEF Prefs!Init, Prefs!AutostartIsTrue, Prefs!BoxIsTrue
<1>5. QED
  BY <1>3, <1>4 DEF PrefsInv

(* What is saved, copied or remembered is a complete set of settings.          *)
LEMMA SettingsStay ==
  ASSUME NEW c \in Prefs!Settings, NEW b \in BOOLEAN, NEW key \in Presets \cup {Prefs!NoPreset}
  PROVE  [c EXCEPT !.closeToTray = b] \in Prefs!Settings /\ [c EXCEPT !.last = key] \in Prefs!Settings
  BY DEF Prefs!Settings

(* The autostart entry is left alone by all but its box and somebody else.     *)
LEMMA PrefsInvKept == PrefsInv /\ Prefs!Next => PrefsInv'
<1> SUFFICES ASSUME PrefsInv, Prefs!Next PROVE PrefsInv'
  OBVIOUS
<1>a. file \in Prefs!Settings /\ trayCopy \in Prefs!Settings /\ chosen \in Prefs!Settings
  BY DEF PrefsInv, Prefs!TypeOK
<1>b. /\ closeBox \in BOOLEAN /\ startBox \in BOOLEAN /\ running \in BOOLEAN
      /\ meddled \in BOOLEAN /\ theirs \in BOOLEAN /\ entry \in {"none", "ours", "foreign"}
  BY DEF PrefsInv, Prefs!TypeOK
<1>c. OneCopy
  BY CopyCounts DEF PrefsInv, Prefs!TypeOK
<1> DEFINE Typed == /\ {file', trayCopy', chosen'} \subseteq Prefs!Settings
                    /\ entry' \in {"none", "ours", "foreign"}
                    /\ {running', closeBox', startBox', meddled', theirs'} \subseteq BOOLEAN
<1> SUFFICES Typed /\ OneCopy' /\ Prefs!AutostartIsTrue'
  BY DEF PrefsInv, Prefs!TypeOK, OneCopy
<1>1. CASE Prefs!Start
  <2>1. startBox' = (entry # "none") /\ closeBox' = file.closeToTray /\ pageCopy' = {}
    BY <1>1 DEF Prefs!Start
  <2>2. file.closeToTray \in BOOLEAN
    BY <1>a DEF Prefs!Settings
  <2>3. Typed
    BY <1>1, <1>a, <1>b, <1>c, <2>1, <2>2 DEF Prefs!Start
  <2>4. Prefs!AutostartIsTrue'
    BY <1>1, <2>1 DEF Prefs!Start, PrefsInv, Prefs!AutostartIsTrue, Prefs!BoxIsTrue
  <2>5. QED
    BY <2>1, <2>3, <2>4 DEF OneCopy
<1>2. CASE Prefs!Quit
  BY <1>2, <1>a, <1>b, <1>c DEF Prefs!Quit, Prefs!Input, Prefs!copies, Prefs!boxes, PrefsInv,
     OneCopy, Prefs!AutostartIsTrue, Prefs!BoxIsTrue
<1>3. CASE Prefs!ToggleCloseToTray
  <2>1. /\ trayCopy' \in Prefs!Settings /\ file' \in Prefs!Settings /\ chosen' \in Prefs!Settings
        /\ closeBox' \in BOOLEAN
    BY <1>3, <1>a, <1>b, <1>c, SettingsStay DEF Prefs!ToggleCloseToTray
  <2>2. QED
    BY <1>3, <1>b, <1>c, <2>1 DEF Prefs!ToggleCloseToTray, PrefsInv, OneCopy,
       Prefs!AutostartIsTrue, Prefs!BoxIsTrue
<1>4. CASE Prefs!ToggleAutostart
  <2>1. entry' \in {"none", "ours", "foreign"} /\ startBox' \in BOOLEAN
    BY <1>4, <1>b DEF Prefs!ToggleAutostart, Prefs!SetAutostart
  <2>2. Typed /\ OneCopy'
    BY <1>4, <1>a, <1>b, <1>c, <2>1 DEF Prefs!ToggleAutostart, Prefs!copies, PrefsInv, OneCopy
  <2>3. Prefs!BoxIsTrue'
    BY <1>4, <1>b DEF Prefs!ToggleAutostart, Prefs!SetAutostart, Prefs!Input, PrefsInv,
       Prefs!AutostartIsTrue, Prefs!BoxIsTrue
  <2>4. theirs' => entry' = "foreign"
    BY <1>4, <1>b DEF Prefs!ToggleAutostart, Prefs!SetAutostart, Prefs!Ours, PrefsInv,
       Prefs!AutostartIsTrue
  <2>5. QED
    BY <2>2, <2>3, <2>4 DEF Prefs!AutostartIsTrue
<1>5. CASE \E key \in Presets \cup {Prefs!NoPreset} : Prefs!Remember(key)
  <2>1. PICK key \in Presets \cup {Prefs!NoPreset} : Prefs!Remember(key)
    BY <1>5
  <2>2. PICK c \in Prefs!Settings : /\ pageCopy' = {[c EXCEPT !.last = key]}
                                    /\ \/ /\ file' = [c EXCEPT !.last = key]
                                          /\ chosen' = [chosen EXCEPT !.last = key]
                                       \/ UNCHANGED <<file, chosen>>
    BY <1>a, <1>c, <2>1 DEF Prefs!Remember, OneCopy
  <2>3. [c EXCEPT !.last = key] \in Prefs!Settings /\ [chosen EXCEPT !.last = key] \in Prefs!Settings
    BY <1>a, SettingsStay
  <2>4. Typed /\ OneCopy'
    BY <1>a, <1>b, <1>c, <2>1, <2>2, <2>3 DEF Prefs!Remember, Prefs!boxes, OneCopy
  <2>5. Prefs!AutostartIsTrue'
    BY <2>1 DEF Prefs!Remember, Prefs!boxes, PrefsInv, Prefs!AutostartIsTrue, Prefs!BoxIsTrue
  <2>6. QED
    BY <2>4, <2>5
<1>6. CASE \E key \in Presets : Prefs!Forget(key)
  <2>1. PICK key \in Presets : Prefs!Forget(key)
    BY <1>6
  <2>2. [file EXCEPT !.last = Prefs!NoPreset] \in Prefs!Settings /\ [chosen EXCEPT !.last = Prefs!NoPreset] \in Prefs!Settings
    BY <1>a, SettingsStay
  <2>3. QED
    BY <1>a, <1>b, <1>c, <2>1, <2>2 DEF Prefs!Forget, Prefs!copies, Prefs!boxes, PrefsInv,
       OneCopy, Prefs!AutostartIsTrue, Prefs!BoxIsTrue
<1>7. CASE \E e \in {"none", "foreign"} : Prefs!Meddle(e)
  BY <1>7, <1>a, <1>b, <1>c DEF Prefs!Meddle, Prefs!copies, Prefs!boxes, PrefsInv, OneCopy,
     Prefs!AutostartIsTrue, Prefs!BoxIsTrue
<1>8. QED
  BY <1>1, <1>2, <1>3, <1>4, <1>5, <1>6, <1>7 DEF Prefs!Next
-----------------------------------------------------------------------------
(* The loads the overlay shows.                                             *)

(* Whole percentages of a longer way are no smaller.                           *)
LEMMA TimesMonotonic ==
  ASSUME NEW a \in Nat, NEW b \in Nat, NEW f \in Nat, a <= b
  PROVE  a * f <= b * f /\ a * f \in Nat /\ b * f \in Nat
<1>1. PICK c \in Nat : b = a + c
  <2>1. b - a \in Nat /\ b = a + (b - a)
    OBVIOUS
  <2>2. QED
    BY <2>1
<1>2. b * f = a * f + c * f
  BY <1>1
<1>3. a * f \in Nat /\ c * f \in Nat
  OBVIOUS
<1>4. QED
  BY <1>2, <1>3

LEMMA DivMonotonic ==
  ASSUME NEW a \in Nat, NEW b \in Nat, NEW e \in Nat \ {0}, a <= b
  PROVE  a \div e <= b \div e /\ a \div e \in Nat
  OBVIOUS

LEMMA PercentBounds ==
  ASSUME NEW a \in Int, NEW b \in Nat, NEW e \in Nat \ {0}, a <= b
  PROVE  (Loads!Most(0, a) * Full) \div e \in 0..((b * Full) \div e)
<1>1. Full \in Nat
  BY GuiAssumption DEF Loads!CollectorAssumption
<1>2. Loads!Most(0, a) \in Nat /\ Loads!Most(0, a) <= b
  BY DEF Loads!Most
<1> DEFINE m == Loads!Most(0, a)
<1> HIDE DEF m
<1>3. m * Full <= b * Full /\ m * Full \in Nat /\ b * Full \in Nat
  BY <1>1, <1>2, TimesMonotonic DEF m
<1>4. (m * Full) \div e <= (b * Full) \div e /\ (m * Full) \div e \in Nat /\ (b * Full) \div e \in Nat
  BY <1>3, DivMonotonic
<1>5. QED
  BY <1>4 DEF m

(* What the counters have gained since the readings that are kept of them.     *)
CountersAgree ==
    /\ Loads!TypeOK
    /\ \A d \in Disks : lastDisks[d] # Loads!Nothing /\ counter[d] # Loads!NA =>
           counter[d] - lastDisks[d] <= moved[d]
    /\ lastTime = Loads!Nothing => lastDisks = Loads!NoDisks /\ lastCpu = Loads!NoCpu
    /\ lastTime # Loads!Nothing => lastTime <= clock
    /\ lastCpu # Loads!NoCpu => /\ busy - lastCpu.busy = spent
                                /\ total - lastCpu.total = clock - lastTime

LoadsInv == CountersAgree /\ Loads!LoadsAreRecent

LEMMA LoadsStart == Loads!Init => LoadsInv
<1> SUFFICES ASSUME Loads!Init PROVE LoadsInv
  OBVIOUS
<1>1. counter \in [Disks -> Nat \cup {Loads!NA}]
  BY DEF Loads!Init
<1>2. Loads!NoDisks \in [Disks -> Nat \cup {Loads!Nothing}] /\ \A d \in Disks : Loads!NoDisks[d] = Loads!Nothing
  BY DEF Loads!NoDisks
<1>3. CountersAgree
  BY <1>1, <1>2 DEF Loads!Init, CountersAgree, Loads!TypeOK
<1>4. Loads!LoadsAreRecent
  BY DEF Loads!Init, Loads!LoadsAreRecent
<1>5. QED
  BY <1>3, <1>4 DEF LoadsInv

(* Nothing but a sample shows a load.                                          *)
LEMMA MachineKeeps ==
  ASSUME LoadsInv,
         \/ \E d \in Disks : Loads!Transfer(d) \/ Loads!Replug(d)
         \/ \E n \in {0, 1} : Loads!Tick(n)
  PROVE  LoadsInv'
<1>0. Loads!Unsampled
  BY DEF Loads!Transfer, Loads!Replug, Loads!Tick
<1>1. Loads!LoadsAreRecent'
  BY <1>0 DEF Loads!Unsampled, LoadsInv, Loads!LoadsAreRecent
<1>2. CASE \E d \in Disks : Loads!Transfer(d)
  <2>1. PICK d \in Disks : Loads!Transfer(d)
    BY <1>2
  <2>2. counter[d] \in Nat /\ counter[d] # Loads!NA
    BY GuiAssumption, <2>1 DEF Loads!Transfer, Loads!CollectorAssumption, Loads!NA
  <2>3. /\ counter' \in [Disks -> Nat \cup {Loads!NA}] /\ moved' \in [Disks -> Nat]
        /\ counter'[d] = counter[d] + 1 /\ moved'[d] = moved[d] + 1
        /\ \A e \in Disks \ {d} : counter'[e] = counter[e] /\ moved'[e] = moved[e]
    BY <2>1, <2>2 DEF Loads!Transfer, LoadsInv, CountersAgree, Loads!TypeOK
  <2>4. \A e \in Disks : lastDisks[e] # Loads!Nothing /\ counter'[e] # Loads!NA =>
              counter'[e] - lastDisks[e] <= moved'[e]
    BY <2>2, <2>3 DEF LoadsInv, CountersAgree, Loads!TypeOK, Loads!Nothing
  <2>5. QED
    BY <1>0, <1>1, <2>1, <2>3, <2>4 DEF Loads!Transfer, Loads!Unsampled, LoadsInv, CountersAgree, Loads!TypeOK
<1>3. CASE \E d \in Disks : Loads!Replug(d)
  <2>1. PICK d \in Disks : Loads!Replug(d)
    BY <1>3
  <2>2. /\ counter' \in [Disks -> Nat \cup {Loads!NA}]
        /\ counter'[d] \in {0, Loads!NA} /\ \A e \in Disks \ {d} : counter'[e] = counter[e]
    BY <2>1 DEF Loads!Replug, LoadsInv, CountersAgree, Loads!TypeOK
  <2>3. \A e \in Disks : lastDisks[e] # Loads!Nothing /\ counter'[e] # Loads!NA =>
              counter'[e] - lastDisks[e] <= moved[e]
    BY <2>2 DEF LoadsInv, CountersAgree, Loads!TypeOK
  <2>4. QED
    BY <1>0, <1>1, <2>1, <2>2, <2>3 DEF Loads!Replug, Loads!Fault, Loads!Unsampled, LoadsInv,
       CountersAgree, Loads!TypeOK
<1>4. CASE \E n \in {0, 1} : Loads!Tick(n)
  BY <1>0, <1>1, <1>4 DEF Loads!Tick, Loads!Unsampled, LoadsInv, CountersAgree, Loads!TypeOK
<1>5. QED
  BY <1>2, <1>3, <1>4

LEMMA SampleKeeps ==
  ASSUME LoadsInv, NEW disksOk \in BOOLEAN, NEW cpuOk \in BOOLEAN, Loads!Sample(disksOk, cpuOk)
  PROVE  LoadsInv'
<1> DEFINE elapsed == IF lastTime = Loads!Nothing THEN Loads!Nothing ELSE clock - lastTime
           cpu == IF cpuOk THEN [busy |-> busy, total |-> total] ELSE Loads!NoCpu
           reading == Loads!Reading(disksOk)
<1>1. /\ lastTime' = clock /\ lastDisks' = reading /\ lastCpu' = cpu
      /\ load' = [d \in Disks |-> Loads!DiskLoad(d, reading, elapsed)]
      /\ cpuLoad' = IF ~cpuOk THEN Loads!NA ELSE IF lastCpu = Loads!NoCpu THEN 0 ELSE Loads!CpuPercent(lastCpu, cpu)
      /\ span' = moved /\ cpuSpan' = spent
      /\ interval' = IF elapsed = Loads!Nothing THEN 0 ELSE elapsed
      /\ moved' = [d \in Disks |-> 0] /\ spent' = 0
      /\ UNCHANGED <<counter, busy, total, clock>>
  BY DEF Loads!Sample
<1>2. Full \in Nat
  BY GuiAssumption DEF Loads!CollectorAssumption
<1>3. interval' \in Nat /\ (elapsed # Loads!Nothing => elapsed = interval')
  BY <1>1 DEF LoadsInv, CountersAgree, Loads!TypeOK, Loads!Nothing
<1>4. /\ reading \in [Disks -> Nat \cup {Loads!Nothing}]
      /\ \A d \in Disks : reading[d] # Loads!Nothing => reading[d] = counter[d] /\ counter[d] # Loads!NA
  BY DEF Loads!Reading, LoadsInv, CountersAgree, Loads!TypeOK
<1>5. ASSUME NEW d \in Disks, load'[d] # Loads!NA
      PROVE  load'[d] \in 0..(IF interval' = 0 THEN 0 ELSE Loads!Least(Full, (span'[d] * Full) \div interval'))
  <2>1. reading[d] # Loads!Nothing /\ load'[d] = Loads!DiskLoad(d, reading, elapsed)
    BY <1>1, <1>5 DEF Loads!DiskLoad
  <2> DEFINE w == span'[d]
  <2>2. w \in Nat /\ w = moved[d]
    BY <1>1 DEF LoadsInv, CountersAgree, Loads!TypeOK
  <2> HIDE DEF w, reading, elapsed
  <2>3. interval' # 0 => (w * Full) \div interval' \in Nat
    BY <1>2, <1>3, <2>2, TimesMonotonic, DivMonotonic
  <2>4. interval' # 0 => Loads!Least(Full, (w * Full) \div interval') \in Nat
    BY <1>2, <2>3 DEF Loads!Least
  <2>5. CASE lastDisks[d] = Loads!Nothing \/ elapsed = Loads!Nothing
    <3>1. load'[d] = 0
      BY <2>1, <2>5 DEF Loads!DiskLoad
    <3>2. QED
      BY <2>4, <3>1 DEF w
  <2>6. CASE lastDisks[d] # Loads!Nothing /\ elapsed # Loads!Nothing /\ interval' = 0
    <3>1. load'[d] = 0
      BY <1>3, <2>1, <2>6 DEF Loads!DiskLoad, Loads!DiskPercent
    <3>2. QED
      BY <2>6, <3>1
  <2>7. CASE lastDisks[d] # Loads!Nothing /\ elapsed # Loads!Nothing /\ interval' # 0
    <3> DEFINE gain == reading[d] - lastDisks[d]
    <3>1. gain \in Int /\ gain <= w
      BY <1>4, <2>1, <2>2, <2>7 DEF LoadsInv, CountersAgree, Loads!TypeOK
    <3>2. load'[d] = Loads!Least(Full, (Loads!Most(0, gain) * Full) \div interval')
      BY <1>3, <2>1, <2>7 DEF Loads!DiskLoad, Loads!DiskPercent
    <3> HIDE DEF gain
    <3>3. (Loads!Most(0, gain) * Full) \div interval' \in 0..((w * Full) \div interval')
      BY <1>3, <2>2, <2>7, <3>1, PercentBounds
    <3>4. load'[d] \in 0..Loads!Least(Full, (w * Full) \div interval')
      BY <1>2, <2>3, <2>7, <3>2, <3>3 DEF Loads!Least
    <3>5. QED
      BY <2>7, <3>4 DEF w
  <2>8. QED
    BY <2>5, <2>6, <2>7
<1>6. ASSUME cpuLoad' # Loads!NA
      PROVE  cpuLoad' \in 0..(IF interval' = 0 THEN 0 ELSE (cpuSpan' * Full) \div interval')
  <2>1. cpuOk /\ cpuSpan' = spent /\ spent \in Nat
    BY <1>1, <1>6 DEF LoadsInv, CountersAgree, Loads!TypeOK
  <2>2. interval' # 0 => (spent * Full) \div interval' \in Nat
    <3>1. spent * Full \in Nat
      BY <1>2, <2>1, TimesMonotonic
    <3> DEFINE p == spent * Full
    <3> HIDE DEF p, elapsed
    <3>2. interval' # 0 => p \div interval' \in Nat
      BY <1>3, <3>1, DivMonotonic DEF p
    <3>3. QED
      BY <3>2 DEF p
  <2>3. CASE lastCpu = Loads!NoCpu
    BY <1>1, <2>1, <2>2, <2>3
  <2>4. CASE lastCpu # Loads!NoCpu
    <3>1. /\ cpu.busy - lastCpu.busy = spent /\ elapsed # Loads!Nothing
          /\ cpu.total - lastCpu.total = interval'
      BY <1>3, <2>1, <2>4 DEF LoadsInv, CountersAgree, Loads!TypeOK, Loads!Nothing
    <3>2. cpuLoad' = Loads!CpuPercent(lastCpu, cpu)
      BY <1>1, <2>1, <2>4
    <3> HIDE DEF cpu, elapsed
    <3>3. cpuLoad' = IF interval' <= 0 THEN 0
                     ELSE Loads!Least(Full, (Loads!Most(0, spent) * Full) \div interval')
      BY <3>1, <3>2 DEF Loads!CpuPercent
    <3>4. CASE interval' = 0
      BY <3>3, <3>4
    <3>5. CASE interval' # 0
      <4>1. (Loads!Most(0, spent) * Full) \div interval' \in 0..((spent * Full) \div interval')
        BY <1>3, <2>1, <3>5, PercentBounds
      <4>2. QED
        BY <1>2, <1>3, <2>1, <2>2, <3>3, <3>5, <4>1 DEF Loads!Least
    <3>6. QED
      BY <3>4, <3>5
  <2>5. QED
    BY <2>3, <2>4
<1>7. Loads!LoadsAreRecent'
  BY <1>5, <1>6 DEF Loads!LoadsAreRecent
<1>8. CountersAgree'
  <2>1. \A d \in Disks : lastDisks'[d] # Loads!Nothing /\ counter'[d] # Loads!NA =>
            counter'[d] - lastDisks'[d] <= moved'[d]
    BY <1>1, <1>4 DEF LoadsInv, CountersAgree, Loads!TypeOK
  <2>2. clock # Loads!Nothing /\ clock \in Nat
    BY DEF LoadsInv, CountersAgree, Loads!TypeOK, Loads!Nothing
  <2>3. cpu # Loads!NoCpu => cpu = [busy |-> busy, total |-> total]
    OBVIOUS
  <2>4. cpu # Loads!NoCpu => /\ cpu \in [busy : Nat, total : Nat]
                             /\ busy - cpu.busy = 0 /\ total - cpu.total = 0
    BY <2>3 DEF LoadsInv, CountersAgree, Loads!TypeOK
  <2>5. load' \in [Disks -> Nat \cup {Loads!NA}] /\ cpuLoad' \in Nat \cup {Loads!NA}
    <3>1. \A d \in Disks : load'[d] \in Nat \cup {Loads!NA}
      BY <1>5
    <3>2. load' = [d \in Disks |-> load'[d]]
      BY <1>1
    <3>3. QED
      BY <1>6, <3>1, <3>2
  <2>6. faults' \in Nat
    BY DEF Loads!Sample, Loads!Fault, LoadsInv, CountersAgree, Loads!TypeOK
  <2> HIDE DEF cpu, reading, elapsed
  <2>7. Loads!TypeOK'
    <3>1. /\ {busy', total', clock', spent', cpuSpan', interval', faults'} \subseteq Nat
          /\ counter' \in [Disks -> Nat \cup {Loads!NA}]
          /\ {moved', span'} \subseteq [Disks -> Nat]
      BY <1>1, <1>3, <2>6 DEF LoadsInv, CountersAgree, Loads!TypeOK
    <3>2. /\ lastDisks' \in [Disks -> Nat \cup {Loads!Nothing}]
          /\ lastTime' \in Nat \cup {Loads!Nothing}
          /\ lastCpu' \in [busy : Nat, total : Nat] \cup {Loads!NoCpu}
      BY <1>1, <1>4, <2>2, <2>4
    <3>3. QED
      BY <2>5, <3>1, <3>2 DEF Loads!TypeOK
  <2>8. QED
    BY <1>1, <1>4, <2>1, <2>2, <2>4, <2>7 DEF LoadsInv, CountersAgree
<1>9. QED
  BY <1>7, <1>8 DEF LoadsInv

LEMMA LoadsInvKept == LoadsInv /\ Loads!Next => LoadsInv'
  BY MachineKeeps, SampleKeeps DEF Loads!Next
-----------------------------------------------------------------------------
(* The settings of the overlay and their files.                             *)

MonitorInv == Monitor!TypeOK /\ Monitor!OverlaySettingsAreKept

(* The part of it that no configuration is needed for.                         *)
DisplayFits ==
    /\ style \in {"none", "legacy", "bundled", "edited"} /\ (userStyle => style = "edited")
    /\ bar.edge \in Monitor!Edges /\ bar.module \in Monitor!AlignsX
    /\ x \in Monitor!AlignsX /\ y \in Monitor!AlignsY
    /\ {shown, wanted, applied, userStyle} \subseteq BOOLEAN

LEMMA ConfigFields ==
  ASSUME NEW on \in BOOLEAN, NEW disks, NEW ax, NEW ay, NEW n
  PROVE  /\ Monitor!Config(on, disks, ax, ay, n).enabled = on /\ Monitor!Config(on, disks, ax, ay, n).disks = disks
         /\ Monitor!Config(on, disks, ax, ay, n).x = ax /\ Monitor!Config(on, disks, ax, ay, n).y = ay
         /\ Monitor!Complete(Monitor!Config(on, disks, ax, ay, n))
  BY DEF Monitor!Config, Monitor!Complete

LEMMA FileFields ==
  ASSUME NEW is, NEW c, NEW edge
  PROVE  Monitor!File(is, c, edge).is = is /\ Monitor!File(is, c, edge).config = c /\ Monitor!File(is, c, edge).edge = edge
  BY DEF Monitor!File

LEMMA DefaultIsRight == Monitor!Complete(Monitor!Default) /\ Monitor!Valid(Monitor!Default)
<1>1. Monitor!Complete(Monitor!Default) /\ Monitor!Default.x = "right" /\ Monitor!Default.y = "top" /\ Monitor!Default.disks = <<>>
  BY DEF Monitor!Default, Monitor!Config, Monitor!Complete
<1>2. Monitor!ValidDisks(<<>>)
  BY DEF Monitor!ValidDisks
<1>3. QED
  BY <1>1, <1>2 DEF Monitor!Valid, Monitor!AlignsX, Monitor!AlignsY

(* What the migration makes of a file that has an edge is never thrown away.   *)
LEMMA MigrationCompletes ==
  ASSUME NEW c, Monitor!Complete(c), NEW edge
  PROVE  /\ Monitor!Complete(Monitor!Migrate(c, edge))
         /\ Monitor!Migrate(c, Monitor!NoEdge) = c
         /\ edge \in {"top", "bottom", "left", "right"} /\ c.x \in Monitor!AlignsX /\ c.y \in Monitor!AlignsY
            /\ Monitor!ValidDisks(c.disks) => Monitor!Valid(Monitor!Migrate(c, edge))
<1>1. /\ [c EXCEPT !.y = edge] = Monitor!Config(c.enabled, c.disks, c.x, edge, c.interval)
      /\ [c EXCEPT !.x = edge, !.y = "center"] = Monitor!Config(c.enabled, c.disks, edge, "center", c.interval)
  <2> DEFINE d == Monitor!Config(c.enabled, c.disks, c.x, c.y, c.interval)
  <2>1. c = d
    BY DEF Monitor!Complete
  <2> HIDE DEF d
  <2>2. [d EXCEPT !.x = edge, !.y = "center"] = [[d EXCEPT !.x = edge] EXCEPT !.y = "center"]
    OBVIOUS
  <2>3. /\ [d EXCEPT !.y = edge] = Monitor!Config(c.enabled, c.disks, c.x, edge, c.interval)
        /\ [d EXCEPT !.x = edge] = Monitor!Config(c.enabled, c.disks, edge, c.y, c.interval)
    BY DEF d, Monitor!Config
  <2>4. [Monitor!Config(c.enabled, c.disks, edge, c.y, c.interval) EXCEPT !.y = "center"]
        = Monitor!Config(c.enabled, c.disks, edge, "center", c.interval)
    BY DEF Monitor!Config
  <2>5. QED
    BY <2>1, <2>2, <2>3, <2>4
<1>0. c.enabled \in BOOLEAN
  BY DEF Monitor!Complete
<1>2. Monitor!Complete(Monitor!Migrate(c, edge))
  BY <1>0, <1>1, ConfigFields DEF Monitor!Migrate
<1>3. Monitor!Migrate(c, Monitor!NoEdge) = c
  BY DEF Monitor!Migrate, Monitor!NoEdge
<1>4. ASSUME edge \in {"top", "bottom", "left", "right"}, c.x \in Monitor!AlignsX, c.y \in Monitor!AlignsY,
             Monitor!ValidDisks(c.disks)
      PROVE  Monitor!Valid(Monitor!Migrate(c, edge))
  <2>1. CASE edge \in {"top", "bottom"}
    <3>1. Monitor!Migrate(c, edge) = Monitor!Config(c.enabled, c.disks, c.x, edge, c.interval)
      BY <1>1, <2>1 DEF Monitor!Migrate
    <3>2. QED
      BY <1>0, <1>4, <2>1, <3>1, ConfigFields DEF Monitor!Valid, Monitor!AlignsY
  <2>2. CASE edge \in {"left", "right"}
    <3>1. Monitor!Migrate(c, edge) = Monitor!Config(c.enabled, c.disks, edge, "center", c.interval)
      BY <1>1, <2>2 DEF Monitor!Migrate
    <3>2. QED
      BY <1>0, <1>4, <2>2, <3>1, ConfigFields DEF Monitor!Valid, Monitor!AlignsX, Monitor!AlignsY
  <2>3. QED
    BY <1>4, <2>1, <2>2
<1>5. QED
  BY <1>2, <1>3, <1>4

(* What was loaded, whatever the file was.                                     *)
LEMMA LoadedIsRight ==
  ASSUME NEW f, f.is = "ok" => Monitor!Complete(f.config)
  PROVE  Monitor!Complete(Monitor!Loaded(f)) /\ Monitor!Valid(Monitor!Loaded(f))
<1>1. CASE Monitor!Loads(f)
  BY <1>1, MigrationCompletes DEF Monitor!Loaded, Monitor!Loads, Monitor!Stored
<1>2. CASE ~Monitor!Loads(f)
  BY <1>2, DefaultIsRight DEF Monitor!Loaded
<1>3. QED
  BY <1>1, <1>2

(* Waybar is given an edge it knows, and the same one whether it is on or off. *)
LEMMA BarIsKnown ==
  ASSUME NEW c, Monitor!Valid(c)
  PROVE  /\ Monitor!BarPosition(c).edge \in Monitor!Edges
         /\ Monitor!BarPosition(c).module \in Monitor!AlignsX
  BY DEF Monitor!Valid, Monitor!BarPosition, Monitor!Edges, Monitor!AlignsX, Monitor!AlignsY

LEMMA LoadFileKeepsSettings ==
  ASSUME Monitor!LoadFile, Monitor!TypeOK
  PROVE  /\ Monitor!Loaded(file') = Monitor!Loaded(file)
         /\ file'.is \in {"missing", "unreadable", "bad", "ok"}
         /\ file' = file \/ file'.is # "ok"
<1>1. Monitor!Missing.is = "missing"
  BY FileFields DEF Monitor!Missing
<1>2. CASE Monitor!MovedAside(file) /\ file' = Monitor!Missing
  BY <1>1, <1>2 DEF Monitor!MovedAside, Monitor!Loaded, Monitor!Loads
<1>3. CASE UNCHANGED file
  BY <1>3 DEF Monitor!TypeOK
<1>4. QED
  BY <1>2, <1>3 DEF Monitor!LoadFile

LEMMA MonitorStart == Monitor!Init => MonitorInv
<1> SUFFICES ASSUME Monitor!Init PROVE MonitorInv
  OBVIOUS
<1>0. file \in MonitorFiles /\ (file.is = "ok" => Monitor!Complete(file.config))
      /\ file.is \in {"missing", "unreadable", "bad", "ok"}
  BY GuiAssumption DEF Monitor!Init, Monitor!SettingsAssumption
<1>1. Monitor!TypeOK
  <2>1. wanted \in BOOLEAN
    BY <1>0, LoadedIsRight DEF Monitor!Init, Monitor!Complete
  <2>2. bar.edge \in Monitor!Edges /\ bar.module \in Monitor!AlignsX
    BY BarIsKnown, DefaultIsRight DEF Monitor!Init
  <2>3. QED
    BY <1>0, <2>1, <2>2, DefaultIsRight
    DEF Monitor!Init, Monitor!TypeOK, Monitor!AlignsX, Monitor!AlignsY
<1>2. Monitor!FileIsConfig /\ Monitor!OverlayIsPlaced /\ Monitor!AppliedIsShown
  BY DEF Monitor!Init, Monitor!FileIsConfig, Monitor!OverlayIsPlaced, Monitor!AppliedIsShown
<1>3. Monitor!UserFilesStay
  <2>1. ASSUME file.is = "ok", file.edge \in Monitor!AlignsX \cup Monitor!AlignsY PROVE Monitor!Loads(file)
    <3>1. file.edge # Monitor!NoEdge
      BY <2>1 DEF Monitor!AlignsX, Monitor!AlignsY, Monitor!NoEdge
    <3>2. Monitor!Complete(file.config) /\ Monitor!Valid(Monitor!Migrate(file.config, file.edge))
      BY GuiAssumption, <1>0, <2>1, <3>1, MigrationCompletes DEF Monitor!SettingsAssumption
    <3>3. QED
      BY <2>1, <3>2 DEF Monitor!Loads, Monitor!Stored
  <2>2. QED
    BY <2>1 DEF Monitor!Init, Monitor!UserFilesStay
<1>4. QED
  BY <1>1, <1>2, <1>3 DEF MonitorInv, Monitor!OverlaySettingsAreKept

(* A configuration is kept: in the file, or with a note that it is not.        *)
LEMMA StoreKeeps ==
  ASSUME MonitorInv, NEW c, Monitor!Complete(c), Monitor!Valid(c), config' = c,
         NEW stored \in BOOLEAN, Monitor!Store(c, stored), phase' = "on", c.enabled = wanted',
         DisplayFits', Monitor!OverlayIsPlaced', Monitor!AppliedIsShown'
  PROVE  MonitorInv'
<1>1. CASE stored
  <2>0. file' = Monitor!File("ok", c, Monitor!NoEdge) /\ unsaved' = FALSE
    BY <1>1 DEF Monitor!Store
  <2>1. /\ file'.is = "ok" /\ file'.config = c /\ file'.edge = Monitor!NoEdge
        /\ unsaved' = FALSE
    BY <2>0, FileFields
  <2>2. Monitor!Stored(file') = config'
    BY <2>1, MigrationCompletes DEF Monitor!Stored
  <2>3. Monitor!TypeOK'
    BY <2>1 DEF Monitor!TypeOK, DisplayFits
  <2>4. Monitor!FileIsConfig'
    BY <2>1, <2>2 DEF Monitor!FileIsConfig, Monitor!Loaded, Monitor!Loads
  <2>5. Monitor!UserFilesStay'
    BY <2>1 DEF Monitor!UserFilesStay, DisplayFits, Monitor!NoEdge, Monitor!AlignsX, Monitor!AlignsY
  <2>6. QED
    BY <2>3, <2>4, <2>5 DEF MonitorInv, Monitor!OverlaySettingsAreKept
<1>2. CASE ~stored
  <2>1. file' = file /\ unsaved' = TRUE
    BY <1>2 DEF Monitor!Store
  <2>2. Monitor!TypeOK'
    BY <2>1 DEF MonitorInv, Monitor!TypeOK, DisplayFits
  <2>3. Monitor!FileIsConfig' /\ Monitor!UserFilesStay'
    BY <2>1 DEF MonitorInv, Monitor!OverlaySettingsAreKept, Monitor!FileIsConfig,
       Monitor!UserFilesStay, DisplayFits
  <2>4. QED
    BY <2>2, <2>3 DEF MonitorInv, Monitor!OverlaySettingsAreKept
<1>3. QED
  BY <1>1, <1>2

LEMMA DisplayFitsAlways == MonitorInv => DisplayFits
  BY DEF MonitorInv, Monitor!OverlaySettingsAreKept, Monitor!UserFilesStay, Monitor!TypeOK,
     DisplayFits

(* A start that did not fail leaves Waybar with the files of the configuration. *)
LEMMA LaunchPlaces ==
  ASSUME DisplayFits, NEW c, Monitor!Valid(c), NEW done \in BOOLEAN,
         Monitor!Launch(c, done) \/ Monitor!WriteFiles(c, done)
  PROVE  /\ style' \in {"none", "legacy", "bundled", "edited"} /\ (userStyle => style' = "edited")
         /\ bar'.edge \in Monitor!Edges /\ bar'.module \in Monitor!AlignsX
         /\ done => bar' = Monitor!BarPosition(c)
<1>1. bar' \in {bar, Monitor!BarPosition(c)} /\ (done => bar' = Monitor!BarPosition(c))
  BY DEF Monitor!Launch, Monitor!WriteFiles
<1>2. Monitor!InstallStyle \/ UNCHANGED style
  BY DEF Monitor!Launch, Monitor!WriteFiles
<1>3. style' \in {"none", "legacy", "bundled", "edited"} /\ (userStyle => style' = "edited")
  BY <1>2 DEF Monitor!InstallStyle, DisplayFits
<1>4. QED
  BY <1>1, <1>3, BarIsKnown DEF DisplayFits

LEMMA StartKeeps == MonitorInv /\ Monitor!Start => MonitorInv'
<1> SUFFICES ASSUME MonitorInv, Monitor!Start PROVE MonitorInv'
  OBVIOUS
<1>1. /\ config' = Monitor!Loaded(file) /\ Monitor!LoadFile /\ phase' = "on"
      /\ x' = config'.x /\ y' = config'.y
      /\ wanted' = (IF unsaved THEN config'.enabled ELSE wanted)
      /\ applied' = FALSE /\ unsaved' = FALSE /\ userStyle' = userStyle
  BY DEF Monitor!Start, Monitor!Refresh
<1>2. Monitor!Complete(config') /\ Monitor!Valid(config')
  BY <1>1, LoadedIsRight DEF MonitorInv, Monitor!TypeOK
<1>3. /\ Monitor!Loaded(file') = config' /\ (file' = file \/ file'.is # "ok")
      /\ file'.is \in {"missing", "unreadable", "bad", "ok"}
  BY <1>1, LoadFileKeepsSettings DEF MonitorInv
<1>4. wanted' = config'.enabled
  BY <1>1 DEF MonitorInv, Monitor!OverlaySettingsAreKept, Monitor!FileIsConfig
<1>5. PICK launched \in BOOLEAN :
        /\ shown' = (config'.enabled /\ launched)
        /\ IF config'.enabled THEN Monitor!Launch(config', launched)
           ELSE launched /\ UNCHANGED <<bar, style>>
  BY DEF Monitor!Start
<1>6. /\ style' \in {"none", "legacy", "bundled", "edited"} /\ (userStyle' => style' = "edited")
      /\ bar'.edge \in Monitor!Edges /\ bar'.module \in Monitor!AlignsX
      /\ shown' => bar' = Monitor!BarPosition(config') /\ config'.enabled
  BY <1>1, <1>2, <1>5, DisplayFitsAlways, LaunchPlaces DEF DisplayFits
<1>7. Monitor!TypeOK'
  <2>1. config'.enabled \in BOOLEAN /\ config'.x \in Monitor!AlignsX /\ config'.y \in Monitor!AlignsY
    BY <1>2 DEF Monitor!Complete, Monitor!Valid
  <2>2. file'.is = "ok" => Monitor!Complete(file'.config)
    BY <1>3 DEF MonitorInv, Monitor!TypeOK
  <2>3. shown' \in BOOLEAN /\ userStyle' \in BOOLEAN
    BY <1>1, <1>5, <2>1 DEF MonitorInv, Monitor!TypeOK
  <2>4. QED
    BY <1>1, <1>2, <1>3, <1>4, <1>6, <2>1, <2>2, <2>3 DEF Monitor!TypeOK
<1>8. Monitor!FileIsConfig' /\ Monitor!OverlayIsPlaced' /\ Monitor!AppliedIsShown'
  BY <1>1, <1>2, <1>3, <1>4, <1>6
  DEF Monitor!FileIsConfig, Monitor!OverlayIsPlaced, Monitor!AppliedIsShown
<1>9. Monitor!UserFilesStay'
  BY <1>3, <1>6 DEF MonitorInv, Monitor!OverlaySettingsAreKept, Monitor!UserFilesStay
<1>10. QED
  BY <1>7, <1>8, <1>9 DEF MonitorInv, Monitor!OverlaySettingsAreKept

(* The flag of the overlay, kept when it changed.                              *)
LEMMA PersistKeeps ==
  ASSUME MonitorInv, NEW on \in BOOLEAN, NEW stored \in BOOLEAN, Monitor!Persist(on, stored),
         wanted' = on, phase = "on", UNCHANGED <<phase, x, y, rows, applied, userStyle>>,
         DisplayFits', shown' => on /\ bar' = Monitor!BarPosition(config)
  PROVE  MonitorInv'
<1>1. CASE config.enabled = on
  <2>1. UNCHANGED <<file, config, unsaved>>
    BY <1>1 DEF Monitor!Persist
  <2>2. Monitor!TypeOK'
    BY <2>1 DEF MonitorInv, Monitor!TypeOK, DisplayFits
  <2>3. Monitor!FileIsConfig' /\ Monitor!OverlayIsPlaced'
    BY <1>1, <2>1 DEF MonitorInv, Monitor!OverlaySettingsAreKept, Monitor!FileIsConfig,
       Monitor!OverlayIsPlaced
  <2>4. Monitor!AppliedIsShown' /\ Monitor!UserFilesStay'
    BY <2>1 DEF MonitorInv, Monitor!OverlaySettingsAreKept, Monitor!AppliedIsShown,
       Monitor!UserFilesStay, DisplayFits
  <2>5. QED
    BY <2>2, <2>3, <2>4 DEF MonitorInv, Monitor!OverlaySettingsAreKept
<1>2. CASE config.enabled # on
  <2>1. config' = [config EXCEPT !.enabled = on] /\ Monitor!Store(config', stored)
    BY <1>2 DEF Monitor!Persist
  <2>2. config' = Monitor!Config(on, config.disks, config.x, config.y, config.interval)
    BY <2>1 DEF MonitorInv, Monitor!TypeOK, Monitor!Complete, Monitor!Config
  <2>3. /\ Monitor!Complete(config') /\ config'.enabled = on
        /\ config'.disks = config.disks /\ config'.x = config.x /\ config'.y = config.y
    BY <2>2, ConfigFields
  <2>4. Monitor!Valid(config')
    BY <2>3 DEF Monitor!Valid, MonitorInv, Monitor!OverlaySettingsAreKept, Monitor!FileIsConfig
  <2>5. Monitor!AppliedIsShown'
    BY <2>3 DEF Monitor!AppliedIsShown, MonitorInv, Monitor!OverlaySettingsAreKept
  <2>6. Monitor!OverlayIsPlaced'
    BY <2>3 DEF Monitor!OverlayIsPlaced, Monitor!BarPosition
  <2>7. QED
    BY <2>1, <2>3, <2>4, <2>5, <2>6, StoreKeeps
<1>3. QED
  BY <1>1, <1>2

LEMMA ShowKeeps == MonitorInv /\ Monitor!ShowOverlay => MonitorInv'
<1> SUFFICES ASSUME MonitorInv, Monitor!ShowOverlay PROVE MonitorInv'
  OBVIOUS
<1>1. PICK launched \in BOOLEAN, stored \in BOOLEAN :
        /\ Monitor!Launch(config, launched)
        /\ shown' = launched /\ wanted' = (wanted \/ launched)
        /\ IF launched THEN Monitor!Persist(TRUE, stored)
           ELSE stored /\ UNCHANGED <<file, config, unsaved>>
  BY DEF Monitor!ShowOverlay
<1>2. phase = "on" /\ UNCHANGED <<phase, x, y, rows, applied, userStyle>>
  BY DEF Monitor!ShowOverlay, Monitor!formVars
<1>3. /\ style' \in {"none", "legacy", "bundled", "edited"} /\ (userStyle => style' = "edited")
      /\ bar'.edge \in Monitor!Edges /\ bar'.module \in Monitor!AlignsX
      /\ launched => bar' = Monitor!BarPosition(config)
  BY <1>1, <1>2, DisplayFitsAlways, LaunchPlaces
  DEF MonitorInv, Monitor!OverlaySettingsAreKept, Monitor!FileIsConfig
<1>4. DisplayFits'
  BY <1>1, <1>2, <1>3, DisplayFitsAlways DEF DisplayFits
<1>5. CASE launched
  BY <1>1, <1>2, <1>3, <1>4, <1>5, PersistKeeps
<1>6. CASE ~launched
  <2>1. UNCHANGED <<file, config, unsaved>> /\ shown' = FALSE /\ wanted' = wanted
    BY <1>1, <1>6 DEF MonitorInv, Monitor!TypeOK
  <2>2. Monitor!TypeOK'
    BY <1>2, <1>4, <2>1 DEF MonitorInv, Monitor!TypeOK, DisplayFits
  <2>3. QED
    BY <1>2, <1>4, <2>1, <2>2
    DEF MonitorInv, Monitor!OverlaySettingsAreKept, Monitor!FileIsConfig,
        Monitor!OverlayIsPlaced, Monitor!AppliedIsShown, Monitor!UserFilesStay, DisplayFits
<1>7. QED
  BY <1>5, <1>6

LEMMA HideKeeps == MonitorInv /\ Monitor!HideOverlay => MonitorInv'
<1> SUFFICES ASSUME MonitorInv, Monitor!HideOverlay PROVE MonitorInv'
  OBVIOUS
<1>1. /\ phase = "on" /\ shown' = FALSE /\ wanted' = FALSE
      /\ UNCHANGED <<phase, style, bar, x, y, rows, applied, userStyle>>
  BY DEF Monitor!HideOverlay, Monitor!formVars
<1>2. PICK stored \in BOOLEAN : Monitor!Persist(FALSE, stored)
  BY DEF Monitor!HideOverlay
<1>3. DisplayFits'
  BY <1>1, DisplayFitsAlways DEF DisplayFits
<1>4. QED
  BY <1>1, <1>2, <1>3, PersistKeeps

LEMMA ApplyKeepsSettings == MonitorInv /\ Monitor!Apply => MonitorInv'
<1> SUFFICES ASSUME MonitorInv, Monitor!Apply PROVE MonitorInv'
  OBVIOUS
<1>0. phase = "on" /\ UNCHANGED <<phase, x, y, rows, wanted, userStyle>>
  BY DEF Monitor!Apply, Monitor!formVars
<1>1. CASE UNCHANGED <<file, config, style, bar, shown, applied, unsaved, failures>>
  BY <1>0, <1>1 DEF MonitorInv, Monitor!OverlaySettingsAreKept, Monitor!TypeOK,
     Monitor!FileIsConfig, Monitor!OverlayIsPlaced, Monitor!AppliedIsShown, Monitor!UserFilesStay
<1>2. ASSUME Monitor!Valid(Monitor!Collect), config' = Monitor!Collect, applied' = TRUE,
             NEW stored \in BOOLEAN, NEW written \in BOOLEAN, Monitor!Store(config', stored),
             IF shown THEN Monitor!Launch(config', written) ELSE Monitor!WriteFiles(config', written),
             shown' = (shown /\ written)
      PROVE  MonitorInv'
  <2>1. config' = Monitor!Config(config.enabled, Monitor!DisksOf(Monitor!Filled(rows)), x, y, config.interval)
    BY <1>2 DEF Monitor!Collect, MonitorInv, Monitor!TypeOK, Monitor!Complete, Monitor!Config
  <2>2. config.enabled \in BOOLEAN
    BY DEF MonitorInv, Monitor!TypeOK, Monitor!Complete
  <2>3. /\ Monitor!Complete(config') /\ config'.enabled = config.enabled
        /\ config'.disks = Monitor!DisksOf(Monitor!Filled(rows)) /\ config'.x = x /\ config'.y = y
    BY <2>1, <2>2, ConfigFields
  <2>4. Monitor!RowsOf(Monitor!DisksOf(Monitor!Filled(rows))) = Monitor!RowsOf(Monitor!Filled(rows))
    BY DEF Monitor!RowsOf, Monitor!DisksOf, Monitor!Row, Monitor!Disk
  <2>5. Monitor!AppliedIsShown'
    BY <1>0, <2>3, <2>4 DEF Monitor!AppliedIsShown
  <2>6. /\ style' \in {"none", "legacy", "bundled", "edited"} /\ (userStyle => style' = "edited")
        /\ bar'.edge \in Monitor!Edges /\ bar'.module \in Monitor!AlignsX
        /\ written => bar' = Monitor!BarPosition(config')
    BY <1>2, DisplayFitsAlways, LaunchPlaces
  <2>7. DisplayFits'
    BY <1>0, <1>2, <2>6, DisplayFitsAlways DEF DisplayFits
  <2>8. phase' = "on" /\ config'.enabled = wanted'
    BY <1>0, <2>3 DEF MonitorInv, Monitor!OverlaySettingsAreKept, Monitor!FileIsConfig
  <2>9. Monitor!OverlayIsPlaced'
    BY <1>2, <2>3, <2>6 DEF MonitorInv, Monitor!OverlaySettingsAreKept, Monitor!OverlayIsPlaced
  <2>10. QED
    BY <1>2, <2>3, <2>5, <2>7, <2>8, <2>9, StoreKeeps
<1>3. QED
  BY <1>1, <1>2 DEF Monitor!Apply

(* The form alone changes, and is not what was applied any more.               *)
LEMMA FormKeeps ==
  ASSUME MonitorInv, applied' = FALSE, x' \in Monitor!AlignsX, y' \in Monitor!AlignsY,
         UNCHANGED <<phase, file, config, style, bar, shown, wanted, userStyle, unsaved>>
  PROVE  MonitorInv'
<1>1. Monitor!TypeOK'
  BY DEF MonitorInv, Monitor!TypeOK
<1>2. QED
  BY <1>1 DEF MonitorInv, Monitor!OverlaySettingsAreKept, Monitor!FileIsConfig,
     Monitor!OverlayIsPlaced, Monitor!AppliedIsShown, Monitor!UserFilesStay

LEMMA MonitorInvKept == MonitorInv /\ Monitor!Next => MonitorInv'
<1> SUFFICES ASSUME MonitorInv, Monitor!Next PROVE MonitorInv'
  OBVIOUS
<1>1. CASE Monitor!Quit \/ Monitor!EditStyle
  <2>1. Monitor!TypeOK'
    BY <1>1 DEF Monitor!Quit, Monitor!EditStyle, Monitor!formVars, MonitorInv, Monitor!TypeOK
  <2>2. QED
    BY <1>1, <2>1 DEF Monitor!Quit, Monitor!EditStyle, Monitor!formVars, MonitorInv,
       Monitor!OverlaySettingsAreKept, Monitor!FileIsConfig, Monitor!OverlayIsPlaced,
       Monitor!AppliedIsShown, Monitor!UserFilesStay
<1>2. CASE Monitor!ShowPage
  <2>1. x' \in Monitor!AlignsX /\ y' \in Monitor!AlignsY
    BY <1>2 DEF Monitor!ShowPage, Monitor!Refresh, MonitorInv, Monitor!OverlaySettingsAreKept,
       Monitor!FileIsConfig, Monitor!Valid
  <2>2. QED
    BY <1>2, <2>1, FormKeeps DEF Monitor!ShowPage
<1>3. ASSUME NEW rs, NEW ax \in Monitor!AlignsX, NEW ay \in Monitor!AlignsY,
             Monitor!Fill(rs, ax, ay)
      PROVE  MonitorInv'
  BY <1>3, FormKeeps DEF Monitor!Fill
<1>4. x \in Monitor!AlignsX /\ y \in Monitor!AlignsY
  BY DEF MonitorInv, Monitor!TypeOK
<1>5. CASE Monitor!AddDisk \/ (\E i \in 1..MaxRows : Monitor!RemoveDisk(i))
           \/ (\E i \in 1..MaxRows : \E d \in Monitor!Devices, m \in {Monitor!NotANumber, Monitor!Blank, 0, 1} : Monitor!EditDisk(i, d, m))
           \/ (\E ax \in Monitor!AlignsX, ay \in Monitor!AlignsY : Monitor!Align(ax, ay))
  BY <1>3, <1>4, <1>5 DEF Monitor!AddDisk, Monitor!RemoveDisk, Monitor!EditDisk, Monitor!Align
<1>6. QED
  BY <1>1, <1>2, <1>5, StartKeeps, ShowKeeps, HideKeeps, ApplyKeepsSettings DEF Monitor!Next

-----------------------------------------------------------------------------
(* Lists read from one entry to the next.                                      *)

LEMMA NatInduct ==
  ASSUME NEW N \in Nat, NEW T, 0 \in T, \A n \in 0..(N - 1) : n \in T => n + 1 \in T
  PROVE  \A n \in 0..N : n \in T
<1> SUFFICES ASSUME NEW k \in 0..N, k \notin T PROVE FALSE
  OBVIOUS
<1> DEFINE U == {n \in 0..N : n \notin T}
<1>1. U \subseteq Nat /\ U # {}
  OBVIOUS
<1>2. PICK n \in U : \A m \in U : n <= m
  BY <1>1, NatHasMin
<1>3. n # 0 /\ n - 1 \in 0..(N - 1) /\ n - 1 \notin U
  BY <1>2
<1>4. n - 1 \in T
  BY <1>3
<1>5. QED
  BY <1>2, <1>3, <1>4

(* What is known after n entries, from b on, when R adds one.                  *)
Grows(f, n, b, R) ==
    /\ f = [k \in 0..n |-> f[k]]
    /\ f[0] = b
    /\ \A k \in 1..n : f[k] = R[<<f[k - 1], k>>]

LEMMA GrowsOn ==
  ASSUME NEW N \in Nat, NEW T, NEW b \in T, NEW R \in [T \X (1..N) -> T],
         NEW n \in 0..(N - 1), NEW f \in [0..n -> T], Grows(f, n, b, R)
  PROVE  \E g \in [0..(n + 1) -> T] : Grows(g, n + 1, b, R)
<1> DEFINE final == R[<<f[n], n + 1>>]
           g == [k \in 0..(n + 1) |-> IF k = n + 1 THEN final ELSE f[k]]
<1>1. n + 1 \in 1..N /\ f[n] \in T /\ final \in T
  <2>1. n + 1 \in 1..N /\ n \in 0..n
    OBVIOUS
  <2>2. f[n] \in T
    BY <2>1
  <2>3. QED
    BY <2>1, <2>2
<1>2. g[n + 1] = final
  OBVIOUS
<1>3. \A k \in 0..n : g[k] = f[k]
  OBVIOUS
<1>4. g \in [0..(n + 1) -> T] /\ g = [k \in 0..(n + 1) |-> g[k]]
  BY <1>1
<1> HIDE DEF g
<1>5. g[0] = b
  BY <1>3 DEF Grows
<1>6. ASSUME NEW k \in 1..(n + 1) PROVE g[k] = R[<<g[k - 1], k>>]
  <2>1. CASE k = n + 1
    <3>1. k - 1 = n /\ g[n] = f[n]
      BY <1>3, <2>1
    <3>2. QED
      BY <1>2, <2>1, <3>1
  <2>2. CASE k # n + 1
    <3>1. k \in 1..n /\ k - 1 \in 0..n /\ k \in 0..n
      BY <2>2
    <3>2. f[k] = R[<<f[k - 1], k>>]
      BY <3>1 DEF Grows
    <3>3. QED
      BY <1>3, <3>1, <3>2
  <2>3. QED
    BY <2>1, <2>2
<1>7. Grows(g, n + 1, b, R)
  BY <1>4, <1>5, <1>6 DEF Grows
<1>8. QED
  BY <1>4, <1>7

(* A function that is defined along the numbers exists.                        *)
LEMMA GrowingExists ==
  ASSUME NEW N \in Nat, NEW T, NEW b \in T, NEW R \in [T \X (1..N) -> T]
  PROVE  \E f \in [0..N -> T] : Grows(f, N, b, R)
<1> DEFINE G == {n \in 0..N : \E f \in [0..n -> T] : Grows(f, n, b, R)}
<1>1. 0 \in G
  <2> DEFINE f == [k \in 0..0 |-> b]
  <2>1. f \in [0..0 -> T] /\ f = [k \in 0..0 |-> f[k]] /\ f[0] = b /\ 1..0 = {}
    OBVIOUS
  <2>2. Grows(f, 0, b, R)
    BY <2>1 DEF Grows
  <2>3. QED
    BY <2>1, <2>2
<1>2. ASSUME NEW n \in 0..(N - 1), n \in G PROVE n + 1 \in G
  <2>1. PICK f \in [0..n -> T] : Grows(f, n, b, R)
    BY <1>2
  <2>2. \E g \in [0..(n + 1) -> T] : Grows(g, n + 1, b, R)
    BY <2>1, GrowsOn
  <2>3. QED
    BY <2>2
<1> HIDE DEF G
<1>3. \A n \in 0..N : n \in G
  BY <1>1, <1>2, NatInduct
<1>4. N \in G
  BY <1>3
<1>5. QED
  BY <1>4 DEF G

(* ... and there is one only.                                                  *)
LEMMA GrowingIsOne ==
  ASSUME NEW N \in Nat, NEW b, NEW R, NEW f, NEW g, Grows(f, N, b, R), Grows(g, N, b, R)
  PROVE  \A n \in 0..N : f[n] = g[n]
<1> DEFINE U == {n \in 0..N : f[n] = g[n]}
<1>1. 0 \in U
  BY DEF Grows
<1>2. ASSUME NEW n \in 0..(N - 1), n \in U PROVE n + 1 \in U
  <2>1. n + 1 \in 1..N /\ n + 1 \in 0..N /\ (n + 1) - 1 = n
    OBVIOUS
  <2>2. f[n + 1] = R[<<f[n], n + 1>>] /\ g[n + 1] = R[<<g[n], n + 1>>]
    BY <2>1 DEF Grows
  <2>3. QED
    BY <1>2, <2>1, <2>2
<1> HIDE DEF U
<1>3. \A n \in 0..N : n \in U
  BY <1>1, <1>2, NatInduct
<1>4. QED
  BY <1>3 DEF U

-----------------------------------------------------------------------------
(* Choosing from a list.                                                       *)

ThoseUpTo(f, s, S) ==
    f = [n \in 0..Len(s) |-> IF n = 0 THEN <<>>
                             ELSE IF s[n] \in S THEN Append(f[n - 1], s[n]) ELSE f[n - 1]]

LEMMA ThoseIsRead ==
  ASSUME NEW E, NEW s \in Seq(E), NEW S
  PROVE  \E f \in [0..Len(s) -> Seq(E)] : ThoseUpTo(f, s, S) /\ Those(s, S) = f[Len(s)]
<1> DEFINE T == Seq(E)
           N == Len(s)
           R == [p \in T \X (1..N) |-> IF s[p[2]] \in S THEN Append(p[1], s[p[2]]) ELSE p[1]]
<1>1. N \in Nat /\ <<>> \in T
  OBVIOUS
<1>2. \A i \in 1..N : s[i] \in E
  OBVIOUS
<1>3. \A l \in T, i \in 1..N : Append(l, s[i]) \in T
  BY <1>2
<1>4. ASSUME NEW l \in T, NEW i \in 1..N
      PROVE  R[<<l, i>>] = IF s[i] \in S THEN Append(l, s[i]) ELSE l
  BY <1>4
<1>5. R \in [T \X (1..N) -> T]
  <2>1. ASSUME NEW p \in T \X (1..N)
        PROVE  (IF s[p[2]] \in S THEN Append(p[1], s[p[2]]) ELSE p[1]) \in T
    <3>1. p[1] \in T /\ p[2] \in 1..N
      OBVIOUS
    <3>2. QED
      BY <1>3, <3>1
  <2>2. QED
    BY <2>1
<1> HIDE DEF R, T, N
<1>6. \E f \in [0..N -> T] : Grows(f, N, <<>>, R)
  BY <1>1, <1>5, GrowingExists
<1>7. PICK f \in [0..N -> T] : Grows(f, N, <<>>, R)
  BY <1>6
<1>8. ThoseUpTo(f, s, S)
  <2> DEFINE g == [n \in 0..N |-> IF n = 0 THEN <<>>
                             ELSE IF s[n] \in S THEN Append(f[n - 1], s[n]) ELSE f[n - 1]]
  <2>1. ASSUME NEW n \in 0..N PROVE f[n] = g[n]
    <3>1. CASE n = 0
      BY <1>7, <3>1 DEF Grows
    <3>2. CASE n # 0
      <4>1. n \in 1..N /\ n - 1 \in 0..N
        BY <1>1, <3>2
      <4>2. f[n] = R[<<f[n - 1], n>>] /\ f[n - 1] \in T
        BY <1>7, <4>1 DEF Grows
      <4>3. QED
        BY <1>4, <3>2, <4>1, <4>2
    <3>3. QED
      BY <3>1, <3>2
  <2>2. f = g
    BY <2>1
  <2>3. QED
    BY <2>2 DEF ThoseUpTo, N
<1>9. \A g : ThoseUpTo(g, s, S) => \A n \in 0..N : g[n] = f[n]
  <2> SUFFICES ASSUME NEW g, ThoseUpTo(g, s, S) PROVE \A n \in 0..N : g[n] = f[n]
    OBVIOUS
  <2> DEFINE U == {n \in 0..N : g[n] = f[n]}
  <2>1. 0 \in U
    BY <1>1, <1>8 DEF ThoseUpTo, N
  <2>2. ASSUME NEW n \in 0..(N - 1), n \in U PROVE n + 1 \in U
    <3>1. n + 1 \in 0..N /\ n + 1 # 0 /\ (n + 1) - 1 = n
      BY <1>1
    <3>2. /\ g[n + 1] = IF s[n + 1] \in S THEN Append(g[n], s[n + 1]) ELSE g[n]
          /\ f[n + 1] = IF s[n + 1] \in S THEN Append(f[n], s[n + 1]) ELSE f[n]
      BY <1>8, <3>1 DEF ThoseUpTo, N
    <3>3. QED
      BY <2>2, <3>1, <3>2
  <2> HIDE DEF U
  <2>3. \A n \in 0..N : n \in U
    BY <1>1, <2>1, <2>2, NatInduct
  <2>4. QED
    BY <2>3 DEF U
<1>10. Those(s, S) = f[N]
  <2> DEFINE h == CHOOSE g : ThoseUpTo(g, s, S)
  <2>1. ThoseUpTo(h, s, S)
    BY <1>8
  <2>2. Those(s, S) = h[Len(s)]
    BY DEF Those, ThoseUpTo
  <2> HIDE DEF h
  <2>3. QED
    BY <1>1, <1>9, <2>1, <2>2 DEF N
<1>11. QED
  BY <1>8, <1>10 DEF N, T

(* Each entry in turn is kept or left.                                         *)
LEMMA ThoseStep ==
  ASSUME NEW E, NEW s \in Seq(E), NEW S, NEW f, ThoseUpTo(f, s, S)
  PROVE  /\ f[0] = <<>>
         /\ \A n \in 0..(Len(s) - 1) :
              f[n + 1] = IF s[n + 1] \in S THEN Append(f[n], s[n + 1]) ELSE f[n]
<1>1. Len(s) \in Nat
  OBVIOUS
<1>2. f[0] = <<>>
  BY <1>1 DEF ThoseUpTo
<1>3. ASSUME NEW n \in 0..(Len(s) - 1)
      PROVE  f[n + 1] = IF s[n + 1] \in S THEN Append(f[n], s[n + 1]) ELSE f[n]
  <2>1. n + 1 \in 0..Len(s) /\ n + 1 # 0 /\ (n + 1) - 1 = n
    BY <1>1
  <2>2. QED
    BY <2>1 DEF ThoseUpTo
<1>4. QED
  BY <1>2, <1>3

(* Two choices that agree on the entries up to some place.                     *)
LEMMA ThoseAgree ==
  ASSUME NEW E, NEW s \in Seq(E), NEW S, NEW f, ThoseUpTo(f, s, S),
         NEW F, NEW t \in Seq(F), NEW T, NEW g, ThoseUpTo(g, t, T),
         NEW N \in Nat, N <= Len(s), N <= Len(t),
         \A i \in 1..N : s[i] = t[i] /\ (s[i] \in S <=> t[i] \in T)
  PROVE  \A n \in 0..N : f[n] = g[n]
<1> DEFINE U == {n \in 0..N : f[n] = g[n]}
<1>1. 0 \in U
  BY ThoseStep
<1>2. ASSUME NEW n \in 0..(N - 1), n \in U PROVE n + 1 \in U
  <2>1. n \in 0..(Len(s) - 1) /\ n \in 0..(Len(t) - 1) /\ n + 1 \in 1..N /\ n + 1 \in 0..N
    OBVIOUS
  <2>2. f[n + 1] = IF s[n + 1] \in S THEN Append(f[n], s[n + 1]) ELSE f[n]
    BY <2>1, ThoseStep
  <2>3. g[n + 1] = IF t[n + 1] \in T THEN Append(g[n], t[n + 1]) ELSE g[n]
    BY <2>1, ThoseStep
  <2>4. QED
    BY <1>2, <2>1, <2>2, <2>3
<1> HIDE DEF U
<1>3. \A n \in 0..N : n \in U
  BY <1>1, <1>2, NatInduct
<1>4. QED
  BY <1>3 DEF U

LEMMA ThoseOfNone == ASSUME NEW S PROVE Those(<<>>, S) = <<>>
<1>1. <<>> \in Seq({}) /\ Len(<<>>) = 0
  OBVIOUS
<1>2. \E f \in [0..Len(<<>>) -> Seq({})] : ThoseUpTo(f, <<>>, S) /\ Those(<<>>, S) = f[Len(<<>>)]
  BY <1>1, ThoseIsRead
<1>3. PICK f : ThoseUpTo(f, <<>>, S) /\ Those(<<>>, S) = f[0]
  BY <1>1, <1>2
<1>4. f[0] = <<>>
  BY <1>1, <1>3 DEF ThoseUpTo
<1>5. QED
  BY <1>3, <1>4

(* One entry more.                                                             *)
LEMMA ThoseOneMore ==
  ASSUME NEW E, NEW s \in Seq(E), NEW t \in Seq(E), NEW N \in Nat, N = Len(s), Len(t) = N + 1,
         \A i \in 1..N : t[i] = s[i], NEW S
  PROVE  Those(t, S) = IF t[N + 1] \in S THEN Append(Those(s, S), t[N + 1]) ELSE Those(s, S)
<1>1. PICK f : ThoseUpTo(f, s, S) /\ Those(s, S) = f[Len(s)]
  BY ThoseIsRead
<1>2. PICK g : ThoseUpTo(g, t, S) /\ Those(t, S) = g[Len(t)]
  BY ThoseIsRead
<1>3. /\ f[0] = <<>>
      /\ \A n \in 0..(Len(s) - 1) :
           f[n + 1] = IF s[n + 1] \in S THEN Append(f[n], s[n + 1]) ELSE f[n]
  BY <1>1, ThoseStep
<1>4. /\ g[0] = <<>>
      /\ \A n \in 0..(Len(t) - 1) :
           g[n + 1] = IF t[n + 1] \in S THEN Append(g[n], t[n + 1]) ELSE g[n]
  BY <1>2, ThoseStep
<1> DEFINE U == {n \in 0..N : f[n] = g[n]}
<1>5. 0 \in U
  BY <1>3, <1>4
<1>6. ASSUME NEW n \in 0..(N - 1), n \in U PROVE n + 1 \in U
  <2>1. n \in 0..(Len(s) - 1) /\ n \in 0..(Len(t) - 1) /\ n + 1 \in 1..N /\ n + 1 \in 0..N
    OBVIOUS
  <2>2. f[n + 1] = IF s[n + 1] \in S THEN Append(f[n], s[n + 1]) ELSE f[n]
    BY <2>1, <1>3
  <2>3. g[n + 1] = IF s[n + 1] \in S THEN Append(g[n], s[n + 1]) ELSE g[n]
    BY <2>1, <1>4
  <2>4. QED
    BY <1>6, <2>1, <2>2, <2>3
<1> HIDE DEF U
<1>7. \A n \in 0..N : n \in U
  BY <1>5, <1>6, NatInduct
<1>8. N \in U /\ N \in 0..(Len(t) - 1)
  BY <1>7
<1>9. g[N + 1] = IF t[N + 1] \in S THEN Append(g[N], t[N + 1]) ELSE g[N]
  BY <1>4, <1>8
<1>10. QED
  BY <1>1, <1>2, <1>8, <1>9 DEF U

LEMMA ThoseAppend ==
  ASSUME NEW E, NEW s \in Seq(E), NEW e \in E, NEW S
  PROVE  Those(Append(s, e), S) = IF e \in S THEN Append(Those(s, S), e) ELSE Those(s, S)
<1>1. /\ Append(s, e) \in Seq(E) /\ Len(s) \in Nat /\ Len(Append(s, e)) = Len(s) + 1
      /\ Append(s, e)[Len(s) + 1] = e
      /\ \A i \in 1..Len(s) : Append(s, e)[i] = s[i]
  OBVIOUS
<1>2. \A t \in Seq(E), n \in Nat :
        n = Len(s) /\ Len(t) = n + 1 /\ (\A i \in 1..n : t[i] = s[i])
          => Those(t, S) = IF t[n + 1] \in S THEN Append(Those(s, S), t[n + 1]) ELSE Those(s, S)
  BY ThoseOneMore
<1> DEFINE u == Append(s, e)
           L == Len(s)
<1>3. u \in Seq(E) /\ L \in Nat /\ L = Len(s) /\ Len(u) = L + 1 /\ u[L + 1] = e
      /\ \A i \in 1..L : u[i] = s[i]
  BY <1>1
<1> HIDE DEF u, L
<1>4. Those(u, S) = IF u[L + 1] \in S THEN Append(Those(s, S), u[L + 1]) ELSE Those(s, S)
  BY <1>2, <1>3
<1>5. QED
  BY <1>3, <1>4 DEF u

(* Only the entries of the list matter.                                        *)
LEMMA ThoseReads ==
  ASSUME NEW E, NEW s \in Seq(E), NEW S
  PROVE  \E f : /\ f[0] = <<>> /\ Those(s, S) = f[Len(s)]
               /\ \A n \in 0..(Len(s) - 1) :
                    f[n + 1] = IF s[n + 1] \in S THEN Append(f[n], s[n + 1]) ELSE f[n]
<1>1. PICK f \in [0..Len(s) -> Seq(E)] : ThoseUpTo(f, s, S) /\ Those(s, S) = f[Len(s)]
  BY ThoseIsRead
<1>2. f[0] = <<>>
  BY <1>1, ThoseStep
<1>3. \A n \in 0..(Len(s) - 1) : f[n + 1] = IF s[n + 1] \in S THEN Append(f[n], s[n + 1]) ELSE f[n]
  <2>1. ThoseUpTo(f, s, S)
    BY <1>1
  <2>2. QED
    BY <2>1, ThoseStep
<1>4. QED
  BY <1>1, <1>2, <1>3

LEMMA ThoseSame ==
  ASSUME NEW E, NEW s \in Seq(E), NEW S, NEW T, \A i \in 1..Len(s) : s[i] \in S <=> s[i] \in T
  PROVE  Those(s, S) = Those(s, T)
<1>1. PICK f : /\ f[0] = <<>> /\ Those(s, S) = f[Len(s)]
               /\ \A n \in 0..(Len(s) - 1) :
                    f[n + 1] = IF s[n + 1] \in S THEN Append(f[n], s[n + 1]) ELSE f[n]
  BY ThoseReads
<1>2. PICK g : /\ g[0] = <<>> /\ Those(s, T) = g[Len(s)]
               /\ \A n \in 0..(Len(s) - 1) :
                    g[n + 1] = IF s[n + 1] \in T THEN Append(g[n], s[n + 1]) ELSE g[n]
  BY ThoseReads
<1>3. Len(s) \in Nat
  OBVIOUS
<1> DEFINE U == {n \in 0..Len(s) : f[n] = g[n]}
<1>4. 0 \in U
  BY <1>1, <1>2, <1>3
<1>5. ASSUME NEW n \in 0..(Len(s) - 1), n \in U PROVE n + 1 \in U
  BY <1>1, <1>2, <1>3, <1>5
<1> HIDE DEF U
<1>6. \A n \in 0..Len(s) : n \in U
  BY <1>3, <1>4, <1>5, NatInduct
<1>7. QED
  BY <1>1, <1>2, <1>3, <1>6 DEF U

(* A part of a list: its entries have places that go up.                       *)
Picks(p, t, s, n, S) ==
    /\ p \in [1..Len(t) -> 1..n]
    /\ \A k, m \in 1..Len(t) : k < m => p[k] < p[m]
    /\ \A k \in 1..Len(t) : t[k] = s[p[k]] /\ s[p[k]] \in S
    /\ \A i \in 1..n : s[i] \in S => \E k \in 1..Len(t) : p[k] = i

LEMMA PickOne ==
  ASSUME NEW E, NEW s \in Seq(E), NEW t \in Seq(E), NEW S, NEW n \in 0..(Len(s) - 1), NEW p,
         Picks(p, t, s, n, S), s[n + 1] \in S
  PROVE  \E q : Picks(q, Append(t, s[n + 1]), s, n + 1, S)
<1> DEFINE u == Append(t, s[n + 1])
           L == Len(t)
           q == [k \in 1..(L + 1) |-> IF k = L + 1 THEN n + 1 ELSE p[k]]
<1>1. L \in Nat /\ Len(u) = L + 1 /\ u[L + 1] = s[n + 1] /\ \A k \in 1..L : u[k] = t[k]
  <2>1. s[n + 1] \in E
    OBVIOUS
  <2>2. QED
    BY <2>1
<1>2. q[L + 1] = n + 1 /\ (\A k \in 1..L : q[k] = p[k]) /\ q \in [1..(L + 1) -> 1..(n + 1)]
  BY <1>1 DEF Picks
<1> HIDE DEF q, u
<1>3. \A k, m \in 1..(L + 1) : k < m => q[k] < q[m]
  <2> SUFFICES ASSUME NEW k \in 1..(L + 1), NEW m \in 1..(L + 1), k < m PROVE q[k] < q[m]
    OBVIOUS
  <2>1. k \in 1..L
    BY <1>1
  <2>2. q[k] = p[k] /\ p[k] \in 1..n
    BY <1>2, <2>1 DEF Picks
  <2>3. CASE m = L + 1
    BY <1>2, <2>2, <2>3
  <2>4. CASE m # L + 1
    <3>0. m \in 1..L
      BY <1>1, <2>4
    <3>1. m \in 1..L /\ q[m] = p[m]
      BY <1>2, <3>0
    <3>2. p[k] < p[m]
      BY <2>1, <3>1 DEF Picks
    <3>3. QED
      BY <2>2, <3>1, <3>2
  <2>5. QED
    BY <2>3, <2>4
<1>4. \A k \in 1..(L + 1) : u[k] = s[q[k]] /\ s[q[k]] \in S
  <2> SUFFICES ASSUME NEW k \in 1..(L + 1) PROVE u[k] = s[q[k]] /\ s[q[k]] \in S
    OBVIOUS
  <2>1. CASE k = L + 1
    BY <1>1, <1>2, <2>1
  <2>2. CASE k # L + 1
    <3>1. k \in 1..L
      BY <1>1, <2>2
    <3>2. QED
      BY <1>1, <1>2, <3>1 DEF Picks
  <2>3. QED
    BY <2>1, <2>2
<1>5. \A i \in 1..(n + 1) : s[i] \in S => \E k \in 1..(L + 1) : q[k] = i
  <2> SUFFICES ASSUME NEW i \in 1..(n + 1), s[i] \in S PROVE \E k \in 1..(L + 1) : q[k] = i
    OBVIOUS
  <2>1. CASE i = n + 1
    BY <1>1, <1>2, <2>1
  <2>2. CASE i # n + 1
    <3>1. i \in 1..n
      BY <2>2
    <3>2. PICK k \in 1..L : p[k] = i
      BY <3>1 DEF Picks
    <3>3. QED
      BY <1>1, <1>2, <3>2
  <2>3. QED
    BY <2>1, <2>2
<1>6. Len(u) = L + 1 /\ q \in [1..(L + 1) -> 1..(n + 1)]
  BY <1>1, <1>2
<1>7. Picks(q, u, s, n + 1, S)
  BY <1>3, <1>4, <1>5, <1>6 DEF Picks
<1>8. QED
  BY <1>7 DEF u

LEMMA ThosePicks ==
  ASSUME NEW E, NEW s \in Seq(E), NEW S
  PROVE  /\ Those(s, S) \in Seq(E)
         /\ Len(Those(s, S)) <= Len(s)
         /\ \E p : Picks(p, Those(s, S), s, Len(s), S)
<1> DEFINE N == Len(s)
<1>1. PICK f \in [0..Len(s) -> Seq(E)] : ThoseUpTo(f, s, S) /\ Those(s, S) = f[Len(s)]
  BY ThoseIsRead
<1> DEFINE U == {n \in 0..N : Len(f[n]) <= n /\ \E p : Picks(p, f[n], s, n, S)}
<1>2. N \in Nat /\ \A n \in 0..N : f[n] \in Seq(E)
  OBVIOUS
<1>3. 0 \in U
  <2>1. f[0] = <<>>
    BY <1>1, ThoseStep
  <2> DEFINE p == [k \in 1..0 |-> 0]
  <2>2. Len(<<>>) = 0 /\ 1..0 = {} /\ p \in [1..0 -> 1..0]
    OBVIOUS
  <2>3. Picks(p, <<>>, s, 0, S)
    BY <2>2 DEF Picks
  <2>4. QED
    BY <1>2, <2>1, <2>2, <2>3
<1>4. ASSUME NEW n \in 0..(N - 1), n \in U PROVE n + 1 \in U
  <2>1. f[n + 1] = IF s[n + 1] \in S THEN Append(f[n], s[n + 1]) ELSE f[n]
    BY <1>1, ThoseStep
  <2>2. PICK p : Picks(p, f[n], s, n, S)
    BY <1>4
  <2>3. f[n] \in Seq(E) /\ Len(f[n]) <= n /\ Len(f[n]) \in Nat /\ s[n + 1] \in E /\ n + 1 \in 0..N
    BY <1>2, <1>4
  <2>4. CASE s[n + 1] \in S
    <3>1. \E q : Picks(q, Append(f[n], s[n + 1]), s, n + 1, S)
      BY <2>2, <2>3, <2>4, PickOne
    <3>2. Len(Append(f[n], s[n + 1])) = Len(f[n]) + 1
      BY <2>3
    <3>3. f[n + 1] = Append(f[n], s[n + 1])
      BY <2>1, <2>4
    <3>4. Len(f[n + 1]) <= n + 1
      BY <2>3, <3>2, <3>3
    <3>5. QED
      BY <2>3, <3>1, <3>3, <3>4
  <2>5. CASE s[n + 1] \notin S
    <3>1. 1..n \subseteq 1..(n + 1) /\ \A i \in 1..(n + 1) : i = n + 1 \/ i \in 1..n
      OBVIOUS
    <3>2. Picks(p, f[n], s, n + 1, S)
      BY <2>2, <2>3, <2>5, <3>1 DEF Picks
    <3>3. QED
      BY <2>1, <2>3, <2>5, <3>2
  <2>6. QED
    BY <2>4, <2>5
<1> HIDE DEF U
<1>5. \A n \in 0..N : n \in U
  BY <1>2, <1>3, <1>4, NatInduct
<1>6. N \in U
  BY <1>2, <1>5
<1>7. QED
  BY <1>1, <1>2, <1>6 DEF U

-----------------------------------------------------------------------------
(* The macro editor: steps, the dialogs over it, and recordings.               *)

LEMMA EditorLimits ==
  /\ MaxSteps \in Nat /\ MinGap \in Nat /\ MaxDelay \in Nat /\ MaxDelay >= 1 /\ MinGap <= MaxDelay
  /\ MaxCount \in Nat /\ MaxCount >= 1 /\ Times \subseteq Int
  BY GuiAssumption DEF Editor!EditorAssumption

LEMMA OpenedFit ==
  ASSUME NEW m \in OpenedMacros
  PROVE  /\ m.steps \in Seq(Editor!Steps) /\ m.trigger \in Editor!Triggers /\ m.mode \in Editor!Modes
         /\ m.count \in Int /\ m.count # Editor!NoCount
         /\ Len(m.steps) <= MaxSteps /\ (m.mode = "times" => m.count \in 1..MaxCount)
<1>1. m \in [steps : Seq(Editor!Steps), trigger : Editor!Triggers, mode : Editor!Modes, count : Int \ {Editor!NoCount}]
  BY GuiAssumption DEF Editor!EditorAssumption
<1>2. QED
  BY <1>1, GuiAssumption DEF Editor!EditorAssumption

LEMMA ThoseOfEditor == ASSUME NEW s, NEW S PROVE Editor!Those(s, S) = Those(s, S)
  BY DEF Editor!Those, Those

(* What the step dialog can hold.                                              *)
FieldSets ==
    [kind : {"key", "mouse", "wheel", "delay", "app"}, code : Editor!ValidCodes \cup {Editor!Unknown},
     action : Editor!Actions, mouse : Editor!MouseButtons, wheel : {"up", "down"}, ms : 0..MaxDelay,
     app : Editor!AppActions]

LEMMA StepKinds ==
  ASSUME NEW s
  PROVE  s \in Editor!Steps <=>
           \/ \E c \in Editor!ValidCodes \cup {Editor!Unknown}, a \in Editor!Actions : s = Editor!Key(c, a)
           \/ \E d \in {"up", "down"} : s = Editor!Wheel(d)
           \/ \E n \in 0..MaxDelay : s = Editor!Delay(n)
           \/ s = Editor!App("toggle_sysmon")
  BY DEF Editor!Steps, Editor!AppActions

LEMMA KeyFields ==
  ASSUME NEW c \in Editor!ValidCodes \cup {Editor!Unknown}, NEW a \in Editor!Actions
  PROVE  LET f == Editor!Fields(Editor!Key(c, a))
         IN f \in FieldSets /\ Editor!StepOf(f) = Editor!Key(c, a)
<1> DEFINE s == Editor!Key(c, a)
           f == Editor!Fields(s)
<1>1. s = [type |-> "key", code |-> c, action |-> a, ms |-> 0]
  BY DEF Editor!Key, Editor!Step
<1>2. s.type = "key" /\ s.code = c /\ s.action = a
  BY <1>1
<1> HIDE DEF s
<1>3. Editor!StepKind(s) = IF c \in Editor!MouseButtons THEN "mouse" ELSE "key"
  BY <1>2 DEF Editor!StepKind
<1>4. f = [kind |-> IF c \in Editor!MouseButtons THEN "mouse" ELSE "key", code |-> c, action |-> a,
           mouse |-> IF c \in Editor!MouseButtons THEN c ELSE "BTN_LEFT", wheel |-> "up", ms |-> 1,
           app |-> "toggle_sysmon"]
  BY <1>2, <1>3 DEF Editor!Fields
<1> HIDE DEF f
<1>5. f \in FieldSets
  BY <1>4, EditorLimits DEF FieldSets, Editor!MouseButtons, Editor!AppActions
<1>6. Editor!StepOf(f) = Editor!Key(c, a)
  <2>1. CASE c \in Editor!MouseButtons
    BY <1>4, <2>1 DEF Editor!StepOf
  <2>2. CASE c \notin Editor!MouseButtons
    BY <1>4, <2>2 DEF Editor!StepOf
  <2>3. QED
    BY <2>1, <2>2
<1>7. QED
  BY <1>5, <1>6 DEF f, s

LEMMA OtherFields ==
  ASSUME NEW s,
         \/ \E d \in {"up", "down"} : s = Editor!Wheel(d)
         \/ \E n \in 0..MaxDelay : s = Editor!Delay(n)
         \/ s = Editor!App("toggle_sysmon")
  PROVE  Editor!Fields(s) \in FieldSets /\ Editor!StepOf(Editor!Fields(s)) = s
<1> DEFINE f == Editor!Fields(s)
<1>1. ASSUME NEW d \in {"up", "down"}, s = Editor!Wheel(d) PROVE f \in FieldSets /\ Editor!StepOf(f) = s
  <2>1. s.type = "wheel" /\ s.code = d
    BY <1>1 DEF Editor!Wheel, Editor!Step
  <2>2. f = [kind |-> "wheel", code |-> "KEY_A", action |-> "tap", mouse |-> "BTN_LEFT", wheel |-> d, ms |-> 1,
             app |-> "toggle_sysmon"]
    BY <2>1 DEF Editor!Fields, Editor!StepKind
  <2> HIDE DEF f
  <2>3. f \in FieldSets
    BY <2>2, EditorLimits DEF FieldSets, Editor!MouseButtons, Editor!AppActions, Editor!ValidCodes, Editor!Actions
  <2>4. QED
    BY <1>1, <2>2, <2>3 DEF Editor!StepOf
<1>2. ASSUME NEW n \in 0..MaxDelay, s = Editor!Delay(n) PROVE f \in FieldSets /\ Editor!StepOf(f) = s
  <2>1. s.type = "delay" /\ s.ms = n
    BY <1>2 DEF Editor!Delay, Editor!Step
  <2>2. f = [kind |-> "delay", code |-> "KEY_A", action |-> "tap", mouse |-> "BTN_LEFT", wheel |-> "up", ms |-> n,
             app |-> "toggle_sysmon"]
    BY <2>1 DEF Editor!Fields, Editor!StepKind
  <2> HIDE DEF f
  <2>3. f \in FieldSets
    BY <2>2, EditorLimits DEF FieldSets, Editor!MouseButtons, Editor!AppActions, Editor!ValidCodes, Editor!Actions
  <2>4. QED
    BY <1>2, <2>2, <2>3 DEF Editor!StepOf
<1>3. ASSUME s = Editor!App("toggle_sysmon") PROVE f \in FieldSets /\ Editor!StepOf(f) = s
  <2>1. s.type = "app" /\ s.code = "toggle_sysmon"
    BY <1>3 DEF Editor!App, Editor!Step
  <2>2. f = [kind |-> "app", code |-> "KEY_A", action |-> "tap", mouse |-> "BTN_LEFT", wheel |-> "up", ms |-> 1,
             app |-> "toggle_sysmon"]
    BY <2>1 DEF Editor!Fields, Editor!StepKind
  <2> HIDE DEF f
  <2>3. f \in FieldSets
    BY <2>2, EditorLimits DEF FieldSets, Editor!MouseButtons, Editor!AppActions, Editor!ValidCodes, Editor!Actions
  <2>4. QED
    BY <1>3, <2>2, <2>3 DEF Editor!StepOf
<1>4. QED
  BY <1>1, <1>2, <1>3

(* A step that is opened and accepted without an input stays as it is.         *)
LEMMA StepsRoundTrip ==
  ASSUME NEW s \in Editor!Steps
  PROVE  Editor!Fields(s) \in FieldSets /\ Editor!StepOf(Editor!Fields(s)) = s
  BY KeyFields, OtherFields, StepKinds

LEMMA StepsOfFields ==
  ASSUME NEW f \in FieldSets
  PROVE  Editor!StepOf(f) \in Editor!Steps
<1>1. /\ f.kind \in {"key", "mouse", "wheel", "delay", "app"}
      /\ f.code \in Editor!ValidCodes \cup {Editor!Unknown} /\ f.action \in Editor!Actions
      /\ f.mouse \in Editor!MouseButtons /\ f.wheel \in {"up", "down"} /\ f.ms \in 0..MaxDelay
      /\ f.app = "toggle_sysmon"
  BY DEF FieldSets, Editor!AppActions
<1>2. CASE f.kind = "mouse"
  <2>1. Editor!StepOf(f) = Editor!Key(f.mouse, f.action) /\ f.mouse \in Editor!ValidCodes
    BY <1>1, <1>2 DEF Editor!StepOf, Editor!ValidCodes
  <2>2. QED
    BY <1>1, <2>1, StepKinds
<1>3. CASE f.kind = "wheel"
  BY <1>1, <1>3, StepKinds DEF Editor!StepOf
<1>4. CASE f.kind = "delay"
  BY <1>1, <1>4, StepKinds DEF Editor!StepOf
<1>5. CASE f.kind = "app"
  BY <1>1, <1>5, StepKinds DEF Editor!StepOf
<1>6. CASE f.kind = "key"
  BY <1>1, <1>6, StepKinds DEF Editor!StepOf
<1>7. QED
  BY <1>1, <1>2, <1>3, <1>4, <1>5, <1>6

LEMMA InputsStayFields ==
  ASSUME NEW f \in FieldSets
  PROVE  Editor!FieldInputs(f) \subseteq FieldSets
  BY EditorLimits DEF FieldSets, Editor!FieldInputs, Editor!ValidCodes, Editor!Unknown, Editor!Actions,
     Editor!MouseButtons, Editor!AppActions

LEMMA StepTypes ==
  /\ \A c, a : Editor!Key(c, a).type = "key"
  /\ \A d : Editor!Wheel(d).type = "wheel"
  /\ \A n : Editor!Delay(n).type = "delay" /\ Editor!Delay(n).ms = n
  /\ \A a : Editor!App(a).type = "app"
  /\ \A s \in Editor!Steps : s.type \in {"key", "wheel", "delay", "app"}
<1>1. \A c, a : Editor!Key(c, a).type = "key"
  BY DEF Editor!Key, Editor!Step
<1>2. \A d : Editor!Wheel(d).type = "wheel"
  BY DEF Editor!Wheel, Editor!Step
<1>3. \A n : Editor!Delay(n).type = "delay" /\ Editor!Delay(n).ms = n
  BY DEF Editor!Delay, Editor!Step
<1>4. \A a : Editor!App(a).type = "app"
  BY DEF Editor!App, Editor!Step
<1>5. \A s \in Editor!Steps : s.type \in {"key", "wheel", "delay", "app"}
  BY <1>1, <1>2, <1>3, <1>4, StepKinds
<1>6. QED
  BY <1>1, <1>2, <1>3, <1>4, <1>5

(* The checked rows, in their order.                                           *)
LEMMA CheckedFit ==
  ASSUME NEW rec \in Seq(Editor!Steps), NEW ticks
  PROVE  Editor!Checked(rec, ticks) \in Seq(Editor!Steps) /\ Len(Editor!Checked(rec, ticks)) <= Len(rec)
<1> DEFINE ids == [i \in DOMAIN rec |-> i]
           those == Editor!Those(ids, ticks)
           out == [k \in DOMAIN those |-> rec[those[k]]]
<1>1. Len(rec) \in Nat /\ DOMAIN rec = 1..Len(rec) /\ \A i \in 1..Len(rec) : rec[i] \in Editor!Steps
  OBVIOUS
<1>2. ids \in [1..Len(rec) -> 1..Len(rec)]
  BY <1>1
<1>3. ids \in Seq(1..Len(rec)) /\ Len(ids) = Len(rec)
  BY <1>1, <1>2
<1> HIDE DEF ids
<1>4. those \in Seq(1..Len(rec)) /\ Len(those) <= Len(rec)
  BY <1>3, ThosePicks, ThoseOfEditor
<1> HIDE DEF those
<1>5. Len(those) \in Nat /\ DOMAIN those = 1..Len(those) /\ \A k \in 1..Len(those) : those[k] \in 1..Len(rec)
  BY <1>4
<1>6. out \in [1..Len(those) -> Editor!Steps]
  BY <1>1, <1>5
<1>7. out \in Seq(Editor!Steps) /\ Len(out) = Len(those)
  BY <1>5, <1>6
<1>8. Editor!Checked(rec, ticks) = out
  BY DEF Editor!Checked, ids, those
<1>9. QED
  BY <1>4, <1>7, <1>8

(* The list is filled anew: what it must be before the row is chosen.          *)
ListInv ==
    /\ steps \in Seq(Editor!Steps) /\ Len(steps) <= MaxSteps
    /\ current \in DOMAIN steps \cup {0} /\ chosen \subseteq DOMAIN steps
    /\ okEnabled = Editor!IsValid(Editor!Macro)

LEMMA RefreshFills ==
  ASSUME NEW st \in Seq(Editor!Steps), Len(st) <= MaxSteps, NEW at, Editor!Refresh(st, at)
  PROVE  ListInv' /\ UNCHANGED <<trigger, mode, spin, keptCount, countEdited>> /\ steps' = st
<1>1. /\ steps' = st
      /\ current' = IF at \in DOMAIN st THEN at ELSE 0
      /\ chosen' = IF at \in DOMAIN st THEN {at} ELSE {}
      /\ UNCHANGED <<trigger, mode, spin, keptCount, countEdited>>
      /\ okEnabled' = Editor!IsValid(Editor!Edited(steps', trigger', mode', spin', keptCount'))
  BY DEF Editor!Refresh, Editor!Validate, Editor!repeatVars
<1>2. okEnabled' = Editor!IsValid(Editor!Macro)'
  BY <1>1 DEF Editor!Macro, Editor!IsValid, Editor!Edited, Editor!Count
<1>3. QED
  BY <1>1, <1>2 DEF ListInv

LEMMA InsertFills ==
  ASSUME ListInv, NEW new \in Seq(Editor!Steps), Editor!Insert(new)
  PROVE  ListInv' /\ UNCHANGED <<trigger, mode, spin, keptCount, countEdited>>
<1> DEFINE at == IF current = 0 THEN Len(steps) ELSE current
           room == MaxSteps - Len(steps)
           fit == IF Len(new) > room THEN SubSeq(new, 1, room) ELSE new
           a == SubSeq(steps, 1, at)
           b == SubSeq(steps, at + 1, Len(steps))
<1>1. Len(steps) \in Nat /\ DOMAIN steps = 1..Len(steps) /\ at \in 0..Len(steps) /\ room \in Nat
  BY EditorLimits DEF ListInv
<1>2. fit \in Seq(Editor!Steps) /\ Len(fit) <= room /\ Len(fit) \in Nat
  <2>1. CASE Len(new) > room
    <3>1. room \in 0..Len(new)
      BY <1>1, <2>1
    <3>2. SubSeq(new, 1, room) \in Seq(Editor!Steps) /\ Len(SubSeq(new, 1, room)) = room
      BY <1>1, <3>1, SubSeqProperties
    <3>3. fit = SubSeq(new, 1, room)
      BY <2>1
    <3> HIDE DEF fit, room
    <3>4. QED
      BY <1>1, <3>2, <3>3
  <2>2. CASE ~(Len(new) > room)
    BY <1>1, <2>2
  <2>3. QED
    BY <2>1, <2>2
<1>3. a \in Seq(Editor!Steps) /\ Len(a) = at
  BY <1>1, SubSeqProperties DEF ListInv
<1>4. b \in Seq(Editor!Steps) /\ Len(b) = Len(steps) - at
  BY <1>1, SubSeqProperties DEF ListInv
<1>5. Editor!Refresh(a \o fit \o b, at + Len(fit))
  BY DEF Editor!Insert
<1> HIDE DEF at, fit, a, b
<1>6. a \o fit \in Seq(Editor!Steps) /\ Len(a \o fit) = Len(a) + Len(fit)
  BY <1>2, <1>3, ConcatProperties
<1>7. a \o fit \o b \in Seq(Editor!Steps) /\ Len(a \o fit \o b) = Len(a) + Len(fit) + Len(b)
  <2> DEFINE c == a \o fit
  <2>1. c \in Seq(Editor!Steps) /\ Len(c) = Len(a) + Len(fit)
    BY <1>6
  <2> HIDE DEF c
  <2>2. c \o b \in Seq(Editor!Steps) /\ Len(c \o b) = Len(c) + Len(b)
    BY <1>4, <2>1, ConcatProperties
  <2>3. QED
    BY <2>1, <2>2 DEF c
<1>8. Len(a \o fit \o b) <= MaxSteps
  BY <1>1, <1>2, <1>3, <1>4, <1>7, EditorLimits
<1>9. QED
  BY <1>5, <1>7, <1>8, RefreshFills

LEMMA OneLonger ==
  ASSUME NEW E, NEW n \in Nat, NEW g, \A i \in 1..(n + 1) : g[i] \in E
  PROVE  /\ [i \in 1..n |-> g[i]] \in Seq(E) /\ Len([i \in 1..n |-> g[i]]) = n
         /\ Append([i \in 1..n |-> g[i]], g[n + 1]) = [i \in 1..(n + 1) |-> g[i]]
<1> DEFINE l == [i \in 1..n |-> g[i]]
           m == [i \in 1..(n + 1) |-> g[i]]
<1>1. l \in [1..n -> E] /\ m \in [1..(n + 1) -> E] /\ g[n + 1] \in E /\ n + 1 \in Nat
  OBVIOUS
<1>2. \A i \in 1..n : l[i] = g[i]
  OBVIOUS
<1>3. \A i \in 1..(n + 1) : m[i] = g[i]
  OBVIOUS
<1> HIDE DEF l, m
<1>4. l \in Seq(E) /\ Len(l) = n /\ m \in Seq(E) /\ Len(m) = n + 1
  BY <1>1
<1>5. /\ Append(l, g[n + 1]) \in Seq(E) /\ Len(Append(l, g[n + 1])) = n + 1
      /\ Append(l, g[n + 1])[n + 1] = g[n + 1]
      /\ \A i \in 1..n : Append(l, g[n + 1])[i] = l[i]
  BY <1>1, <1>4, AppendProperties
<1>6. \A i \in 1..(n + 1) : i = n + 1 \/ i \in 1..n
  OBVIOUS
<1>7. \A i \in 1..(n + 1) : Append(l, g[n + 1])[i] = m[i]
  BY <1>2, <1>3, <1>5, <1>6
<1>8. Append(l, g[n + 1]) = m
  BY <1>4, <1>5, <1>7, SeqEqual
<1>9. QED
  BY <1>4, <1>8 DEF l, m

(* Everything is chosen.                                                       *)
LEMMA ThoseAll ==
  ASSUME NEW E, NEW s \in Seq(E), NEW S, \A i \in 1..Len(s) : s[i] \in S
  PROVE  Those(s, S) = s
<1> DEFINE N == Len(s)
<1>1. N \in Nat /\ (\A i \in 1..N : s[i] \in E) /\ s = [i \in 1..N |-> s[i]]
  OBVIOUS
<1>2. PICK f \in [0..Len(s) -> Seq(E)] : ThoseUpTo(f, s, S) /\ Those(s, S) = f[Len(s)]
  BY ThoseIsRead
<1>3. f[0] = <<>> /\ \A n \in 0..(N - 1) : f[n + 1] = IF s[n + 1] \in S THEN Append(f[n], s[n + 1]) ELSE f[n]
  BY <1>2, ThoseStep
<1>4. Those(s, S) = f[N]
  BY <1>2
<1> HIDE DEF N
<1> DEFINE U == {n \in 0..N : f[n] = [i \in 1..n |-> s[i]]}
<1>5. 0 \in U
  <2>1. [i \in 1..0 |-> s[i]] = <<>>
    OBVIOUS
  <2>2. QED
    BY <1>1, <1>3, <2>1
<1>6. ASSUME NEW n \in 0..(N - 1), n \in U PROVE n + 1 \in U
  <2>1. n \in Nat /\ n + 1 \in 1..N /\ n + 1 \in 0..N /\ 1..(n + 1) \subseteq 1..N
    BY <1>1
  <2>2. s[n + 1] \in S
    BY <2>1 DEF N
  <2>3. f[n + 1] = Append([i \in 1..n |-> s[i]], s[n + 1])
    BY <1>3, <1>6, <2>2
  <2>4. \A i \in 1..(n + 1) : s[i] \in E
    BY <1>1, <2>1
  <2>5. f[n + 1] = [i \in 1..(n + 1) |-> s[i]]
    BY <2>1, <2>3, <2>4, OneLonger
  <2>6. QED
    BY <2>1, <2>5
<1> HIDE DEF U
<1>7. N \in U
  BY <1>1, <1>5, <1>6, NatInduct
<1>8. QED
  BY <1>1, <1>4, <1>7 DEF U

(* A list of lists, one after the other.                                       *)
FlatUpTo(f, q) == f = [i \in 1..Len(q) |-> IF i = 1 THEN q[i] ELSE f[i - 1] \o q[i]]

LEMMA FlatIsRead ==
  ASSUME NEW E, NEW q \in Seq(Seq(E)), q # <<>>
  PROVE  \E f : /\ f[1] = q[1]
                /\ \A n \in 1..(Len(q) - 1) : f[n + 1] = f[n] \o q[n + 1]
                /\ Editor!FlattenSeq(q) = f[Len(q)]
<1> DEFINE N == Len(q)
           T == Seq(E)
           R == [p \in T \X (1..N) |-> IF p[2] = 1 THEN q[p[2]] ELSE p[1] \o q[p[2]]]
<1>1. N \in Nat /\ N >= 1 /\ \A n \in 1..N : q[n] \in T
  BY EmptySeq
<1>2. <<>> \in T
  OBVIOUS
<1>3. \A c \in T, d \in T : c \o d \in T
  BY ConcatProperties
<1> HIDE DEF T, N
<1>4. \A c \in T, n \in 1..N : R[<<c, n>>] = IF n = 1 THEN q[n] ELSE c \o q[n]
  OBVIOUS
<1>5. R \in [T \X (1..N) -> T]
  BY <1>1, <1>3
<1> HIDE DEF R
<1>6. PICK g \in [0..N -> T] : Grows(g, N, <<>>, R)
  BY <1>1, <1>2, <1>5, GrowingExists
<1>7. \A n \in 1..N : g[n] = IF n = 1 THEN q[n] ELSE g[n - 1] \o q[n]
  <2> SUFFICES ASSUME NEW n \in 1..N PROVE g[n] = IF n = 1 THEN q[n] ELSE g[n - 1] \o q[n]
    OBVIOUS
  <2>1. g[n] = R[<<g[n - 1], n>>]
    BY <1>6 DEF Grows
  <2>2. g[n - 1] \in T
    BY <1>1
  <2>3. QED
    BY <1>4, <2>1, <2>2
<1> DEFINE f == [n \in 1..N |-> g[n]]
<1>8. FlatUpTo(f, q)
  <2> DEFINE h == [i \in 1..N |-> IF i = 1 THEN q[i] ELSE f[i - 1] \o q[i]]
  <2>1. ASSUME NEW n \in 1..N PROVE f[n] = h[n]
    <3>1. CASE n = 1
      BY <1>7, <3>1
    <3>2. CASE n # 1
      <4>1. n - 1 \in 1..N
        BY <1>1, <3>2
      <4>2. QED
        BY <1>7, <3>2, <4>1
    <3>3. QED
      BY <3>1, <3>2
  <2>2. f = h
    BY <2>1
  <2>3. QED
    BY <2>2 DEF FlatUpTo, N
<1> HIDE DEF f
<1> DEFINE h == CHOOSE e : FlatUpTo(e, q)
<1>9. FlatUpTo(h, q)
  BY <1>8
<1>10. Editor!FlattenSeq(q) = h[Len(q)]
  BY <1>1 DEF Editor!FlattenSeq, FlatUpTo, N
<1> HIDE DEF h
<1>11. h[1] = q[1] /\ \A n \in 1..(N - 1) : h[n + 1] = h[n] \o q[n + 1]
  <2>1. h[1] = q[1]
    BY <1>1, <1>9 DEF FlatUpTo, N
  <2>2. ASSUME NEW n \in 1..(N - 1) PROVE h[n + 1] = h[n] \o q[n + 1]
    <3>1. n + 1 \in 1..N /\ n + 1 # 1 /\ (n + 1) - 1 = n
      BY <1>1
    <3>2. QED
      BY <1>9, <3>1 DEF FlatUpTo, N
  <2>3. QED
    BY <2>1, <2>2
<1>12. QED
  BY <1>10, <1>11 DEF N

(* What a tape holds can be replayed.                                          *)
Tape == {e \in Editor!Events : Editor!Recordable(e)}
NoDelays == {s \in Editor!Steps : s.type # "delay"}

LEMMA TapeFits ==
  ASSUME NEW e \in Tape
  PROVE  /\ Editor!Usable(e) /\ e.t \in Int
         /\ Editor!ToStep(e) \in NoDelays
<1>1. /\ e.t \in Int
      /\ \/ e.code = "REL_WHEEL" /\ e.value \in {1, -1}
         \/ e.code \in Editor!ValidCodes /\ e.code # "REL_WHEEL" /\ e.value \in {0, 1}
  BY EditorLimits DEF Tape, Editor!Events, Editor!Event, Editor!Recordable, Editor!ValidCodes, Editor!MouseButtons,
     Editor!Unknown
<1>2. CASE e.code = "REL_WHEEL" /\ e.value \in {1, -1}
  <2>1. \E d \in {"up", "down"} : Editor!ToStep(e) = Editor!Wheel(d)
    BY <1>2 DEF Editor!ToStep
  <2>2. Editor!ToStep(e) \in NoDelays
    BY <2>1, StepKinds, StepTypes DEF NoDelays
  <2>3. QED
    BY <1>1, <1>2, <2>2 DEF Editor!Usable
<1>3. CASE e.code \in Editor!ValidCodes /\ e.code # "REL_WHEEL" /\ e.value \in {0, 1}
  <2>1. \E a \in Editor!Actions : Editor!ToStep(e) = Editor!Key(e.code, a)
    BY <1>3 DEF Editor!ToStep, Editor!Actions
  <2>2. Editor!ToStep(e) \in NoDelays
    BY <1>3, <2>1, StepKinds, StepTypes DEF NoDelays
  <2>3. QED
    BY <1>1, <1>3, <2>2 DEF Editor!Usable
<1>4. QED
  BY <1>1, <1>2, <1>3

(* The Pause keys at the end go.                                               *)
LEMMA StripFits ==
  ASSUME NEW tape \in Seq(Tape)
  PROVE  LET t == Editor!StripStopKey(tape)
         IN /\ t \in Seq(Tape) /\ Len(t) <= Len(tape)
            /\ \A i \in 1..Len(t) : t[i] = tape[i]
            /\ \A i \in (Len(t) + 1)..Len(tape) : tape[i].code = "KEY_PAUSE"
<1> DEFINE others == {i \in DOMAIN tape : tape[i].code # "KEY_PAUSE"}
           stop == IF others = {} THEN 0 ELSE CHOOSE i \in others : \A k \in others : k <= i
           t == SubSeq(tape, 1, stop)
<1>1. Len(tape) \in Nat /\ DOMAIN tape = 1..Len(tape)
  OBVIOUS
<1>2. others \subseteq 1..Len(tape)
  BY <1>1
<1>3. stop \in 0..Len(tape) /\ \A k \in others : k <= stop
  <2>1. CASE others = {}
    BY <1>1, <2>1
  <2>2. CASE others # {}
    <3> DEFINE back == {Len(tape) - i : i \in others}
    <3>1. back \subseteq Nat /\ back # {}
      BY <1>1, <1>2, <2>2
    <3>2. PICK n \in back : \A m \in back : n <= m
      BY <3>1, NatHasMin
    <3>3. PICK i \in others : n = Len(tape) - i
      BY <3>2
    <3>4. \A k \in others : Len(tape) - k \in back
      OBVIOUS
    <3> HIDE DEF back, others
    <3>5. \A k \in others : k <= i
      BY <1>1, <1>2, <3>2, <3>3, <3>4
    <3>6. \E j \in others : \A k \in others : k <= j
      BY <3>5
    <3>7. stop \in others /\ \A k \in others : k <= stop
      BY <2>2, <3>6
    <3> HIDE DEF stop
    <3>8. QED
      BY <1>1, <1>2, <3>7
  <2>3. QED
    BY <2>1, <2>2
<1>4. Editor!StripStopKey(tape) = t
  BY DEF Editor!StripStopKey
<1> HIDE DEF stop
<1>5. t \in Seq(Tape) /\ Len(t) = stop /\ \A i \in 1..stop : t[i] = tape[i]
  BY <1>1, <1>3, SubSeqProperties
<1>6. \A i \in (stop + 1)..Len(tape) : tape[i].code = "KEY_PAUSE"
  <2> SUFFICES ASSUME NEW i \in (stop + 1)..Len(tape) PROVE i \notin others
    BY <1>1, <1>3
  <2> HIDE DEF others
  <2>1. QED
    BY <1>1, <1>3
<1> HIDE DEF t
<1>7. QED
  BY <1>3, <1>4, <1>5, <1>6

(* The steps of the first n events of a tape.                                  *)
Gaps(t, n) == {i \in 2..n : t[i].t - t[i - 1].t >= MinGap}
DelaysFit(r) ==
    \A i \in 1..Len(r) : r[i].type = "delay" =>
       i > 1 /\ r[i - 1].type # "delay" /\ i < Len(r) /\ r[i].ms \in MinGap..MaxDelay
Tells(r, t, n) ==
    /\ r \in Seq(Editor!Steps) /\ Len(r) >= 1
    /\ Those(r, NoDelays) = [i \in 1..n |-> Editor!ToStep(t[i])]
    /\ DelaysFit(r)
    /\ Len(r) = n + Cardinality(Gaps(t, n))

LEMMA PlainStepFits ==
  ASSUME NEW r \in Seq(Editor!Steps), DelaysFit(r), Len(r) >= 1, NEW s \in NoDelays
  PROVE  Append(r, s) \in Seq(Editor!Steps) /\ DelaysFit(Append(r, s)) /\ Len(Append(r, s)) = Len(r) + 1
<1> DEFINE q == Append(r, s)
<1>1. s \in Editor!Steps /\ s.type # "delay"
  BY DEF NoDelays
<1>2. /\ q \in Seq(Editor!Steps) /\ Len(r) \in Nat /\ Len(q) = Len(r) + 1 /\ q[Len(r) + 1] = s
      /\ \A i \in 1..Len(r) : q[i] = r[i]
  BY <1>1, AppendProperties
<1> HIDE DEF q
<1>3. ASSUME NEW i \in 1..Len(q), q[i].type = "delay"
      PROVE  i > 1 /\ q[i - 1].type # "delay" /\ i < Len(q) /\ q[i].ms \in MinGap..MaxDelay
  <2>1. i \in 1..Len(r)
    BY <1>1, <1>2, <1>3
  <2>2. i > 1 /\ r[i - 1].type # "delay" /\ i < Len(r) /\ r[i].ms \in MinGap..MaxDelay
    BY <1>2, <1>3, <2>1 DEF DelaysFit
  <2>3. i - 1 \in 1..Len(r)
    BY <2>1, <2>2
  <2>4. QED
    BY <1>2, <2>1, <2>2, <2>3
<1>4. QED
  BY <1>2, <1>3 DEF DelaysFit, q

LEMMA DelayedStepFits ==
  ASSUME NEW r \in Seq(Editor!Steps), DelaysFit(r), Len(r) >= 1, NEW s \in NoDelays, NEW n \in MinGap..MaxDelay
  PROVE  LET q == Append(Append(r, Editor!Delay(n)), s)
         IN q \in Seq(Editor!Steps) /\ DelaysFit(q) /\ Len(q) = Len(r) + 2
<1> DEFINE d == Editor!Delay(n)
           p == Append(r, d)
           q == Append(p, s)
<1>1. s \in Editor!Steps /\ s.type # "delay"
  BY DEF NoDelays
<1>2. d \in Editor!Steps /\ d.type = "delay" /\ d.ms = n
  BY EditorLimits, StepKinds, StepTypes
<1> HIDE DEF d
<1>3. /\ p \in Seq(Editor!Steps) /\ Len(r) \in Nat /\ Len(p) = Len(r) + 1 /\ p[Len(r) + 1] = d
      /\ \A i \in 1..Len(r) : p[i] = r[i]
  BY <1>2, AppendProperties
<1> HIDE DEF p
<1>4. /\ q \in Seq(Editor!Steps) /\ Len(p) \in Nat /\ Len(q) = Len(p) + 1 /\ q[Len(p) + 1] = s
      /\ \A i \in 1..Len(p) : q[i] = p[i]
  BY <1>1, <1>3, AppendProperties
<1> HIDE DEF q
<1>5. Len(q) = Len(r) + 2 /\ q[Len(r) + 1] = d /\ q[Len(r) + 2] = s /\ \A i \in 1..Len(r) : q[i] = r[i]
  BY <1>3, <1>4
<1>6. r[Len(r)].type # "delay"
  BY <1>3 DEF DelaysFit
<1>7. ASSUME NEW i \in 1..Len(q), q[i].type = "delay"
      PROVE  i > 1 /\ q[i - 1].type # "delay" /\ i < Len(q) /\ q[i].ms \in MinGap..MaxDelay
  <2>1. CASE i \in 1..Len(r)
    <3>1. i > 1 /\ r[i - 1].type # "delay" /\ i < Len(r) /\ r[i].ms \in MinGap..MaxDelay
      BY <1>5, <1>7, <2>1 DEF DelaysFit
    <3>2. i - 1 \in 1..Len(r)
      BY <2>1, <3>1
    <3>3. QED
      BY <1>3, <1>5, <2>1, <3>1, <3>2
  <2>2. CASE i = Len(r) + 1
    <3>1. i - 1 = Len(r) /\ Len(r) \in 1..Len(r) /\ i > 1 /\ i < Len(q)
      BY <1>3, <1>5, <2>2
    <3>2. q[i - 1] = r[Len(r)] /\ q[i] = d
      BY <1>5, <2>2, <3>1
    <3>3. QED
      BY <1>2, <1>6, <3>1, <3>2
  <2>3. i # Len(r) + 2
    BY <1>1, <1>5, <1>7
  <2>4. QED
    BY <1>3, <1>5, <2>1, <2>2, <2>3
<1>8. QED
  BY <1>4, <1>5, <1>7 DEF DelaysFit, q, p, d

(* One event more.                                                             *)
LEMMA OneMoreTold ==
  ASSUME NEW t \in Seq(Tape), NEW n \in 1..(Len(t) - 1), NEW r, Tells(r, t, n)
  PROVE  Tells(r \o Append(Editor!Gap(t[n].t, t[n + 1].t), Editor!ToStep(t[n + 1])), t, n + 1)
<1> DEFINE s == Editor!ToStep(t[n + 1])
           gap == t[n + 1].t - t[n].t
           heard == [i \in 1..n |-> Editor!ToStep(t[i])]
           more == [i \in 1..(n + 1) |-> Editor!ToStep(t[i])]
<1>1. /\ Len(t) \in Nat /\ n \in Nat /\ n + 1 \in 1..Len(t) /\ n \in 1..Len(t)
      /\ \A i \in 1..Len(t) : t[i] \in Tape
  OBVIOUS
<1>2. s \in NoDelays /\ gap \in Int
  BY <1>1, TapeFits
<1>3. /\ r \in Seq(Editor!Steps) /\ Len(r) >= 1 /\ DelaysFit(r) /\ Those(r, NoDelays) = heard
      /\ Len(r) = n + Cardinality(Gaps(t, n))
  BY DEF Tells
<1>4. Append(heard, s) = more
  <2>1. \A i \in 1..(n + 1) : Editor!ToStep(t[i]) \in NoDelays
    BY <1>1, TapeFits
  <2> DEFINE g == [i \in 1..(n + 1) |-> Editor!ToStep(t[i])]
  <2>2. (\A i \in 1..(n + 1) : g[i] \in NoDelays) /\ heard = [i \in 1..n |-> g[i]] /\ s = g[n + 1]
        /\ more = [i \in 1..(n + 1) |-> g[i]]
    BY <1>1, <2>1
  <2> HIDE DEF g, heard, s, more
  <2>3. QED
    BY <1>1, <2>2, OneLonger
<1>5. Gaps(t, n) \subseteq 2..n /\ IsFiniteSet(Gaps(t, n)) /\ Cardinality(Gaps(t, n)) \in Nat
  <2>1. IsFiniteSet(2..n)
    BY <1>1, FS_Interval
  <2>2. Gaps(t, n) \subseteq 2..n
    BY DEF Gaps
  <2>3. QED
    BY <2>1, <2>2, FS_Subset, FS_CardinalityType
<1> HIDE DEF s, heard, more
<1>6. s \in Editor!Steps
  BY <1>2 DEF NoDelays
<1>7. CASE gap < MinGap
  <2>1. Editor!Gap(t[n].t, t[n + 1].t) = <<>>
    BY <1>7 DEF Editor!Gap
  <2>2. r \o Append(<<>>, s) = Append(r, s)
    BY <1>3, <1>6
  <2>3. Those(Append(r, s), NoDelays) = more
    <3>1. r \in Seq(Editor!Steps) /\ s \in NoDelays
      BY <1>2, <1>3
    <3>2. Those(Append(r, s), NoDelays) = Append(Those(r, NoDelays), s)
      BY <1>6, <3>1, ThoseAppend
    <3>3. QED
      BY <1>3, <1>4, <3>2
  <2>4. Gaps(t, n + 1) = Gaps(t, n)
    <3>1. \A i \in 2..(n + 1) : i = n + 1 \/ i \in 2..n
      BY <1>1
    <3>2. ~(t[n + 1].t - t[(n + 1) - 1].t >= MinGap)
      BY <1>1, <1>2, <1>7, EditorLimits
    <3>3. 2..n \subseteq 2..(n + 1)
      BY <1>1
    <3>4. QED
      BY <3>1, <3>2, <3>3 DEF Gaps
  <2>5. /\ Append(r, s) \in Seq(Editor!Steps) /\ DelaysFit(Append(r, s))
        /\ Len(Append(r, s)) = Len(r) + 1
    BY <1>2, <1>3, PlainStepFits
  <2>6. Len(Append(r, s)) >= 1 /\ Len(Append(r, s)) = (n + 1) + Cardinality(Gaps(t, n + 1))
    <3> DEFINE l == Len(r)
               c == Cardinality(Gaps(t, n))
    <3>1. l = n + c /\ c \in Nat /\ n \in Nat /\ Len(Append(r, s)) = l + 1
      BY <1>1, <1>3, <1>5, <2>5
    <3>2. c = Cardinality(Gaps(t, n + 1))
      BY <2>4
    <3> HIDE DEF l, c
    <3>3. QED
      BY <3>1, <3>2
  <2>7. Tells(Append(r, s), t, n + 1)
    BY <2>3, <2>5, <2>6 DEF Tells, more
  <2>8. QED
    BY <2>1, <2>2, <2>7 DEF s
<1>8. CASE ~(gap < MinGap)
  <2> DEFINE m == IF gap > MaxDelay THEN MaxDelay ELSE gap
             d == Editor!Delay(m)
             q == Append(Append(r, d), s)
  <2>1. Editor!Gap(t[n].t, t[n + 1].t) = <<d>> /\ m \in MinGap..MaxDelay /\ m \in 0..MaxDelay
    BY <1>2, <1>8, EditorLimits DEF Editor!Gap
  <2> HIDE DEF m
  <2>2. d \in Editor!Steps /\ d.type = "delay"
    BY <2>1, StepKinds, StepTypes
  <2>3. q \in Seq(Editor!Steps) /\ DelaysFit(q) /\ Len(q) = Len(r) + 2
    BY <1>2, <1>3, <2>1, DelayedStepFits
  <2> HIDE DEF d
  <2>4. r \o Append(<<d>>, s) = q
    <3>1. <<d>> \in Seq(Editor!Steps) /\ <<s>> \in Seq(Editor!Steps) /\ r \in Seq(Editor!Steps)
      BY <1>3, <1>6, <2>2
    <3>2. Append(<<d>>, s) = <<d>> \o <<s>>
      BY <1>6, <3>1, AppendIsConcat
    <3>3. Append(r, d) = r \o <<d>>
      BY <2>2, <3>1, AppendIsConcat
    <3>4. Append(r, d) \in Seq(Editor!Steps)
      BY <2>2, <3>1, AppendProperties
    <3>5. Append(Append(r, d), s) = Append(r, d) \o <<s>>
      BY <1>6, <3>4, AppendIsConcat
    <3>6. r \o (<<d>> \o <<s>>) = (r \o <<d>>) \o <<s>>
      BY <3>1, ConcatAssociative
    <3>7. QED
      BY <3>2, <3>3, <3>5, <3>6
  <2>5. Those(Append(r, d), NoDelays) = heard /\ Append(r, d) \in Seq(Editor!Steps)
    BY <1>3, <2>2, ThoseAppend, AppendProperties DEF NoDelays
  <2>6. Those(q, NoDelays) = more
    <3> DEFINE u == Append(r, d)
    <3>1. u \in Seq(Editor!Steps) /\ Those(u, NoDelays) = heard /\ s \in NoDelays
      BY <1>2, <2>5
    <3>2. q = Append(u, s)
      OBVIOUS
    <3> HIDE DEF u, q
    <3>3. Those(Append(u, s), NoDelays) = Append(Those(u, NoDelays), s)
      BY <1>6, <3>1, ThoseAppend
    <3>4. QED
      BY <1>4, <3>1, <3>2, <3>3
  <2>7. Gaps(t, n + 1) = Gaps(t, n) \cup {n + 1} /\ n + 1 \notin Gaps(t, n)
    <3>1. \A i \in 2..(n + 1) : i = n + 1 \/ i \in 2..n
      BY <1>1
    <3>2. t[n + 1].t - t[(n + 1) - 1].t >= MinGap /\ n + 1 \in 2..(n + 1)
      BY <1>1, <1>2, <1>8, EditorLimits
    <3>3. 2..n \subseteq 2..(n + 1) /\ n + 1 \notin 2..n
      BY <1>1
    <3>4. QED
      BY <3>1, <3>2, <3>3 DEF Gaps
  <2>8. Cardinality(Gaps(t, n + 1)) = Cardinality(Gaps(t, n)) + 1
    BY <1>5, <2>7, FS_AddElement
  <2> HIDE DEF q
  <2>9. Len(q) >= 1 /\ Len(q) = (n + 1) + Cardinality(Gaps(t, n + 1))
    BY <1>1, <1>3, <1>5, <2>3, <2>8
  <2>10. Tells(q, t, n + 1)
    BY <2>3, <2>6, <2>9 DEF Tells, more
  <2>11. QED
    BY <2>1, <2>4, <2>10 DEF s
<1>9. QED
  BY <1>7, <1>8

LEMMA FirstTold ==
  ASSUME NEW t \in Seq(Tape), t # <<>>
  PROVE  Tells(<<Editor!ToStep(t[1])>>, t, 1)
<1> DEFINE s == Editor!ToStep(t[1])
           r == <<s>>
<1>1. t[1] \in Tape
  BY EmptySeq
<1>2. s \in NoDelays /\ s \in Editor!Steps /\ s.type # "delay"
  BY <1>1, TapeFits DEF NoDelays
<1>3. r \in Seq(Editor!Steps) /\ Len(r) = 1 /\ r[1] = s
  BY <1>2
<1>4. DelaysFit(r)
  BY <1>2, <1>3 DEF DelaysFit
<1>5. r = [i \in 1..1 |-> Editor!ToStep(t[i])]
  OBVIOUS
<1> HIDE DEF r
<1>6. Those(r, NoDelays) = r
  <2>1. \A i \in 1..Len(r) : r[i] \in NoDelays
    BY <1>2, <1>3
  <2>2. QED
    BY <1>3, <2>1, ThoseAll
<1>7. Gaps(t, 1) = {} /\ Cardinality(Gaps(t, 1)) = 0
  BY FS_EmptySet DEF Gaps
<1> HIDE DEF r, s
<1>8. Tells(r, t, 1)
  BY <1>3, <1>4, <1>5, <1>6, <1>7 DEF Tells
<1>9. QED
  BY <1>8 DEF r, s

(* A tape within the limit of the recorder is heard whole.                      *)
LEMMA TapeIsTold ==
  ASSUME NEW t \in Seq(Tape), t # <<>>, 2 * Len(t) <= MaxSteps
  PROVE  Tells(Editor!EventsToSteps(t), t, Len(t))
<1> DEFINE N == Len(t)
           usable == {e \in Editor!ToSet(t) : Editor!Usable(e)}
           one(i) == Editor!ToStep(t[i])
           piece(i) == IF i = 1 THEN <<one(i)>> ELSE Append(Editor!Gap(t[i - 1].t, t[i].t), one(i))
           pieces == [i \in 1..N |-> piece(i)]
<1>1. N \in Nat /\ N >= 1 /\ DOMAIN t = 1..N /\ \A i \in 1..N : t[i] \in Tape
  BY EmptySeq
<1>2. Editor!Those(t, usable) = t
  <2>1. \A i \in 1..Len(t) : t[i] \in usable
    BY <1>1, TapeFits DEF Editor!ToSet
  <2> HIDE DEF usable
  <2>2. QED
    BY <2>1, ThoseAll, ThoseOfEditor
<1>3. Editor!EventsToSteps(t) = IF Len(Editor!FlattenSeq(pieces)) > MaxSteps
                                THEN Editor!SubSeq(Editor!FlattenSeq(pieces), 1, MaxSteps)
                                ELSE Editor!FlattenSeq(pieces)
  BY <1>1, <1>2 DEF Editor!EventsToSteps
<1>4. \A i \in 1..N : piece(i) \in Seq(Editor!Steps)
  <2> SUFFICES ASSUME NEW i \in 1..N PROVE piece(i) \in Seq(Editor!Steps)
    OBVIOUS
  <2>1. one(i) \in Editor!Steps
    BY <1>1, TapeFits DEF NoDelays
  <2>2. i # 1 => Editor!Gap(t[i - 1].t, t[i].t) \in Seq(Editor!Steps)
    <3> SUFFICES ASSUME i # 1 PROVE Editor!Gap(t[i - 1].t, t[i].t) \in Seq(Editor!Steps)
      OBVIOUS
    <3> DEFINE gap == t[i].t - t[i - 1].t
    <3>1. i - 1 \in 1..N
      BY <1>1
    <3>2. gap \in Int
      BY <1>1, <3>1, TapeFits
    <3>3. gap >= MinGap => Editor!Delay(IF gap > MaxDelay THEN MaxDelay ELSE gap) \in Editor!Steps
      <4>1. gap >= MinGap => (IF gap > MaxDelay THEN MaxDelay ELSE gap) \in 0..MaxDelay
        BY <3>2, EditorLimits
      <4>2. QED
        BY <4>1, StepKinds
    <3>4. ~(gap < MinGap) => gap >= MinGap
      BY <3>2, EditorLimits
    <3>5. QED
      BY <3>3, <3>4 DEF Editor!Gap
  <2> HIDE DEF one
  <2>3. QED
    BY <2>1, <2>2
<1> HIDE DEF piece
<1>5. pieces \in Seq(Seq(Editor!Steps)) /\ Len(pieces) = N /\ \A i \in 1..N : pieces[i] = piece(i)
  <2>1. pieces \in [1..N -> Seq(Editor!Steps)]
    BY <1>4
  <2>2. QED
    BY <1>1, <2>1
<1> HIDE DEF pieces, N
<1>6. pieces # <<>>
  BY <1>1, <1>5
<1>7. PICK f : /\ f[1] = pieces[1]
               /\ \A n \in 1..(Len(pieces) - 1) : f[n + 1] = f[n] \o pieces[n + 1]
               /\ Editor!FlattenSeq(pieces) = f[Len(pieces)]
  BY <1>5, <1>6, FlatIsRead
<1> DEFINE U == {n \in 0..N : n = 0 \/ Tells(f[n], t, n)}
<1>8. 0 \in U
  BY <1>1
<1>9. ASSUME NEW n \in 0..(N - 1), n \in U PROVE n + 1 \in U
  <2>1. n + 1 \in 1..N /\ n + 1 \in 0..N
    BY <1>1
  <2>2. CASE n = 0
    <3>1. f[1] = <<Editor!ToStep(t[1])>>
      BY <1>1, <1>5, <1>7 DEF piece
    <3>2. n + 1 = 1 /\ Tells(f[1], t, 1)
      BY <2>2, <3>1, FirstTold
    <3>3. Tells(f[n + 1], t, n + 1)
      BY <3>2
    <3>4. QED
      BY <2>1, <3>3
  <2>3. CASE n # 0
    <3>1. n \in 1..(N - 1) /\ n + 1 # 1 /\ (n + 1) - 1 = n
      BY <1>1, <2>3
    <3>2. f[n + 1] = f[n] \o Append(Editor!Gap(t[n].t, t[n + 1].t), Editor!ToStep(t[n + 1]))
      BY <1>5, <1>7, <2>1, <3>1 DEF piece
    <3>3. Tells(f[n], t, n)
      BY <1>9, <2>3
    <3>4. Tells(f[n + 1], t, n + 1)
      BY <3>1, <3>2, <3>3, OneMoreTold DEF N
    <3>5. QED
      BY <2>1, <3>4
  <2>4. QED
    BY <2>2, <2>3
<1> HIDE DEF U
<1>10. N \in U
  BY <1>1, <1>8, <1>9, NatInduct
<1>11. Tells(Editor!FlattenSeq(pieces), t, N)
  BY <1>1, <1>5, <1>7, <1>10 DEF U
<1>12. ~(Len(Editor!FlattenSeq(pieces)) > MaxSteps)
  <2>1. Gaps(t, N) \subseteq 2..N /\ IsFiniteSet(2..N) /\ Cardinality(2..N) = N - 1
    <3>1. IsFiniteSet(2..N) /\ Cardinality(2..N) = IF 2 > N THEN 0 ELSE N - 2 + 1
      BY <1>1, FS_Interval
    <3>2. Gaps(t, N) \subseteq 2..N
      BY DEF Gaps
    <3>3. QED
      BY <1>1, <3>1, <3>2
  <2>2. Cardinality(Gaps(t, N)) <= N - 1 /\ Cardinality(Gaps(t, N)) \in Nat
    BY <2>1, FS_Subset, FS_CardinalityType
  <2>3. Len(Editor!FlattenSeq(pieces)) = N + Cardinality(Gaps(t, N)) /\ 2 * N <= MaxSteps
    BY <1>11 DEF Tells, N
  <2>4. QED
    BY <1>1, <2>2, <2>3, EditorLimits
<1>13. QED
  BY <1>3, <1>11, <1>12 DEF N

(* What a recording offers for review is what was recorded.                    *)
RecordingTold(rec, tape) ==
    LET events == Those(rec, {s \in Editor!ToSet(rec) : s.type # "delay"})
        n == Len(events)
    IN /\ events = [i \in 1..n |-> Editor!ToStep(tape[i])]
       /\ \A i \in (n + 1)..Len(tape) : tape[i].code = "KEY_PAUSE"
       /\ \A i \in DOMAIN rec : rec[i].type = "delay" =>
            i > 1 /\ rec[i - 1].type # "delay" /\ i < Len(rec) /\ rec[i].ms \in MinGap..MaxDelay
       /\ Len(rec) - n = Cardinality({i \in 2..n : tape[i].t - tape[i - 1].t >= MinGap})

LEMMA TapeIsReviewed ==
  ASSUME NEW tape \in Seq(Tape), 2 * Len(tape) <= MaxSteps,
         Editor!EventsToSteps(Editor!StripStopKey(tape)) # <<>>
  PROVE  LET rec == Editor!EventsToSteps(Editor!StripStopKey(tape))
         IN rec \in Seq(Editor!Steps) /\ RecordingTold(rec, tape)
<1> DEFINE t == Editor!StripStopKey(tape)
           rec == Editor!EventsToSteps(t)
           n == Len(t)
           plain == {s \in Editor!ToSet(rec) : s.type # "delay"}
           heard == [i \in 1..n |-> Editor!ToStep(t[i])]
<1>1. /\ t \in Seq(Tape) /\ Len(t) <= Len(tape)
      /\ \A i \in 1..Len(t) : t[i] = tape[i]
      /\ \A i \in (Len(t) + 1)..Len(tape) : tape[i].code = "KEY_PAUSE"
  BY StripFits
<1> HIDE DEF t
<1>2. t # <<>>
  <2> SUFFICES ASSUME t = <<>> PROVE FALSE
    OBVIOUS
  <2> DEFINE usable == {e \in Editor!ToSet(t) : Editor!Usable(e)}
             used == Editor!Those(t, usable)
             parts == [i \in DOMAIN used |->
                         IF i = 1 THEN <<Editor!ToStep(used[i])>>
                         ELSE Append(Editor!Gap(used[i - 1].t, used[i].t), Editor!ToStep(used[i]))]
  <2>1. used = <<>>
    BY ThoseOfNone, ThoseOfEditor
  <2>2. rec = IF Len(Editor!FlattenSeq(parts)) > MaxSteps
              THEN Editor!SubSeq(Editor!FlattenSeq(parts), 1, MaxSteps) ELSE Editor!FlattenSeq(parts)
    BY DEF Editor!EventsToSteps
  <2> HIDE DEF used
  <2>3. parts = <<>> /\ Len(parts) = 0
    BY <2>1
  <2> HIDE DEF parts
  <2>4. Editor!FlattenSeq(parts) = <<>>
    BY <2>3 DEF Editor!FlattenSeq
  <2>5. rec = <<>>
    BY <2>2, <2>3, <2>4, EditorLimits
  <2>6. QED
    BY <2>5 DEF t
<1>3. 2 * Len(t) <= MaxSteps /\ n \in Nat /\ n >= 1
  BY <1>1, <1>2, EditorLimits, EmptySeq
<1>4. Tells(rec, t, n)
  BY <1>1, <1>2, <1>3, TapeIsTold
<1> HIDE DEF rec
<1>5. rec \in Seq(Editor!Steps) /\ DelaysFit(rec) /\ Those(rec, NoDelays) = heard
      /\ Len(rec) = n + Cardinality(Gaps(t, n))
  BY <1>4 DEF Tells
<1>6. Those(rec, plain) = heard
  <2>1. \A i \in 1..Len(rec) : rec[i] \in plain <=> rec[i] \in NoDelays
    BY <1>5 DEF Editor!ToSet, NoDelays
  <2> HIDE DEF plain
  <2>2. QED
    BY <1>5, <2>1, ThoseSame
<1>7. Len(heard) = n
  <2>1. \A i \in 1..n : Editor!ToStep(t[i]) \in NoDelays
    BY <1>1, TapeFits
  <2>2. heard \in [1..n -> NoDelays]
    BY <2>1
  <2>3. QED
    BY <1>3, <2>2
<1>8. heard = [i \in 1..n |-> Editor!ToStep(tape[i])]
  BY <1>1
<1> HIDE DEF heard, n
<1>9. Gaps(t, n) = {i \in 2..n : tape[i].t - tape[i - 1].t >= MinGap}
  <2>1. \A i \in 2..n : i \in 1..Len(t) /\ i - 1 \in 1..Len(t)
    BY <1>1, <1>3 DEF n
  <2>2. QED
    BY <1>1, <2>1 DEF Gaps
<1>10. Cardinality(Gaps(t, n)) \in Nat
  <2>1. IsFiniteSet(2..n)
    BY <1>3, FS_Interval DEF n
  <2>2. Gaps(t, n) \subseteq 2..n
    BY DEF Gaps
  <2>3. QED
    BY <2>1, <2>2, FS_Subset, FS_CardinalityType
<1>11. Len(rec) - n = Cardinality({i \in 2..n : tape[i].t - tape[i - 1].t >= MinGap})
  BY <1>3, <1>5, <1>9, <1>10
<1>12. DOMAIN rec = 1..Len(rec)
  BY <1>5
<1>13. \A i \in (n + 1)..Len(tape) : tape[i].code = "KEY_PAUSE"
  BY <1>1 DEF n
<1>14. RecordingTold(rec, tape)
  BY <1>5, <1>6, <1>7, <1>8, <1>11, <1>12, <1>13 DEF RecordingTold, DelaysFit
<1>15. QED
  BY <1>5, <1>14 DEF rec, t

-----------------------------------------------------------------------------
(* The editor, its list and its dialogs.                                       *)
StepDialog(d) == \E r \in DOMAIN steps \cup {0}, f \in FieldSets : d = [type |-> "step", row |-> r, fields |-> f]
RecorderDialog(d) ==
    \E tape \in Seq(Tape) : Len(tape) <= Editor!MaxRecorded /\ d = [type |-> "recorder", tape |-> tape]
ReviewDialog(d) ==
    \E rec, ticks, tape :
       /\ rec \in Seq(Editor!Steps) /\ RecordingTold(rec, tape)
       /\ d = [type |-> "review", steps |-> rec, ticks |-> ticks, tape |-> tape]
DialogFits ==
    dialog = Editor!NoDialog \/ StepDialog(dialog) \/ RecorderDialog(dialog) \/ ReviewDialog(dialog)

InputsFit ==
    /\ original \in OpenedMacros
    /\ trigger \in Editor!Triggers /\ mode \in Editor!Modes /\ spin \in 1..MaxCount
    /\ countEdited \in BOOLEAN /\ phase \in {"open", "accepted", "rejected"}
(* Without an edit of the count, the repeat group gives back the count it got. *)
CountAgrees ==
    /\ keptCount = Editor!NoCount \/ keptCount = original.count
    /\ ~countEdited => /\ spin = Editor!Clamp(original.count)
                       /\ keptCount = IF original.mode = "times" THEN Editor!NoCount ELSE original.count
ResultFits ==
    /\ phase = "accepted" => Editor!IsValid(result)
    /\ result.mode = original.mode /\ ~countEdited => result.count = original.count
    /\ phase = "open" => result = original

EditorInv == ListInv /\ DialogFits /\ InputsFit /\ CountAgrees /\ ResultFits

LEMMA DialogIs ==
  ASSUME NEW d
  PROVE  /\ d = Editor!NoDialog => d.type = "none"
         /\ StepDialog(d) => d.type = "step" /\ d.row \in DOMAIN steps \cup {0} /\ d.fields \in FieldSets
                             /\ \A f \in FieldSets : StepDialog([d EXCEPT !.fields = f])
         /\ RecorderDialog(d) => d.type = "recorder" /\ d.tape \in Seq(Tape) /\ Len(d.tape) <= Editor!MaxRecorded
                                 /\ \A t \in Seq(Tape) : Len(t) <= Editor!MaxRecorded
                                                         => RecorderDialog([d EXCEPT !.tape = t])
         /\ ReviewDialog(d) => d.type = "review" /\ d.steps \in Seq(Editor!Steps) /\ RecordingTold(d.steps, d.tape)
                               /\ \A m : ReviewDialog([d EXCEPT !.ticks = m])
<1>1. d = Editor!NoDialog => d.type = "none"
  BY DEF Editor!NoDialog
<1>2. ASSUME StepDialog(d)
      PROVE  d.type = "step" /\ d.row \in DOMAIN steps \cup {0} /\ d.fields \in FieldSets
             /\ \A f \in FieldSets : StepDialog([d EXCEPT !.fields = f])
  <2>1. PICK r \in DOMAIN steps \cup {0}, f \in FieldSets : d = [type |-> "step", row |-> r, fields |-> f]
    BY <1>2 DEF StepDialog
  <2>2. \A g \in FieldSets : [d EXCEPT !.fields = g] = [type |-> "step", row |-> r, fields |-> g]
    BY <2>1
  <2>3. \A g \in FieldSets : StepDialog([d EXCEPT !.fields = g])
    BY <2>2 DEF StepDialog
  <2>4. QED
    BY <2>1, <2>3
<1>3. ASSUME RecorderDialog(d)
      PROVE  d.type = "recorder" /\ d.tape \in Seq(Tape) /\ Len(d.tape) <= Editor!MaxRecorded
             /\ \A t \in Seq(Tape) : Len(t) <= Editor!MaxRecorded => RecorderDialog([d EXCEPT !.tape = t])
  <2>1. PICK tape \in Seq(Tape) : Len(tape) <= Editor!MaxRecorded /\ d = [type |-> "recorder", tape |-> tape]
    BY <1>3 DEF RecorderDialog
  <2>2. \A t \in Seq(Tape) : [d EXCEPT !.tape = t] = [type |-> "recorder", tape |-> t]
    BY <2>1
  <2>3. \A t \in Seq(Tape) : Len(t) <= Editor!MaxRecorded => RecorderDialog([d EXCEPT !.tape = t])
    BY <2>2 DEF RecorderDialog
  <2>4. QED
    BY <2>1, <2>3
<1>4. ASSUME ReviewDialog(d)
      PROVE  d.type = "review" /\ d.steps \in Seq(Editor!Steps) /\ RecordingTold(d.steps, d.tape)
             /\ \A m : ReviewDialog([d EXCEPT !.ticks = m])
  <2>1. PICK rec, ticks, tape :
          /\ rec \in Seq(Editor!Steps) /\ RecordingTold(rec, tape)
          /\ d = [type |-> "review", steps |-> rec, ticks |-> ticks, tape |-> tape]
    BY <1>4 DEF ReviewDialog
  <2>2. \A m : [d EXCEPT !.ticks = m] = [type |-> "review", steps |-> rec, ticks |-> m, tape |-> tape]
    BY <2>1
  <2>3. ASSUME NEW m PROVE ReviewDialog([d EXCEPT !.ticks = m])
    <3> DEFINE e == [d EXCEPT !.ticks = m]
    <3>1. e = [type |-> "review", steps |-> rec, ticks |-> m, tape |-> tape]
      BY <2>2
    <3>2. rec \in Seq(Editor!Steps) /\ RecordingTold(rec, tape)
      BY <2>1
    <3> HIDE DEF e
    <3>3. ReviewDialog(e)
      BY <3>1, <3>2 DEF ReviewDialog
    <3>4. QED
      BY <3>3 DEF e
  <2>4. d.steps = rec /\ d.tape = tape /\ d.type = "review"
    BY <2>1
  <2>5. QED
    BY <2>1, <2>3, <2>4
<1>5. QED
  BY <1>1, <1>2, <1>3, <1>4

(* Which dialog is open.                                                       *)
LEMMA WhichDialog ==
  ASSUME DialogFits
  PROVE  /\ dialog.type \in {"none", "step", "recorder", "review"}
         /\ dialog.type = "step" => StepDialog(dialog)
         /\ dialog.type = "recorder" => RecorderDialog(dialog)
         /\ dialog.type = "review" => ReviewDialog(dialog)
  BY DialogIs DEF DialogFits

LEMMA DialogStays ==
  ASSUME DialogFits, UNCHANGED <<dialog, steps>>
  PROVE  DialogFits'
  BY DEF DialogFits, StepDialog, RecorderDialog, ReviewDialog, Editor!NoDialog, RecordingTold

LEMMA ListStays ==
  ASSUME ListInv, UNCHANGED <<steps, current, chosen, okEnabled, trigger, mode, spin, keptCount>>
  PROVE  ListInv'
<1>1. Editor!IsValid(Editor!Macro)' = Editor!IsValid(Editor!Macro)
  BY DEF Editor!Macro, Editor!Edited, Editor!Count, Editor!IsValid
<1>2. QED
  BY <1>1 DEF ListInv

LEMMA ValidatedList ==
  ASSUME ListInv, UNCHANGED <<steps, current, chosen>>, Editor!Validate
  PROVE  ListInv'
<1>1. Editor!IsValid(Editor!Macro)' = Editor!IsValid(Editor!Edited(steps', trigger', mode', spin', keptCount'))
  BY DEF Editor!Macro, Editor!Edited, Editor!Count, Editor!IsValid
<1>2. QED
  BY <1>1 DEF ListInv, Editor!Validate

(* A step that leaves the trigger, the repeat group and the outcome alone.     *)
LEMMA RestStays ==
  ASSUME EditorInv, UNCHANGED <<original, trigger, mode, spin, keptCount, countEdited, result, phase>>
  PROVE  InputsFit' /\ CountAgrees' /\ ResultFits'
<1>1. InputsFit'
  BY DEF EditorInv, InputsFit
<1>2. CountAgrees'
  BY DEF EditorInv, CountAgrees
<1>3. ResultFits'
  BY DEF EditorInv, ResultFits
<1>4. QED
  BY <1>1, <1>2, <1>3

LEMMA NothingOpen == DialogFits' <=> (dialog' = Editor!NoDialog \/ StepDialog(dialog)' \/ RecorderDialog(dialog)'
                                     \/ ReviewDialog(dialog)')
  BY DEF DialogFits, Editor!NoDialog

(* Each input keeps the editor right. First those that touch no dialog and no  *)
(* list, then the dialogs, then the list.                                      *)
LEMMA InputIsOpen ==
  ASSUME Editor!Input
  PROVE  phase = "open" /\ UNCHANGED <<original, result, phase>>
  BY DEF Editor!Input

LEMMA SelectKeepsEditor ==
  ASSUME EditorInv, NEW c \in DOMAIN steps, NEW picked \in SUBSET DOMAIN steps, Editor!Select(c, picked)
  PROVE  EditorInv'
<1>1. /\ UNCHANGED <<steps, okEnabled, dialog, original, trigger, mode, spin, keptCount, countEdited, result, phase>>
      /\ current' = c /\ chosen' = picked
  BY InputIsOpen DEF Editor!Select, Editor!repeatVars
<1>2. ListInv'
  <2>1. Editor!IsValid(Editor!Macro)' = Editor!IsValid(Editor!Macro)
    BY <1>1 DEF Editor!Macro, Editor!Edited, Editor!Count, Editor!IsValid
  <2>2. QED
    BY <1>1, <2>1 DEF EditorInv, ListInv
<1>3. QED
  BY <1>1, <1>2, DialogStays, RestStays DEF EditorInv

LEMMA SettingKeepsEditor ==
  ASSUME EditorInv,
         \/ \E t \in Editor!Triggers : Editor!SetTrigger(t)
         \/ \E m \in Editor!Modes : Editor!SetMode(m)
         \/ \E n \in 1..MaxCount : Editor!SetCount(n)
  PROVE  EditorInv'
<1>1. /\ UNCHANGED <<steps, current, chosen, dialog, original, result, phase>> /\ phase = "open"
      /\ Editor!Validate
      /\ \/ trigger' \in Editor!Triggers /\ UNCHANGED <<mode, spin, keptCount, countEdited>>
         \/ mode' \in Editor!Modes /\ UNCHANGED <<trigger, spin, keptCount, countEdited>>
         \/ /\ spin' \in 1..MaxCount /\ keptCount' = Editor!NoCount /\ countEdited' = TRUE
            /\ UNCHANGED <<trigger, mode>>
  BY InputIsOpen DEF Editor!SetTrigger, Editor!SetMode, Editor!SetCount, Editor!listVars, Editor!repeatVars
<1>2. ListInv'
  BY <1>1, ValidatedList DEF EditorInv
<1>3. DialogFits'
  BY <1>1, DialogStays DEF EditorInv
<1>4. InputsFit'
  BY <1>1 DEF EditorInv, InputsFit
<1>5. CountAgrees'
  BY <1>1 DEF EditorInv, CountAgrees, Editor!NoCount
<1>6. ResultFits'
  BY <1>1 DEF EditorInv, ResultFits
<1>7. QED
  BY <1>2, <1>3, <1>4, <1>5, <1>6 DEF EditorInv

LEMMA LeavingKeepsEditor ==
  ASSUME EditorInv, Editor!Accept \/ Editor!Reject
  PROVE  EditorInv'
<1>1. /\ UNCHANGED <<original, steps, current, chosen, trigger, mode, spin, keptCount, countEdited, okEnabled,
                     dialog>>
      /\ \/ phase' = "accepted" /\ okEnabled /\ result' = Editor!Macro
         \/ phase' = "rejected" /\ UNCHANGED result
  BY DEF Editor!Accept, Editor!Reject, Editor!listVars, Editor!repeatVars
<1>2. ListInv' /\ DialogFits'
  BY <1>1, ListStays, DialogStays DEF EditorInv
<1>3. InputsFit'
  BY <1>1 DEF EditorInv, InputsFit
<1>4. CountAgrees'
  BY <1>1 DEF EditorInv, CountAgrees, Editor!NoCount
<1>5. ResultFits'
  <2>1. CASE phase' = "rejected" /\ UNCHANGED result
    BY <1>1, <2>1 DEF EditorInv, ResultFits
  <2>2. CASE phase' = "accepted" /\ okEnabled /\ result' = Editor!Macro
    <3>1. Editor!IsValid(result')
      BY <2>2 DEF EditorInv, ListInv
    <3>2. result'.mode = mode /\ result'.count = Editor!Count(mode, spin, keptCount)
      BY <2>2 DEF Editor!Macro, Editor!Edited
    <3>3. ASSUME mode = original.mode, ~countEdited
          PROVE  Editor!Count(mode, spin, keptCount) = original.count
      <4>1. /\ spin = Editor!Clamp(original.count)
            /\ keptCount = IF original.mode = "times" THEN Editor!NoCount ELSE original.count
        BY <3>3 DEF EditorInv, CountAgrees
      <4>2. /\ original.count \in Int /\ original.count # Editor!NoCount
            /\ original.mode = "times" => original.count \in 1..MaxCount
        BY OpenedFit DEF EditorInv, InputsFit
      <4>3. CASE original.mode = "times"
        BY <3>3, <4>1, <4>2, <4>3, EditorLimits DEF Editor!Count, Editor!Clamp
      <4>4. CASE original.mode # "times"
        BY <3>3, <4>1, <4>2, <4>4 DEF Editor!Count
      <4>5. QED
        BY <4>3, <4>4
    <3>4. Editor!IsValid(result)'
      BY <3>1 DEF Editor!IsValid
    <3>5. QED
      BY <1>1, <2>2, <3>2, <3>3, <3>4 DEF ResultFits
  <2>3. QED
    BY <1>1, <2>1, <2>2
<1>6. QED
  BY <1>2, <1>3, <1>4, <1>5 DEF EditorInv

(* Steps of the dialogs: the list waits until they are closed.                 *)
LEMMA DialogKeepsEditor ==
  ASSUME EditorInv,
         UNCHANGED <<original, steps, current, chosen, trigger, mode, spin, keptCount, countEdited, okEnabled, result,
                     phase>>,
         \/ dialog' = Editor!NoDialog \/ dialog' = dialog
         \/ StepDialog(dialog') \/ RecorderDialog(dialog') \/ ReviewDialog(dialog')
  PROVE  EditorInv'
<1>1. ListInv'
  BY ListStays DEF EditorInv
<1>2. StepDialog(dialog)' <=> StepDialog(dialog')
  BY DEF StepDialog
<1>3. RecorderDialog(dialog)' <=> RecorderDialog(dialog')
  BY DEF RecorderDialog
<1>4. ReviewDialog(dialog)' <=> ReviewDialog(dialog')
  BY DEF ReviewDialog, RecordingTold
<1>5. DialogFits'
  <2>1. CASE dialog' = dialog
    BY <2>1, DialogStays DEF EditorInv
  <2>2. CASE dialog' # dialog
    BY <1>2, <1>3, <1>4, <2>2, NothingOpen
  <2>3. QED
    BY <2>1, <2>2
<1>6. QED
  BY <1>1, <1>5, RestStays DEF EditorInv

LEMMA StepKeepsEditor ==
  ASSUME EditorInv, Editor!AddStep \/ Editor!EditStep \/ Editor!ChangeField
  PROVE  EditorInv'
<1>1. ASSUME NEW at \in DOMAIN steps \cup {0}, NEW s \in Editor!Steps, Editor!OpenStep(at, s) PROVE EditorInv'
  <2>1. /\ UNCHANGED <<original, steps, current, chosen, trigger, mode, spin, keptCount, countEdited, okEnabled,
                       result, phase>>
        /\ dialog' = [type |-> "step", row |-> at, fields |-> Editor!Fields(s)]
    BY <1>1, InputIsOpen DEF Editor!OpenStep, Editor!listVars, Editor!repeatVars
  <2>2. StepDialog(dialog')
    BY <2>1, StepsRoundTrip DEF StepDialog
  <2>3. QED
    BY <2>1, <2>2, DialogKeepsEditor
<1>2. CASE Editor!AddStep
  <2>1. Editor!Key("KEY_A", "tap") \in Editor!Steps /\ Editor!Delay(1) \in Editor!Steps
    BY StepKinds, EditorLimits DEF Editor!ValidCodes, Editor!Actions
  <2>2. QED
    BY <1>1, <1>2, <2>1 DEF Editor!AddStep
<1>3. CASE Editor!EditStep
  <2>1. current \in DOMAIN steps /\ steps[current] \in Editor!Steps
    BY <1>3 DEF Editor!EditStep, EditorInv, ListInv
  <2>2. QED
    BY <1>1, <1>3, <2>1 DEF Editor!EditStep
<1>4. CASE Editor!ChangeField
  <2>1. /\ UNCHANGED <<original, steps, current, chosen, trigger, mode, spin, keptCount, countEdited, okEnabled,
                       result, phase>>
        /\ dialog.type = "step"
        /\ \E f \in Editor!FieldInputs(dialog.fields) : dialog' = [dialog EXCEPT !.fields = f]
    BY <1>4, InputIsOpen DEF Editor!ChangeField, Editor!listVars, Editor!repeatVars
  <2>2. StepDialog(dialog)
    BY <2>1, WhichDialog DEF EditorInv
  <2>3. dialog.fields \in FieldSets /\ \A f \in FieldSets : StepDialog([dialog EXCEPT !.fields = f])
    BY <2>2, DialogIs
  <2>4. StepDialog(dialog')
    BY <2>1, <2>3, InputsStayFields
  <2>5. QED
    BY <2>1, <2>4, DialogKeepsEditor
<1>5. QED
  BY <1>2, <1>3, <1>4

LEMMA HandleFits ==
  ASSUME NEW tape \in Seq(Tape), Len(tape) <= Editor!MaxRecorded, NEW e \in Editor!Events
  PROVE  Editor!Handle(tape, e) \in Seq(Tape) /\ Len(Editor!Handle(tape, e)) <= Editor!MaxRecorded
<1>1. CASE Editor!Recordable(e) /\ Len(tape) < Editor!MaxRecorded
  <2>1. e \in Tape
    BY <1>1 DEF Tape
  <2>2. Append(tape, e) \in Seq(Tape) /\ Len(Append(tape, e)) = Len(tape) + 1 /\ Len(tape) \in Nat
    BY <2>1
  <2>3. Editor!MaxRecorded \in Int
    BY EditorLimits DEF Editor!MaxRecorded
  <2>4. Len(Append(tape, e)) <= Editor!MaxRecorded
    BY <1>1, <2>2, <2>3
  <2>5. QED
    BY <1>1, <2>2, <2>4 DEF Editor!Handle
<1>2. CASE ~(Editor!Recordable(e) /\ Len(tape) < Editor!MaxRecorded)
  BY <1>2 DEF Editor!Handle
<1>3. QED
  BY <1>1, <1>2

LEMMA RecorderKeepsEditor ==
  ASSUME EditorInv, Editor!OpenRecorder \/ Editor!Record \/ Editor!Recorded
  PROVE  EditorInv'
<1>1. UNCHANGED <<original, steps, current, chosen, trigger, mode, spin, keptCount, countEdited, okEnabled, result,
                  phase>>
  BY InputIsOpen DEF Editor!OpenRecorder, Editor!Record, Editor!Recorded, Editor!listVars, Editor!repeatVars
<1>2. Editor!MaxRecorded \in Nat /\ 2 * Editor!MaxRecorded <= MaxSteps
  BY EditorLimits DEF Editor!MaxRecorded
<1>3. CASE Editor!OpenRecorder
  <2>1. dialog' = [type |-> "recorder", tape |-> <<>>]
    BY <1>3 DEF Editor!OpenRecorder
  <2> DEFINE empty == <<>>
  <2>2. empty \in Seq(Tape) /\ Len(empty) = 0
    BY EmptySeq
  <2>3. dialog' = [type |-> "recorder", tape |-> empty]
    BY <2>1
  <2> HIDE DEF empty
  <2>4. RecorderDialog(dialog')
    <3>1. Len(empty) <= Editor!MaxRecorded
      BY <1>2, <2>2
    <3>2. QED
      BY <2>2, <2>3, <3>1, Zenon DEF RecorderDialog
  <2>5. QED
    BY <1>1, <2>4, DialogKeepsEditor
<1>4. CASE Editor!Record
  <2>1. dialog.type = "recorder" /\ \E e \in Editor!Events : dialog' = [dialog EXCEPT !.tape = Editor!Handle(@, e)]
    BY <1>4 DEF Editor!Record
  <2>2. RecorderDialog(dialog)
    BY <2>1, WhichDialog DEF EditorInv
  <2>3. /\ dialog.tape \in Seq(Tape) /\ Len(dialog.tape) <= Editor!MaxRecorded
        /\ \A t \in Seq(Tape) : Len(t) <= Editor!MaxRecorded => RecorderDialog([dialog EXCEPT !.tape = t])
    BY <2>2, DialogIs
  <2>4. PICK e \in Editor!Events : dialog' = [dialog EXCEPT !.tape = Editor!Handle(dialog.tape, e)]
    BY <2>1
  <2>5. RecorderDialog(dialog')
    BY <2>3, <2>4, HandleFits
  <2>6. QED
    BY <1>1, <2>5, DialogKeepsEditor
<1>5. CASE Editor!Recorded
  <2> DEFINE rec == Editor!EventsToSteps(Editor!StripStopKey(dialog.tape))
  <2>1. /\ dialog.type = "recorder" /\ rec # <<>>
        /\ dialog' = [type |-> "review", steps |-> rec, ticks |-> DOMAIN rec, tape |-> dialog.tape]
    BY <1>5 DEF Editor!Recorded
  <2>2. RecorderDialog(dialog)
    BY <2>1, WhichDialog DEF EditorInv
  <2>3. dialog.tape \in Seq(Tape) /\ Len(dialog.tape) <= Editor!MaxRecorded
    BY <2>2, DialogIs
  <2>4. 2 * Len(dialog.tape) <= MaxSteps
    <3>1. Len(dialog.tape) \in Nat
      BY <2>3
    <3>2. QED
      BY <1>2, <2>3, <3>1, EditorLimits
  <2>5. rec \in Seq(Editor!Steps) /\ RecordingTold(rec, dialog.tape)
    BY <2>1, <2>3, <2>4, TapeIsReviewed
  <2> HIDE DEF rec
  <2>6. ReviewDialog(dialog')
    BY <2>1, <2>5 DEF ReviewDialog
  <2>7. QED
    BY <1>1, <2>6, DialogKeepsEditor
<1>6. QED
  BY <1>3, <1>4, <1>5

LEMMA ReviewKeepsEditor ==
  ASSUME EditorInv, Editor!Tick \/ Editor!DialogCancelled
  PROVE  EditorInv'
<1>1. UNCHANGED <<original, steps, current, chosen, trigger, mode, spin, keptCount, countEdited, okEnabled, result,
                  phase>>
  BY InputIsOpen DEF Editor!Tick, Editor!DialogCancelled, Editor!listVars, Editor!repeatVars
<1>2. CASE Editor!Tick
  <2>1. dialog.type = "review" /\ \E m : dialog' = [dialog EXCEPT !.ticks = m]
    BY <1>2 DEF Editor!Tick
  <2>2. ReviewDialog(dialog)
    BY <2>1, WhichDialog DEF EditorInv
  <2>3. ReviewDialog(dialog')
    BY <2>1, <2>2, DialogIs
  <2>4. QED
    BY <1>1, <2>3, DialogKeepsEditor
<1>3. CASE Editor!DialogCancelled
  BY <1>1, <1>3, DialogKeepsEditor DEF Editor!DialogCancelled
<1>4. QED
  BY <1>2, <1>3

(* Steps of the list. No dialog is open after them.                            *)
LEMMA ListKeepsEditor ==
  ASSUME EditorInv, ListInv',
         UNCHANGED <<original, trigger, mode, spin, keptCount, countEdited, result, phase>>, dialog' = Editor!NoDialog
  PROVE  EditorInv'
  BY NothingOpen, RestStays DEF EditorInv

LEMMA MoveKeepsEditor ==
  ASSUME EditorInv, NEW offset \in {-1, 1}, Editor!Move(offset)
  PROVE  EditorInv'
<1> DEFINE st == [steps EXCEPT ![current] = steps[current + offset], ![current + offset] = steps[current]]
<1>1. /\ UNCHANGED <<original, result, phase>> /\ dialog' = Editor!NoDialog
      /\ chosen = {current} /\ current + offset \in DOMAIN steps
      /\ Editor!Refresh(st, current + offset)
  BY InputIsOpen DEF Editor!Move, Editor!Idle, Editor!Single
<1>2. steps \in Seq(Editor!Steps) /\ Len(steps) <= MaxSteps /\ current \in DOMAIN steps
  BY <1>1 DEF EditorInv, ListInv
<1>3. steps[current] \in Editor!Steps /\ steps[current + offset] \in Editor!Steps
  BY <1>1, <1>2
<1>4. st \in Seq(Editor!Steps) /\ Len(st) = Len(steps)
  BY <1>1, <1>2, <1>3
<1> HIDE DEF st
<1>5. ListInv' /\ UNCHANGED <<trigger, mode, spin, keptCount, countEdited>>
  BY <1>1, <1>2, <1>4, RefreshFills
<1>6. QED
  BY <1>1, <1>5, ListKeepsEditor

LEMMA DeleteKeepsEditor ==
  ASSUME EditorInv, Editor!Delete
  PROVE  EditorInv'
<1> DEFINE st == Editor!Checked(steps, DOMAIN steps \ chosen)
<1>1. /\ UNCHANGED <<original, result, phase>> /\ dialog' = Editor!NoDialog
      /\ \E at : Editor!Refresh(st, at)
  BY InputIsOpen DEF Editor!Delete, Editor!Idle
<1>2. steps \in Seq(Editor!Steps) /\ Len(steps) <= MaxSteps /\ Len(steps) \in Nat
  BY DEF EditorInv, ListInv
<1>3. st \in Seq(Editor!Steps) /\ Len(st) <= Len(steps)
  BY <1>2, CheckedFit
<1> HIDE DEF st
<1>4. Len(st) <= MaxSteps
  BY <1>2, <1>3, EditorLimits
<1>5. ListInv' /\ UNCHANGED <<trigger, mode, spin, keptCount, countEdited>>
  BY <1>1, <1>3, <1>4, RefreshFills
<1>6. QED
  BY <1>1, <1>5, ListKeepsEditor

LEMMA StepDoneKeepsEditor ==
  ASSUME EditorInv, Editor!StepDone
  PROVE  EditorInv'
<1> DEFINE s == Editor!StepOf(dialog.fields)
           st == [steps EXCEPT ![dialog.row] = s]
<1>1. /\ UNCHANGED <<original, result, phase>> /\ dialog' = Editor!NoDialog /\ dialog.type = "step"
      /\ \/ dialog.row = 0 /\ Editor!Insert(<<s>>)
         \/ dialog.row # 0 /\ Editor!Refresh(st, dialog.row)
  BY DEF Editor!StepDone
<1>2. StepDialog(dialog)
  BY <1>1, WhichDialog DEF EditorInv
<1>3. dialog.row \in DOMAIN steps \cup {0} /\ dialog.fields \in FieldSets
  BY <1>2, DialogIs
<1>4. s \in Editor!Steps
  BY <1>3, StepsOfFields
<1> HIDE DEF s
<1>5. CASE dialog.row = 0 /\ Editor!Insert(<<s>>)
  <2>1. <<s>> \in Seq(Editor!Steps)
    BY <1>4
  <2>2. ListInv' /\ UNCHANGED <<trigger, mode, spin, keptCount, countEdited>>
    BY <1>5, <2>1, InsertFills DEF EditorInv
  <2>3. QED
    BY <1>1, <2>2, ListKeepsEditor
<1>6. CASE dialog.row # 0 /\ Editor!Refresh(st, dialog.row)
  <2>1. steps \in Seq(Editor!Steps) /\ Len(steps) <= MaxSteps
    BY DEF EditorInv, ListInv
  <2>2. st \in Seq(Editor!Steps) /\ Len(st) = Len(steps)
    BY <1>3, <1>4, <1>6, <2>1
  <2> HIDE DEF st
  <2>3. ListInv' /\ UNCHANGED <<trigger, mode, spin, keptCount, countEdited>>
    BY <1>6, <2>1, <2>2, RefreshFills
  <2>4. QED
    BY <1>1, <2>3, ListKeepsEditor
<1>7. QED
  BY <1>1, <1>5, <1>6

LEMMA ReviewedKeepsEditor ==
  ASSUME EditorInv, Editor!Reviewed
  PROVE  EditorInv'
<1>1. /\ UNCHANGED <<original, result, phase>> /\ dialog' = Editor!NoDialog /\ dialog.type = "review"
      /\ \/ UNCHANGED <<steps, current, chosen, trigger, mode, spin, keptCount, countEdited, okEnabled>>
         \/ Editor!Insert(Editor!Checked(dialog.steps, dialog.ticks))
  BY DEF Editor!Reviewed, Editor!listVars, Editor!repeatVars
<1>2. CASE UNCHANGED <<steps, current, chosen, trigger, mode, spin, keptCount, countEdited, okEnabled>>
  BY <1>1, <1>2, DialogKeepsEditor
<1>3. CASE Editor!Insert(Editor!Checked(dialog.steps, dialog.ticks))
  <2>1. ReviewDialog(dialog)
    BY <1>1, WhichDialog DEF EditorInv
  <2>2. dialog.steps \in Seq(Editor!Steps)
    BY <2>1, DialogIs
  <2>3. Editor!Checked(dialog.steps, dialog.ticks) \in Seq(Editor!Steps)
    BY <2>2, CheckedFit
  <2>4. ListInv' /\ UNCHANGED <<trigger, mode, spin, keptCount, countEdited>>
    BY <1>3, <2>3, InsertFills DEF EditorInv
  <2>5. QED
    BY <1>1, <2>4, ListKeepsEditor
<1>4. QED
  BY <1>1, <1>2, <1>3

-----------------------------------------------------------------------------
(* The editor from its first step on.                                          *)
LEMMA EditorStart == Editor!Init => EditorInv
<1> SUFFICES ASSUME Editor!Init PROVE EditorInv
  OBVIOUS
<1>1. /\ original \in OpenedMacros /\ steps = original.steps /\ trigger = original.trigger
      /\ current = 0 /\ chosen = {} /\ mode = original.mode /\ spin = Editor!Clamp(original.count)
      /\ keptCount = IF original.mode = "times" THEN Editor!NoCount ELSE original.count
      /\ okEnabled = Editor!IsValid(Editor!Macro) /\ dialog = Editor!NoDialog /\ result = original
      /\ phase = "open" /\ countEdited = FALSE
  BY DEF Editor!Init
<1>2. /\ original.steps \in Seq(Editor!Steps) /\ original.trigger \in Editor!Triggers
      /\ original.mode \in Editor!Modes /\ original.count \in Int /\ Len(original.steps) <= MaxSteps
  BY <1>1, OpenedFit
<1>3. ListInv
  BY <1>1, <1>2 DEF ListInv
<1>4. DialogFits
  BY <1>1 DEF DialogFits
<1>5. Editor!Clamp(original.count) \in 1..MaxCount
  BY <1>2, EditorLimits DEF Editor!Clamp
<1>6. InputsFit
  BY <1>1, <1>2, <1>5 DEF InputsFit
<1>7. CountAgrees
  BY <1>1 DEF CountAgrees
<1>8. ResultFits
  BY <1>1 DEF ResultFits
<1>9. QED
  BY <1>3, <1>4, <1>6, <1>7, <1>8 DEF EditorInv

LEMMA EditorInvKept == EditorInv /\ Editor!Next => EditorInv'
<1> SUFFICES ASSUME EditorInv, Editor!Next PROVE EditorInv'
  OBVIOUS
<1>1. CASE \E c \in DOMAIN steps : \E picked \in SUBSET DOMAIN steps : Editor!Select(c, picked)
  BY <1>1, SelectKeepsEditor
<1>2. CASE \E offset \in {-1, 1} : Editor!Move(offset)
  BY <1>2, MoveKeepsEditor
<1>3. CASE Editor!Delete
  BY <1>3, DeleteKeepsEditor
<1>4. CASE Editor!AddStep \/ Editor!EditStep \/ Editor!ChangeField
  BY <1>4, StepKeepsEditor
<1>5. CASE Editor!StepDone
  BY <1>5, StepDoneKeepsEditor
<1>6. CASE Editor!OpenRecorder \/ Editor!Record \/ Editor!Recorded
  BY <1>6, RecorderKeepsEditor
<1>7. CASE Editor!Tick \/ Editor!DialogCancelled
  BY <1>7, ReviewKeepsEditor
<1>8. CASE Editor!Reviewed
  BY <1>8, ReviewedKeepsEditor
<1>9. CASE \/ \E t \in Editor!Triggers : Editor!SetTrigger(t)
           \/ \E m \in Editor!Modes : Editor!SetMode(m)
           \/ \E n \in 1..MaxCount : Editor!SetCount(n)
  BY <1>9, SettingKeepsEditor
<1>10. CASE Editor!Accept \/ Editor!Reject
  BY <1>10, LeavingKeepsEditor
<1>11. QED
  BY <1>1, <1>2, <1>3, <1>4, <1>5, <1>6, <1>7, <1>8, <1>9, <1>10 DEF Editor!Next

LEMMA EditorIdle ==
  ASSUME EditorInv, UNCHANGED <<editorOwn, current, chosen, phase>>
  PROVE  EditorInv'
<1>1. UNCHANGED <<original, steps, current, chosen, trigger, mode, spin, keptCount, countEdited, okEnabled, result,
                  phase, dialog>>
  BY DEF editorOwn
<1>2. QED
  BY <1>1, DialogKeepsEditor

LEMMA SizesOfEditor == ASSUME NEW S PROVE Editor!Cardinality(S) = Cardinality(S)
  BY DEF Editor!Cardinality, Cardinality

LEMMA EditorAgrees == EditorInv => Editor!EditorIsFaithful
<1> SUFFICES ASSUME EditorInv PROVE Editor!EditorIsFaithful
  OBVIOUS
<1>1. Editor!AcceptedIsValid /\ Editor!CountIsKept
  BY DEF EditorInv, ResultFits, Editor!AcceptedIsValid, Editor!CountIsKept
<1>2. Editor!StepsRoundTrip
  <2>1. \A i \in DOMAIN steps : steps[i] \in Editor!Steps
    BY DEF EditorInv, ListInv
  <2>2. QED
    BY <2>1, StepsRoundTrip DEF Editor!StepsRoundTrip
<1>3. Editor!RecordingIsWhole
  <2> SUFFICES ASSUME dialog.type = "review" PROVE Editor!RecordingIsWhole
    BY DEF Editor!RecordingIsWhole
  <2>1. ReviewDialog(dialog)
    BY WhichDialog DEF EditorInv
  <2>2. RecordingTold(dialog.steps, dialog.tape)
    BY <2>1, DialogIs
  <2>3. QED
    BY <2>2, ThoseOfEditor, SizesOfEditor DEF RecordingTold, Editor!RecordingIsWhole
<1>4. Editor!ListFits
  BY DEF EditorInv, ListInv, Editor!ListFits
<1>5. QED
  BY <1>1, <1>2, <1>3, <1>4 DEF Editor!EditorIsFaithful

LEMMA EditorTypes == EditorInv => Editor!TypeOK
<1> SUFFICES ASSUME EditorInv PROVE Editor!TypeOK
  OBVIOUS
<1>1. \A i \in DOMAIN steps : steps[i].type \in {"key", "wheel", "delay", "app"}
  <2>1. \A i \in DOMAIN steps : steps[i] \in Editor!Steps
    BY DEF EditorInv, ListInv
  <2>2. QED
    BY <2>1, StepTypes
<1>2. okEnabled \in BOOLEAN
  BY DEF EditorInv, ListInv, Editor!IsValid
<1>3. dialog.type \in {"none", "step", "recorder", "review"}
  BY WhichDialog DEF EditorInv
<1>4. QED
  BY <1>1, <1>2, <1>3 DEF EditorInv, InputsFit, CountAgrees, Editor!TypeOK

=============================================================================
