------------------------------- MODULE MCGui -------------------------------
(***************************************************************************)
(* What the parts of the GUI find at their start in the checked instance.   *)
(***************************************************************************)
EXTENDS Gui

(* macros.json: one that cannot be read, a corrupt one, or an old one with two *)
(* entries for one device, which claim a trigger and an id twice.              *)
OldMacro(i, t) == [id |-> i, trigger |-> t, ok |-> TRUE]
OldEntry(ms) == [device |-> 1, macros |-> ms]
MCMacroFiles == {[is |-> "unreadable", entries |-> <<OldEntry(<<OldMacro(1, "a")>>)>>],
                 [is |-> "corrupt", entries |-> <<>>],
                 [is |-> "ok", entries |-> <<OldEntry(<<OldMacro(1, "a")>>),
                                             OldEntry(<<OldMacro(2, "b"), OldMacro(1, "b")>>)>>]}

(* An empty macro; keys that are pressed and not let go of, with a count the   *)
(* box cannot show; a toggle and a wheel step.                                 *)
Step(t, code, action, ms) == [type |-> t, code |-> code, action |-> action, ms |-> ms]
MCOpenedMacros ==
  {[steps |-> <<>>, trigger |-> "KEY_A", mode |-> "once", count |-> 1],
   [steps |-> <<Step("key", "BTN_SIDE", "press", 0), Step("delay", "", "", 2),
                Step("key", "KEY_A", "release", 0)>>,
    trigger |-> "BTN_SIDE", mode |-> "once", count |-> 9],
   [steps |-> <<Step("app", "toggle_sysmon", "", 0), Step("wheel", "up", "", 0)>>,
    trigger |-> "BTN_SIDE", mode |-> "times", count |-> 2]}

(* Two presets, one with a group on one keyboard, one with groups on both; the *)
(* first one has a key that the keyboard does not have.                        *)
OldGroup(n, e) == [name |-> n, cells |-> {n}, effect |-> e]
Foreign == [name |-> 1, cells |-> {1, 3}, effect |-> "static"]
OldPreset(n, programs) == [key |-> <<<<n, 0>>, 1>>, label |-> <<n, 0>>, programs |-> programs]
MCSavedPresets ==
  {<<>>,
   <<OldPreset("Own", <<<<Foreign>>, <<>>>>),
     OldPreset("Sea", <<<<OldGroup(1, "wave"), OldGroup(2, "static")>>,
                        <<OldGroup(1, "wave"), OldGroup(2, "static")>>>>)>>}

(* A grid with a hole.                                                         *)
MCGridKeys == ((1 .. 2) \X (1 .. 3)) \ {<<1, 2>>}

(* One group beyond what the form can show, and one within.                    *)
MCShownEffects ==
  <<[type |-> "static", speed |-> 3, angle |-> 4, palette |-> <<"c1">>, direction |-> "back"],
    [type |-> "wave", speed |-> 2, angle |-> 1, palette |-> <<"c2", "c1">>, direction |-> "forth"]>>

(* m1 takes any DPI and has polling rates, m2 has a fixed list and no rates.   *)
MCMaxDpi == [m1 |-> 2, m2 |-> 3]
MCChoices == [m1 |-> {}, m2 |-> {1, 3}]
MCRates == [m1 |-> {1, 2}, m2 |-> {}]

(* No file, one that cannot be read, a bad one, current ones and ones of an    *)
(* earlier version.                                                            *)
ADisk(d, max) == [device |-> d, max |-> max]
AConfig(on, disks, ax, ay) == [enabled |-> on, disks |-> disks, x |-> ax, y |-> ay, interval |-> 1]
AFile(is, c, edge) == [is |-> is, config |-> c, edge |-> edge]
MCDetected == <<ADisk("sda", 2), ADisk("sdb", 2)>>
MCMonitorFiles ==
  {AFile("missing", AConfig(FALSE, <<>>, "right", "top"), "none"),
   AFile("unreadable", AConfig(FALSE, <<>>, "right", "top"), "none"),
   AFile("bad", AConfig(FALSE, <<>>, "right", "top"), "none"),
   AFile("ok", AConfig(TRUE, <<ADisk("sdb", 1)>>, "left", "bottom"), "none"),
   AFile("ok", AConfig(FALSE, <<>>, "center", "top"), "left"),
   AFile("ok", AConfig(FALSE, <<>>, "center", "center"), "bottom"),
   AFile("ok", AConfig(TRUE, <<>>, "center", "center"), "none")}

MCInputsOf == [pages |-> 2, editor |-> 4, grouping |-> 4, keys |-> 3, lights |-> 5,
               mouse |-> 4, monitor |-> 3, prefs |-> 4]
=============================================================================
