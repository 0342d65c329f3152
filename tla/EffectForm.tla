----------------------------- MODULE EffectForm -----------------------------
(* The form of one key group's effect (ui/key_effect_editor.py) under the list *)
(* of groups that fills it (ui/effects_groups.py). Its widgets hold less than  *)
(* an effect can: a slider has steps of two units of speed, and the angle      *)
(* goes round. Showing a group sets widget after widget, and each of them      *)
(* tells of its change.                                                        *)
EXTENDS Integers, Sequences

CONSTANTS Types,      \* kinds of effects
          MaxSpeed,   \* in steps of the slider
          MaxAngle,   \* a full turn
          Colours, MaxPalette,
          Shown,      \* the effects of the groups when the page is opened
          MaxEdits

VARIABLES groups,  \* the effects of the program's groups
          row,     \* the group that is chosen, 0 for none
          base,    \* _base: the effect the form was filled from
          form,    \* the widgets
          loading, \* _loading
          todo,    \* what set_effect() has still to put into the widgets
          edited,  \* [rows -> the user edited this group]
          edits
vars == <<groups, row, base, form, loading, todo, edited, edits>>

New == CHOOSE c \in Colours : TRUE   \* NEW_COLOUR
Fields == <<"type", "speed", "angle", "palette">>   \* in the order of set_effect()
Rows == 1..Len(Shown)

(* KeyEffect.validate()                                                        *)
Palettes == {p \in Seq(Colours) : Len(p) \in 1..MaxPalette}
Effects == [type : Types, speed : 0..(2 * MaxSpeed), angle : 0..MaxAngle, palette : Palettes,
            direction : {Shown[r].direction : r \in Rows}]
FormAssumption == /\ MaxSpeed \in Nat /\ MaxAngle \in Nat \ {0}
                  /\ MaxPalette \in Nat /\ MaxEdits \in Nat
                  /\ Len(Shown) \in Nat \ {0} /\ Shown \in [Rows -> Effects]

(* What the widgets make of an effect: round() of a half goes to the even      *)
(* step.                                                                       *)
Step(speed) == LET half == speed \div 2 IN IF speed % 2 = 1 /\ half % 2 = 1 THEN half + 1 ELSE half
Widgets(e) == [type |-> e.type, speed |-> Step(e.speed), angle |-> e.angle % MaxAngle,
               palette |-> e.palette]

(* effect(): the base with everything the widgets say.                         *)
Current(b, f) == [type |-> f.type, speed |-> 2 * f.speed, angle |-> f.angle,
                  palette |-> f.palette, direction |-> b.direction]

(* _emit(), and _on_effect() of the list: the chosen group gets the effect.    *)
Emit(b, f, busy) ==
    groups' = IF busy \/ row = 0 THEN groups ELSE [groups EXCEPT ![row] = Current(b, f)]

Init == /\ groups = Shown /\ row = 0
        /\ base = Shown[1] /\ form = Widgets(Shown[1])
        /\ loading = FALSE /\ todo = <<>>
        /\ edited = [r \in Rows |-> FALSE] /\ edits = 0

(* _on_row(): the list has moved on when the form is filled.                   *)
ChooseRow(r) ==
    /\ ~loading /\ r # row
    /\ row' = r /\ base' = groups[r] /\ loading' = TRUE
    /\ todo' = Fields
    /\ UNCHANGED <<groups, form, edited, edits>>

(* One widget of set_effect(): it tells of a change.                           *)
FillWidget ==
    /\ todo # <<>>
    /\ form' = [form EXCEPT ![Head(todo)] = Widgets(base)[Head(todo)]]
    /\ todo' = Tail(todo)
    /\ IF form' = form THEN UNCHANGED groups ELSE Emit(base, form', loading)
    /\ UNCHANGED <<row, base, loading, edited, edits>>

(* Its finally.                                                                *)
Filled == /\ loading /\ todo = <<>>
          /\ loading' = FALSE
          /\ UNCHANGED <<groups, row, base, form, todo, edited, edits>>

(* A widget in the user's hand; fields that the effect does not use are        *)
(* hidden, their values stay.                                                  *)
Edit(f) == /\ ~loading /\ row # 0 /\ edits < MaxEdits /\ f # form
           /\ form' = f /\ Emit(base, f, FALSE)
           /\ edited' = [edited EXCEPT ![row] = TRUE]
           /\ edits' = edits + 1
           /\ UNCHANGED <<row, base, loading, todo>>

SetType(t) == Edit([form EXCEPT !.type = t])
SetSpeed(n) == Edit([form EXCEPT !.speed = n])
SetAngle(a) == Edit([form EXCEPT !.angle = a])   \* dial and spin box follow each other
PickColour(i, c) == i \in DOMAIN form.palette /\ Edit([form EXCEPT !.palette[i] = c])

(* _add_colour(), _remove_colour()                                             *)
AddColour == Len(form.palette) < MaxPalette /\ Edit([form EXCEPT !.palette = Append(@, New)])
RemoveColour ==
    /\ Len(form.palette) > 1
    /\ Edit([form EXCEPT !.palette = SubSeq(@, 1, Len(@) - 1)])

Next == \/ \E r \in Rows : ChooseRow(r)
        \/ FillWidget \/ Filled
        \/ \E t \in Types : SetType(t)
        \/ \E n \in 0..MaxSpeed : SetSpeed(n)
        \/ \E a \in 0..(MaxAngle - 1) : SetAngle(a)
        \/ \E i \in 1..MaxPalette, c \in Colours : PickColour(i, c)
        \/ AddColour \/ RemoveColour

Spec == Init /\ [][Next]_vars

-----------------------------------------------------------------------------
(* The types: the groups and the effect the form was filled from are legal     *)
(* effects, the widgets are in their ranges, and set_effect() goes through its *)
(* fields in their order.                                                      *)
TypeOK ==
    /\ groups \in [Rows -> Effects] /\ base \in Effects
    /\ row \in Rows \cup {0}
    /\ form \in [type : Types, speed : 0..MaxSpeed, angle : 0..(MaxAngle - 1),
                 palette : Palettes]
    /\ loading \in BOOLEAN /\ edited \in [Rows -> BOOLEAN]
    /\ todo \in {<<>>, <<"palette">>, <<"angle", "palette">>,
                 <<"speed", "angle", "palette">>, Fields}
    /\ todo # <<>> => loading

(* A group the user only looked at keeps its effect to the last unit, whichever *)
(* groups the form showed before and after.                                    *)
LookingChangesNothing == \A r \in Rows : ~edited[r] => groups[r] = Shown[r]

(* Every effect can be saved, keeps what the form has no widget for, and the   *)
(* chosen one is what the form shows.                                          *)
FormIsTrue ==
    /\ \A r \in Rows : groups[r] \in Effects /\ groups[r].direction = Shown[r].direction
    /\ row # 0 /\ ~loading => form = Widgets(groups[row])

EffectFormIsFaithful == LookingChangesNothing /\ FormIsTrue
=============================================================================
