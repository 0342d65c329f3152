---------------------------- MODULE KeySelector ----------------------------
(* The key grid of one device (ui/key_selector.py): selecting keys with clicks, *)
(* a rubber band and the keyboard. A device map may leave holes in the grid.   *)
(* Positions of the pointer are abstracted to the cell under it and to the     *)
(* cells a band touches; a hole under the pointer selects nothing.             *)
EXTENDS Integers

CONSTANTS Rows, Cols,
          Valid,     \* the keys the device has
          MaxInputs
Grid == (1..Rows) \X (1..Cols)
SelectorAssumption == /\ Rows \in Nat /\ Cols \in Nat /\ MaxInputs \in Nat
                      /\ Valid # {} /\ Valid \subseteq Grid

NoPress == <<0, 0>>

VARIABLES selection,
          cursor,   \* the key with the keyboard's focus
          anchor,   \* where a rectangle starts
          press,    \* where the button went down, or NoPress
          band,     \* the keys under the rubber band, {} before the pointer moved
          dragBase, \* what was selected when a Ctrl drag started
          keyed,    \* history: the selection was changed from elsewhere since the last move
          told,     \* what selection_changed said last
          inputs
vars == <<selection, cursor, anchor, press, band, dragBase, keyed, told, inputs>>

(* _rectangle()                                                                *)
Between(a, b) == IF a <= b THEN a..b ELSE b..a
Rectangle(p, q) == Between(p[1], q[1]) \X Between(p[2], q[2])

First == CHOOSE c \in Valid : \A d \in Valid : c[1] < d[1] \/ (c[1] = d[1] /\ c[2] <= d[2])

Init == /\ selection = {} /\ told = {}
        /\ cursor = First /\ anchor = First
        /\ press = NoPress /\ band = {} /\ dragBase = {} /\ keyed = FALSE
        /\ inputs = 0

Input == inputs < MaxInputs /\ inputs' = inputs + 1

(* _change(): news only of a selection that is another one.                    *)
Change(cells) == /\ selection' = cells
                 /\ told' = IF cells # selection THEN cells ELSE told

(* A band in progress no longer says what is selected.                         *)
Elsewhere == keyed' = TRUE

(* set_selection(): keys that are not there are ignored.                       *)
SetSelection(cells) == /\ Input /\ Elsewhere /\ Change(cells \cap Valid)
                       /\ UNCHANGED <<cursor, anchor, press, band, dragBase>>

(* mousePressEvent(): one key, Ctrl for one more or less, Shift for the        *)
(* rectangle from the anchor, which then stays.                                *)
Press(p, ctrl, shift) ==
    /\ Input /\ press = NoPress
    /\ press' = p
    /\ dragBase' = IF ctrl THEN selection ELSE {}
    /\ IF p \notin Valid THEN UNCHANGED <<selection, told, cursor, anchor>>
       ELSE /\ cursor' = p
            /\ IF shift THEN /\ Change(dragBase' \cup (Rectangle(anchor, p) \cap Valid))
                             /\ UNCHANGED anchor
               ELSE /\ Change(IF ctrl THEN (selection \cup {p}) \ (selection \cap {p}) ELSE {p})
                    /\ anchor' = p
    /\ keyed' = FALSE
    /\ UNCHANGED band

(* mouseMoveEvent(): the band selects what it touches, on top of what a Ctrl   *)
(* drag started with; a band that shrinks lets go of keys again.               *)
MoveTo(p) ==
    /\ Input /\ press # NoPress
    /\ band' = Rectangle(press, p) \cap Valid
    /\ Change(dragBase \cup band')
    /\ keyed' = FALSE
    /\ UNCHANGED <<cursor, anchor, press, dragBase>>

Release == /\ press # NoPress /\ press' = NoPress /\ band' = {}
           /\ UNCHANGED <<selection, told, cursor, anchor, dragBase, keyed, inputs>>

(* _arrow(): to the next key that way, over holes; Shift extends from the      *)
(* anchor.                                                                     *)
At(from, step, n) == <<from[1] + n * step[1], from[2] + n * step[2]>>
Ahead(from, step) == {n \in 1..(Rows + Cols) : At(from, step, n) \in Valid}
Nearest(from, step) ==
    LET ns == Ahead(from, step)
    IN At(from, step, CHOOSE n \in ns : \A m \in ns : n <= m)
Steps == {<<0, 1>>, <<0, -1>>, <<1, 0>>, <<-1, 0>>}

Arrow(step, extend) ==
    /\ Input /\ Elsewhere /\ Ahead(cursor, step) # {}
    /\ cursor' = Nearest(cursor, step)
    /\ IF extend THEN Change(Rectangle(anchor, cursor') \cap Valid) /\ UNCHANGED anchor
                 ELSE anchor' = cursor' /\ UNCHANGED <<selection, told>>
    /\ UNCHANGED <<press, band, dragBase>>

(* keyPressEvent(): Space, Ctrl+A and Esc.                                     *)
Space == /\ Input /\ Elsewhere
         /\ Change((selection \cup {cursor}) \ (selection \cap {cursor}))
         /\ anchor' = cursor
         /\ UNCHANGED <<cursor, press, band, dragBase>>
SelectAll == Input /\ Elsewhere /\ Change(Valid) /\ UNCHANGED <<cursor, anchor, press, band, dragBase>>
Escape == Input /\ Elsewhere /\ selection # {} /\ Change({})
          /\ UNCHANGED <<cursor, anchor, press, band, dragBase>>

Next == \/ \E cells \in SUBSET Grid : SetSelection(cells)
        \/ \E p \in Grid : MoveTo(p) \/ \E c, s \in BOOLEAN : Press(p, c, s)
        \/ \E step \in Steps, e \in BOOLEAN : Arrow(step, e)
        \/ Release \/ Space \/ SelectAll \/ Escape

Spec == Init /\ [][Next]_vars

-----------------------------------------------------------------------------
TypeOK == /\ press \in Grid \cup {NoPress} /\ inputs \in 0..MaxInputs

(* Whatever the order of clicks, drags and keys: what is selected are keys the *)
(* device has, the listener was told of exactly them, and the focus and the    *)
(* anchor are on keys.                                                         *)
SelectionIsTold == /\ selection = told /\ selection \subseteq Valid
                   /\ cursor \in Valid /\ anchor \in Valid

(* A rubber band selects what it touches and what a Ctrl drag kept, nothing it *)
(* touched on its way; only a key pressed meanwhile changes that.              *)
BandIsExact == press # NoPress /\ band # {} /\ ~keyed => selection = dragBase \cup band

(* An arrow that is answered by the opposite arrow comes back.                 *)
ArrowsComeBack ==
    \A c \in Valid : \A step \in Steps : Ahead(c, step) # {} =>
        Nearest(Nearest(c, step), <<0 - step[1], 0 - step[2]>>) = c
=============================================================================
