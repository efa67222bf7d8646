------------------------------ MODULE MCInterface ------------------------------
(* Eight users: three type, two click, one manages and one rotates the window, *)
(* and one has no control of the device.                                      *)
EXTENDS Interface, TLC

MCBounds == Size(6, 6)
MCFullSize == Size(8, 7)

Portrait == Size(2, 4)
Landscape == Size(4, 2)

Options == [control |-> TRUE, forward_key_repeat |-> TRUE, prefer_text |-> FALSE,
            forward_all_clicks |-> FALSE, legacy_paste |-> FALSE,
            shortcut_mods |-> {{"alt"}, {"ctrl", "alt"}}]
Doing == [keys |-> {}, mods |-> {}, buttons |-> {}, sizes |-> {Landscape}, rotations |-> {0},
          asked |-> {Size(0, 0)}, drags |-> {}, manages |-> FALSE]

MCUsers ==
  { [Options EXCEPT !.shortcut_mods = {{"alt"}}]
      @@ [Doing EXCEPT !.keys = {"h", "UP", "v", "a", "w"}, !.mods = Modifiers],
    Options @@ [Doing EXCEPT !.keys = {"b", "n", "v"}, !.mods = {"alt", "ctrl"}],
    [Options EXCEPT !.forward_key_repeat = FALSE, !.prefer_text = TRUE,
                    !.legacy_paste = TRUE, !.shortcut_mods = {{"ctrl"}}]
      @@ [Doing EXCEPT !.keys = {"BACKSPACE", "r", "v", "a"}, !.mods = Modifiers],
    Options @@ [Doing EXCEPT !.buttons = Buttons, !.mods = {"ctrl"}, !.drags = {Size(5, 5)}],
    [Options EXCEPT !.forward_all_clicks = TRUE]
      @@ [Doing EXCEPT !.buttons = Buttons, !.mods = {"ctrl"}],
    [Options EXCEPT !.shortcut_mods = {{"alt"}}]
      @@ [Doing EXCEPT !.keys = {"f", "w", "g"}, !.mods = {"alt"}, !.asked = {Size(5, 4)},
                       !.sizes = {Portrait, Landscape}, !.manages = TRUE],
    [Options EXCEPT !.shortcut_mods = {{"alt"}}]
      @@ [Doing EXCEPT !.keys = {"LEFT", "f", "g"}, !.mods = {"alt"}, !.manages = TRUE],
    [Options EXCEPT !.control = FALSE]
      @@ [Doing EXCEPT !.keys = {"h", "a", "o", "RIGHT"}, !.buttons = {"LEFT_BUTTON", "X2_BUTTON"},
                       !.mods = {"alt"}, !.asked = {Size(3, 0), Size(0, 3)}, !.drags = {Size(5, 5)}] }
===============================================================================
