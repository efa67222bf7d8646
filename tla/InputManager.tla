----------------------------- MODULE InputManager -----------------------------
(****************************************************************************)
(* The input manager (input_manager.c): what the user does with the         *)
(* keyboard and the mouse becomes messages for the controller, or           *)
(* operations on the window.  The controller may refuse any message: its    *)
(* queue may be full.                                                       *)
(*                                                                          *)
(* Positions, metastates, numbers of repetitions, and which of the two      *)
(* panels is expanded are left out; the shortcut of the FPS counter is in   *)
(* Screen.tla.                                                              *)
(****************************************************************************)
EXTENDS Window

VARIABLES
  user,          \* the options, and what this user has and does
  vfinger_down,
  mods,          \* external: the modifiers that are pressed
  sent,          \* the kinds of messages that the last event made
  owed           \* what was pressed on the device and is to be released

inputManager == <<user, vfinger_down, mods, sent, owed>>

\* SDLK of the keys that are shortcuts, and the Android key they stand for.
DeviceKey == [h |-> "HOME", b |-> "BACK", BACKSPACE |-> "BACK", s |-> "APP_SWITCH",
              m |-> "MENU", p |-> "POWER", c |-> "COPY", x |-> "CUT",
              DOWN |-> "VOLUME_DOWN", UP |-> "VOLUME_UP"]
\* The other shortcuts: for the device, and for the window.
OnceKeys == {"o", "v", "n", "r"}
WindowKeys == {"LEFT", "RIGHT", "f", "w", "g"}
Modifiers == {"ctrl", "alt", "shift"}
Buttons == {"LEFT_BUTTON", "RIGHT_BUTTON", "MIDDLE_BUTTON", "X1_BUTTON", "X2_BUTTON"}

\* The modifiers that count are exactly those of a shortcut.
is_shortcut_mod(m) == m \ {"shift"} \in user.shortcut_mods

\* convert_keycode; prefer_text leaves letters to the text events.
Letter(key) == key \notin {"BACKSPACE", "UP", "DOWN", "LEFT", "RIGHT", "ctrl", "shift"}
Converted(key, m) ==
  /\ key # "alt"
  /\ Letter(key) => "alt" \notin m /\ (user.prefer_text => "ctrl" \in m)

-------------------------------------------------------------------------------
(* controller_push_msg *)

Quiet == sent' = {} /\ UNCHANGED owed

\* A message that presses nothing, accepted or not.
PushOnce(kind) == sent' \in {{}, {kind}} /\ UNCHANGED owed

\* After messages of other kinds, a thing of the device is pressed or released,
\* while the device was owed what before says.  When it is refused, nothing is
\* owed any more.
PushKey(before, thing, down, kinds) ==
  \/ /\ sent' = kinds \cup {"key"}
     /\ owed' = IF down THEN before \cup {thing} ELSE before \ {thing}
  \/ /\ sent' = kinds
     /\ owed' = before \ {thing}

-------------------------------------------------------------------------------
(* input_manager_process_key: the key is pressed, repeated or released, with  *)
(* the modifiers m.                                                           *)

\* Faulty: the release of a shortcut is not sent.
ForwardShortcutDown(key, down, repeat, m, before) ==
  IF user.control /\ "shift" \notin m /\ (repeat => key \in {"UP", "DOWN"}) /\ down
    THEN PushKey(before, DeviceKey[key], down, {})
    ELSE sent' = {} /\ owed' = before

\* Shortcuts that press and release a key of the device.
ForwardShortcut(key, down, repeat, m, before) ==
  IF user.control /\ "shift" \notin m /\ (repeat => key \in {"UP", "DOWN"})
    THEN PushKey(before, DeviceKey[key], down, {})
    ELSE sent' = {} /\ owed' = before

\* Faulty: the shortcut does not depend on control.
OnceShortcutAnyway(key, down, repeat, m) ==
  IF down /\ ~repeat /\ (key = "r" => "shift" \notin m)
    THEN PushOnce("once")
    ELSE Quiet

\* The power mode, the clipboard (if there is text), the panels, the rotation.
OnceShortcut(key, down, repeat, m) ==
  IF user.control /\ down /\ ~repeat /\ (key = "r" => "shift" \notin m)
    THEN PushOnce("once")
    ELSE Quiet

\* Shortcuts on the window, with or without control.
WindowShortcut(key, down, repeat, m) ==
  IF down /\ ~repeat /\ "shift" \notin m
    THEN \/ key = "LEFT" /\ SetRotation((rotation + 1) % 4)
         \/ key = "RIGHT" /\ SetRotation((rotation + 3) % 4)
         \/ key = "f" /\ (EnterFullscreen \/ LeaveFullscreen)
         \/ key = "f" /\ UNCHANGED window    \* SDL refuses
         \/ key = "w" /\ ResizeToFit
         \/ key = "g" /\ ResizeToPixelPerfect
    ELSE UNCHANGED window

Shortcut(key, down, repeat, m, before) ==
  \/ /\ key \in DOMAIN DeviceKey
     /\ ForwardShortcut(key, down, repeat, m, before) /\ UNCHANGED window
  \/ key \in OnceKeys /\ OnceShortcut(key, down, repeat, m) /\ UNCHANGED window
  \/ /\ key \in WindowKeys
     /\ WindowShortcut(key, down, repeat, m) /\ sent' = {} /\ owed' = before
  \/ /\ key \notin DOMAIN DeviceKey \cup OnceKeys \cup WindowKeys
     /\ sent' = {} /\ owed' = before /\ UNCHANGED window

\* Without the shortcut modifiers.  Ctrl+v sends the clipboard first or, with
\* legacy_paste, its text instead.
ForwardKey(key, down, repeat, m, before) ==
  LET paste == key = "v" /\ "ctrl" \in m /\ "shift" \notin m /\ down /\ ~repeat
      once == IF paste THEN {{}, {"once"}} ELSE {{}}
  IN IF ~user.control \/ (repeat /\ ~user.forward_key_repeat)
       THEN sent' = {} /\ owed' = before
       ELSE \E kinds \in once :
              IF (paste /\ user.legacy_paste) \/ ~Converted(key, m)
                THEN sent' = kinds /\ owed' = before
                ELSE PushKey(before, key, down, kinds)

ProcessKey(key, down, repeat, m, before) ==
  /\ IF is_shortcut_mod(m)
       THEN Shortcut(key, down, repeat, m, before)
       ELSE ForwardKey(key, down, repeat, m, before) /\ UNCHANGED window
  /\ UNCHANGED <<user, vfinger_down>>

\* input_manager_process_text_input: "A shortcut must never generate text events".
TextInput(letter) ==
  /\ user.control /\ ~is_shortcut_mod(mods) /\ (letter => user.prefer_text)
  /\ PushOnce("text")
  /\ UNCHANGED <<window, user, vfinger_down, mods>>

-------------------------------------------------------------------------------
(* The mouse and the fingers. *)

\* Faulty: the virtual finger follows the button, whatever the controller says.
VirtualFingerForgotten(down) ==
  /\ vfinger_down' = down
  /\ \/ /\ sent' = {"mouse", "finger"}
        /\ owed' = IF down THEN owed \cup {"mouse", "finger"} ELSE owed \ {"mouse", "finger"}
     \/ /\ sent' = {"mouse"}
        /\ owed' = IF down THEN owed \cup {"mouse"} ELSE owed \ {"mouse"}

\* simulate_virtual_finger, after the message of the mouse was accepted.
VirtualFinger(down) ==
  \/ /\ sent' = {"mouse", "finger"} /\ vfinger_down' = down
     /\ owed' = IF down THEN owed \cup {"mouse", "finger"} ELSE owed \ {"mouse", "finger"}
  \/ /\ sent' = {"mouse"} /\ UNCHANGED vfinger_down
     /\ owed' = IF down THEN owed \cup {"mouse"} ELSE owed \ {"mouse"}

\* The click event, with the virtual finger if Ctrl is pressed, until the button
\* is released.
Click(down) ==
  \/ sent' = {} /\ owed' = owed \ {"mouse"} /\ UNCHANGED vfinger_down
  \/ IF (down /\ ~vfinger_down /\ "ctrl" \in mods) \/ (~down /\ vfinger_down)
       THEN VirtualFinger(down)
       ELSE /\ sent' = {"mouse"} /\ UNCHANGED vfinger_down
            /\ owed' = IF down THEN owed \cup {"mouse"} ELSE owed \ {"mouse"}

ButtonKey == [RIGHT_BUTTON |-> "BACK", MIDDLE_BUTTON |-> "HOME", X1_BUTTON |-> "APP_SWITCH"]

\* A double click on the black borders, in either of its events: a release there is
\* not sent, wherever the button was pressed.
OnBorders(button, clicks, outside) ==
  ~user.forward_all_clicks /\ button = "LEFT_BUTTON" /\ clicks = 2 /\ outside

\* input_manager_process_mouse_button
ProcessMouseButton(button, down, clicks, outside) ==
  LET special == user.control /\ ~user.forward_all_clicks
      expands == button = "X2_BUTTON" /\ down
  IN /\ \/ /\ special /\ button \in DOMAIN ButtonKey
           /\ PushKey(owed, ButtonKey[button], down, {}) /\ UNCHANGED <<window, vfinger_down>>
        \/ /\ special /\ expands
           /\ PushOnce("once") /\ UNCHANGED <<window, vfinger_down>>
        \/ /\ OnBorders(button, clicks, outside)
           /\ IF down THEN ResizeToFit ELSE UNCHANGED window
           /\ sent' = {} /\ owed' = owed \ {"mouse"} /\ UNCHANGED vfinger_down
        \/ /\ ~OnBorders(button, clicks, outside)
           /\ ~special \/ (button \notin DOMAIN ButtonKey /\ ~expands)
           /\ IF user.control THEN Click(down) ELSE Quiet /\ UNCHANGED vfinger_down
           /\ UNCHANGED window
     /\ UNCHANGED <<user, mods>>

\* input_manager_process_mouse_motion, while a button is pressed: each message may
\* be refused.
ProcessMouseMotion(button) ==
  /\ user.control
  /\ button = "LEFT_BUTTON" \/ (user.forward_all_clicks /\ button \in {"RIGHT_BUTTON", "MIDDLE_BUTTON"})
  /\ sent' \in SUBSET (IF vfinger_down THEN {"mouse", "finger"} ELSE {"mouse"})
  /\ UNCHANGED <<window, user, vfinger_down, mods, owed>>

\* input_manager_process_mouse_wheel
ProcessMouseWheel ==
  /\ user.control
  /\ PushOnce("scroll")
  /\ UNCHANGED <<window, user, vfinger_down, mods>>

\* input_manager_process_touch: control is not tested.
ProcessTouch ==
  /\ PushOnce("touch")
  /\ UNCHANGED <<window, user, vfinger_down, mods>>
===============================================================================
