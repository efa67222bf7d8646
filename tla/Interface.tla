------------------------------- MODULE Interface -------------------------------
(****************************************************************************)
(* The UI thread at its event loop (scrcpy.c): the events of the user, of   *)
(* the window manager and of the video, handled by the screen (Window.tla)  *)
(* or by the input manager (InputManager.tla).                              *)
(*                                                                          *)
(* The keyboard and the mouse are consistent: what is released was pressed. *)
(* A bound: besides the modifiers, one key or one button is held at a time. *)
(****************************************************************************)
EXTENDS InputManager

CONSTANT Users   \* their options, what they have and what they do

Nothing == "nothing"

\* A frame is not empty.  The names that stand for keys of the device, buttons and
\* the rest are not names of keys of the keyboard.
ASSUME InterfaceAssumption ==
  \A u \in Users :
    /\ u.sizes \subseteq [width : Nat \ {0}, height : Nat \ {0}]
    /\ u.rotations \subseteq 0..3 /\ u.asked \subseteq Sizes /\ u.drags \subseteq Sizes
    /\ u.mods \subseteq Modifiers /\ u.buttons \subseteq Buttons
    /\ u.keys \cap (Modifiers \cup Buttons \cup {"mouse", "finger", Nothing}) = {}
    /\ u.keys \cap {DeviceKey[key] : key \in DOMAIN DeviceKey} = {}

VARIABLES
  held,         \* external: the key or button that is held
  clicks,       \* external: whether it is a first or a second click
  last_windowed,\* the content size the last time the window was neither
                \* fullscreen nor maximized, for the program
  overridden    \* pixel-perfect was asked for while a size was pending

external == <<held, clicks>>
history == <<last_windowed, overridden>>
interface == <<window, inputManager, external, history>>

InterfaceInit ==
  /\ user \in Users
  /\ \E size \in user.sizes, rot \in user.rotations, asked \in user.asked, full \in BOOLEAN :
       WindowInit(size, rot, asked, full)
  /\ vfinger_down = FALSE /\ mods = {} /\ sent = {} /\ owed = {}
  /\ held = Nothing /\ clicks = 1
  /\ last_windowed = content_size /\ overridden = FALSE

\* maximized is reset, but not by an event of the window.
PixelPerfectWhilePending ==
  maximized /\ ~maximized' /\ Len(window_events') >= Len(window_events)

\* What is observed of each step.
Observe ==
  /\ last_windowed' = IF ~fullscreen' /\ ~maximized' THEN content_size' ELSE last_windowed
  /\ overridden' = (resize_pending' /\ (overridden \/ PixelPerfectWhilePending))

-------------------------------------------------------------------------------
(* The keyboard. *)

PressKey(key) ==
  /\ has_frame /\ held = Nothing
  /\ held' = key /\ clicks' = 1
  /\ ProcessKey(key, TRUE, FALSE, mods, owed)
  /\ UNCHANGED mods /\ Observe

RepeatKey ==
  /\ held \in user.keys
  /\ ProcessKey(held, TRUE, TRUE, mods, owed)
  /\ UNCHANGED <<mods, external>> /\ Observe

ReleaseKey ==
  /\ held \in user.keys
  /\ held' = Nothing
  /\ ProcessKey(held, FALSE, FALSE, mods, owed)
  /\ UNCHANGED <<mods, clicks>> /\ Observe

\* A modifier is pressed or released, an event of its own: a key that is held may
\* mean something else when it is released, and is owed no more.
ChangeModifier(mod) ==
  LET down == mod \notin mods
      m == IF down THEN mods \cup {mod} ELSE mods \ {mod}
  IN /\ has_frame
     /\ mods' = m
     /\ ProcessKey(mod, down, FALSE, m, owed \cap {"mouse", "finger", mod})
     /\ UNCHANGED external /\ Observe

TypeText ==
  /\ has_frame
  /\ \E letter \in BOOLEAN : TextInput(letter)
  /\ UNCHANGED external /\ Observe

-------------------------------------------------------------------------------
(* The mouse and the fingers. *)

\* Where the pointer may be.
Outside == IF rect.x > 0 \/ rect.y > 0 THEN BOOLEAN ELSE {FALSE}

PressButton(button) ==
  /\ has_frame /\ held = Nothing
  /\ held' = button /\ clicks' \in 1..2
  /\ \E outside \in Outside : ProcessMouseButton(button, TRUE, clicks', outside)
  /\ Observe

ReleaseButton ==
  /\ held \in user.buttons
  /\ held' = Nothing /\ clicks' = 1
  /\ \E outside \in Outside : ProcessMouseButton(held, FALSE, clicks, outside)
  /\ Observe

MoveMouse ==
  /\ held \in user.buttons
  /\ ProcessMouseMotion(held)
  /\ UNCHANGED external /\ Observe

Wheel == has_frame /\ ProcessMouseWheel /\ UNCHANGED external /\ Observe

Touch == has_frame /\ ProcessTouch /\ UNCHANGED external /\ Observe

-------------------------------------------------------------------------------
(* The window manager, and the user through it. *)

Reshape(shape, event) ==
  /\ user.manages /\ has_frame /\ ~fullscreen /\ Len(window_events) < MaxEvents
  /\ sdl.shape # shape
  /\ sdl' = Shaped(sdl, shape, FALSE)
  /\ window_events' = Append(window_events, event)
  /\ UNCHANGED <<content, pendingResize, belief, rect, inputManager, external>>
  /\ Observe

Drag(size) ==
  /\ has_frame /\ ~fullscreen /\ sdl.shape = "normal"
  /\ sdl' = [sdl EXCEPT !.size = size, !.windowed = size, !.own = FALSE, !.changed = TRUE]
  /\ UNCHANGED <<content, pendingResize, belief, rect, window_events, inputManager, external>>
  /\ Observe

-------------------------------------------------------------------------------
(* The events of the window and of the video. *)

HandleNewFrame(size) ==
  /\ NewFrame(size)
  /\ sent' = {} /\ UNCHANGED <<user, vfinger_down, mods, owed, external>> /\ Observe

HandleWindowEvent ==
  /\ HandleSizeChanged \/ HandleExposed \/ HandleMaximized \/ HandleRestored
  /\ sent' = {} /\ UNCHANGED <<user, vfinger_down, mods, owed, external>> /\ Observe

KeyboardStep ==
  \/ \E key \in user.keys : PressKey(key)
  \/ RepeatKey \/ ReleaseKey \/ TypeText
  \/ \E mod \in user.mods : ChangeModifier(mod)

MouseStep ==
  \/ \E button \in user.buttons : PressButton(button)
  \/ ReleaseButton \/ MoveMouse \/ Wheel \/ Touch

WindowStep ==
  \/ Reshape("maximized", "maximized") \/ Reshape("normal", "restored")
  \/ \E size \in user.drags : Drag(size)
  \/ \E size \in user.sizes : HandleNewFrame(size)
  \/ HandleWindowEvent

InterfaceNext == KeyboardStep \/ MouseStep \/ WindowStep

\* Every property is one of safety.
InterfaceSpec == InterfaceInit /\ [][InterfaceNext]_interface

-------------------------------------------------------------------------------
(* Properties. *)

InterfaceTypeOK ==
  /\ user \in Users
  /\ sdl \in SdlWindow
  /\ {frame_size, content_size, windowed_content_size} \subseteq Sizes
  /\ {fullscreen, maximized, has_frame, resize_pending, vfinger_down} \subseteq BOOLEAN
  /\ rotation \in 0..3
  /\ window_events \in Seq({"maximized", "restored"})
  /\ mods \subseteq Modifiers

\* Unless pixel-perfect was asked for meanwhile, a size is pending only while the
\* program believes the window is fullscreen or maximized, and
\* windowed_content_size is then "the content size the last time the window was
\* not maximized or fullscreen" (screen.h:34-35).
PendingSizeIsKept ==
  /\ InterfaceTypeOK
  /\ resize_pending /\ ~overridden =>
       (fullscreen \/ maximized) /\ windowed_content_size = last_windowed

\* A window that is neither fullscreen nor maximized has no black borders, unless
\* the user or the window manager decided of its size: whatever is rotated or
\* resized, and whenever the window is restored, once no resize is pending (it stays
\* so if the program goes on believing in a maximized window, having ignored its
\* RESTORED event in fullscreen).  Its optimal size is never larger than it is (the
\* assertions of screen_resize_to_fit).
WindowFits ==
  /\ sdl.own /\ ~fullscreen /\ sdl.shape = "normal" /\ ~resize_pending
       => is_optimal_size(sdl.size, content_size)
  /\ LET optimal == get_optimal_size(sdl.size, content_size)
     IN optimal.width <= sdl.size.width /\ optimal.height <= sdl.size.height

\* Any point of the content, where it was drawn last, is a pixel of the frame, even
\* if the window, the rotation or the frame changed since; but along a side that the
\* rotation reverses it is one pixel too far: the first one is never reached, and the
\* first row or column of the content is past the last one (screen.c:789-801).  Once
\* the event of its size is handled, the content is drawn where the window shows it.
Reached(side, reversed) == IF reversed THEN 1..side ELSE 0..side - 1
Drawn == (rect.x .. rect.x + rect.w - 1) \X (rect.y .. rect.y + rect.h - 1)
ClicksHitTheFrame ==
  /\ \A point \in Drawn :
       LET p == FrameCoords(point[1], point[2])
       IN /\ p.x \in Reached(frame_size.width, rotation \in {1, 2})
          /\ p.y \in Reached(frame_size.height, rotation \in {2, 3})
  /\ has_frame /\ ~sdl.changed => rect = ContentRect(sdl.size, content_size)

\* Everything that is pressed on the device is released with the key, button or
\* modifier that pressed it, unless a message was refused, a modifier changed while
\* the key was held, or the second release of a double click was on the borders; or
\* the modifiers that are left when one is released are those of a shortcut: its
\* release is not sent.  The virtual finger is down on the device exactly if the
\* program believes so.
Presses(what) ==
  {what} \cup (IF what \in DOMAIN DeviceKey THEN {DeviceKey[what]} ELSE {})
         \cup (IF what \in DOMAIN ButtonKey THEN {ButtonKey[what]} ELSE {})
         \cup (IF what \in Buttons THEN {"mouse"} ELSE {})
NothingSticks ==
  /\ owed \subseteq Presses(held) \cup {"finger"}
                      \cup (IF is_shortcut_mod(mods) THEN Modifiers ELSE mods)
  /\ vfinger_down <=> "finger" \in owed

\* Without control nothing is sent to the device, but the touches
\* (input_manager.c:844).
NothingIsSentWithoutControl == ~user.control => sent \subseteq {"touch"}
===============================================================================
