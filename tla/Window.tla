-------------------------------- MODULE Window --------------------------------
(****************************************************************************)
(* The window (screen.c): its size follows the content, which is the frame  *)
(* rotated by the user; a size that is asked for while it is fullscreen or  *)
(* maximized is pending.  The UI thread does everything.                    *)
(*                                                                          *)
(* SDL and the window manager are external: SDL knows the size and the      *)
(* shape of the window at once, but tells the program by events, that are   *)
(* queued.  Positions, textures and the high DPI scale are left out.        *)
(****************************************************************************)
EXTENDS Integers, Sequences, FiniteSets, FiniteSetsExt

CONSTANTS
  Bounds,     \* the preferred display bounds
  FullSize,   \* the size of a window that is maximized or fullscreen
  MaxEvents   \* bound: how many events MAXIMIZED and RESTORED may be queued before
              \* another one is

Sizes == [width : Nat, height : Nat]
ASSUME WindowAssumption == Bounds \in Sizes /\ FullSize \in Sizes

VARIABLES
  frame_size, content_size, rotation,
  resize_pending, windowed_content_size,
  fullscreen, maximized,  \* what the program believes
  has_frame,              \* whether the window is shown
  rect,                   \* where the content was last drawn
  sdl,                    \* external: the window
  window_events           \* external: MAXIMIZED and RESTORED, queued by SDL

\* The window of SDL: "normal" or "maximized", its size, its size when it is
\* neither fullscreen nor maximized, whether SIZE_CHANGED is queued and whether
\* the program, not the user or the window manager, decided of its size.
SdlWindow == [shape : {"normal", "maximized"}, size : Sizes, windowed : Sizes,
              changed : BOOLEAN, own : BOOLEAN]

belief == <<fullscreen, maximized, has_frame>>
pendingResize == <<resize_pending, windowed_content_size>>
content == <<frame_size, content_size, rotation>>
window == <<content, pendingResize, belief, rect, sdl, window_events>>

Size(w, h) == [width |-> w, height |-> h]

-------------------------------------------------------------------------------
(* The sizes. *)

get_rotated_size(size, rot) ==
  IF rot % 2 = 1 THEN Size(size.height, size.width) ELSE size

\* One dimension can be recomputed from the other.
is_optimal_size(current, cs) ==
  \/ current.height = (current.width * cs.height) \div cs.width
  \/ current.width = (current.height * cs.width) \div cs.height

\* The black borders are cropped.
Crop(size, cs) ==
  IF cs.width * size.height > cs.height * size.width
    THEN [size EXCEPT !.height = (cs.height * size.width) \div cs.width]
    ELSE [size EXCEPT !.width = (cs.width * size.height) \div cs.height]

get_optimal_size(current, cs) ==
  LET fit == Size(Min({current.width, Bounds.width}), Min({current.height, Bounds.height}))
  IN IF is_optimal_size(fit, cs) THEN fit ELSE Crop(fit, cs)

\* A dimension that the user did not ask for is 0.
get_initial_optimal_size(cs, asked) ==
  IF asked = Size(0, 0) THEN get_optimal_size(cs, cs)
  ELSE IF asked.width = 0 THEN [asked EXCEPT !.width = (asked.height * cs.width) \div cs.height]
  ELSE IF asked.height = 0 THEN [asked EXCEPT !.height = (asked.width * cs.height) \div cs.width]
  ELSE asked

\* screen_update_content_rect: the content is centered.
ContentRect(ws, cs) ==
  LET r == IF is_optimal_size(ws, cs) THEN ws ELSE Crop(ws, cs)
  IN [x |-> (ws.width - r.width) \div 2, y |-> (ws.height - r.height) \div 2,
      w |-> r.width, h |-> r.height]

\* screen_convert_drawable_to_frame_coords
FrameCoords(px, py) ==
  LET w == content_size.width
      h == content_size.height
      x == ((px - rect.x) * w) \div rect.w
      y == ((py - rect.y) * h) \div rect.h
  IN CASE rotation = 0 -> [x |-> x, y |-> y]
       [] rotation = 1 -> [x |-> h - y, y |-> x]
       [] rotation = 2 -> [x |-> w - x, y |-> h - y]
       [] rotation = 3 -> [x |-> y, y |-> w - x]

-------------------------------------------------------------------------------
(* SDL: what may become of a window. *)

\* SDL_SetWindowSize: the window manager may ignore the size it asks for a window
\* that is maximized, now and when it is restored.
Resized(w, size) ==
  IF w.shape = "normal"
    THEN {[w EXCEPT !.size = size, !.windowed = size, !.own = TRUE,
                    !.changed = @ \/ size # w.size]}
    ELSE {[w EXCEPT !.windowed = size, !.own = TRUE], [w EXCEPT !.own = FALSE]}

\* Its shape changes, or it enters or leaves fullscreen.
Shaped(w, shape, full) ==
  LET size == IF full \/ shape = "maximized" THEN FullSize ELSE w.windowed
  IN [w EXCEPT !.shape = shape, !.size = size, !.changed = @ \/ size # w.size]

-------------------------------------------------------------------------------
(* The operations. *)

WindowInit(size, rot, asked, full) ==
  LET cs == get_rotated_size(size, rot)
      ws == get_initial_optimal_size(cs, asked)
  IN /\ frame_size = size /\ rotation = rot /\ content_size = cs
     /\ resize_pending = FALSE /\ windowed_content_size = cs
     /\ fullscreen = full /\ maximized = FALSE /\ has_frame = FALSE
     /\ sdl = Shaped([shape |-> "normal", size |-> ws, windowed |-> ws, changed |-> TRUE,
                      own |-> asked.width = 0 \/ asked.height = 0], "normal", full)
     /\ rect = ContentRect(sdl.size, cs)
     /\ window_events = <<>>

\* screen_render, when the rectangle is to be updated.
Render == rect' = ContentRect(sdl'.size, content_size')

\* Faulty: the black borders are not cropped.
ResizedUncropped(w, old, new) ==
  Resized(w, Size((w.size.width * new.width) \div old.width,
                  (w.size.height * new.height) \div old.height))

\* resize_for_content keeps the scale.
ResizedForContent(w, old, new) ==
  Resized(w, get_optimal_size(Size((w.size.width * new.width) \div old.width,
                                   (w.size.height * new.height) \div old.height), new))

\* Faulty: the content size of the window, when it was windowed, is overwritten.
SetContentSizeAgain(new) ==
  /\ content_size' = new
  /\ IF ~fullscreen /\ ~maximized
       THEN sdl' \in ResizedForContent(sdl, content_size, new) /\ UNCHANGED pendingResize
       ELSE /\ resize_pending' = TRUE /\ windowed_content_size' = content_size
            /\ UNCHANGED sdl

\* set_content_size
SetContentSize(new) ==
  /\ content_size' = new
  /\ \/ /\ ~fullscreen /\ ~maximized
        /\ sdl' \in ResizedForContent(sdl, content_size, new)
        /\ UNCHANGED pendingResize
     \/ /\ fullscreen \/ maximized
        /\ resize_pending' = TRUE
        /\ windowed_content_size' =
             IF resize_pending THEN windowed_content_size ELSE content_size
        /\ UNCHANGED sdl

\* EVENT_NEW_FRAME, and prepare_for_frame if the frame has another size.
NewFrame(size) ==
  /\ has_frame' = TRUE
  /\ \/ /\ size = frame_size
        /\ UNCHANGED <<content, pendingResize, rect, sdl>>
     \/ /\ size # frame_size
        /\ frame_size' = size
        /\ SetContentSize(get_rotated_size(size, rotation))
        /\ Render
        /\ UNCHANGED rotation
  /\ UNCHANGED <<fullscreen, maximized, window_events>>

\* Faulty: the content keeps its size.
SetRotationOnly(rot) ==
  /\ rot # rotation
  /\ rotation' = rot
  /\ UNCHANGED <<frame_size, content_size, pendingResize, belief, sdl, window_events>>
  /\ Render

\* screen_set_rotation
SetRotation(rot) ==
  /\ rot # rotation
  /\ rotation' = rot
  /\ SetContentSize(get_rotated_size(frame_size, rot))
  /\ Render
  /\ UNCHANGED <<frame_size, belief, window_events>>

\* apply_pending_resize, on the window w.
ApplyPendingResize(w) ==
  /\ resize_pending' = FALSE
  /\ sdl' \in (IF resize_pending
                 THEN ResizedForContent(w, windowed_content_size, content_size)
                 ELSE {w})
  /\ UNCHANGED windowed_content_size

\* screen_switch_fullscreen.  On Windows, a window that is maximized is said to be
\* restored, then maximized, when it leaves fullscreen.
EnterFullscreen ==
  /\ ~fullscreen
  /\ fullscreen' = TRUE
  /\ sdl' = Shaped(sdl, sdl.shape, TRUE)
  /\ UNCHANGED <<content, pendingResize, maximized, has_frame, window_events>>
  /\ Render

LeaveFullscreen ==
  /\ fullscreen
  /\ fullscreen' = FALSE
  /\ LET w == Shaped(sdl, sdl.shape, FALSE)
     IN \/ ~maximized /\ ApplyPendingResize(w)
        \/ maximized /\ sdl' = w /\ UNCHANGED pendingResize
  /\ \/ UNCHANGED window_events
     \/ /\ sdl.shape = "maximized" /\ Len(window_events) < MaxEvents
        /\ window_events' = window_events \o <<"restored", "maximized">>
  /\ UNCHANGED <<content, maximized, has_frame>>
  /\ Render

\* screen_resize_to_fit
ResizeToFit ==
  /\ IF fullscreen \/ maximized
       THEN UNCHANGED sdl
       ELSE sdl' \in Resized(sdl, get_optimal_size(sdl.size, content_size))
  /\ UNCHANGED <<content, pendingResize, belief, rect, window_events>>

\* screen_resize_to_pixel_perfect: a window that is maximized is restored first,
\* and what is pending remains so.
ResizeToPixelPerfect ==
  /\ maximized' = (maximized /\ fullscreen)
  /\ \/ fullscreen /\ UNCHANGED <<sdl, window_events>>
     \/ /\ ~fullscreen /\ maximized /\ sdl.shape = "maximized"
        /\ sdl' \in Resized(Shaped(sdl, "normal", FALSE), content_size)
        /\ window_events' = Append(window_events, "restored")
     \/ /\ ~fullscreen /\ (~maximized \/ sdl.shape = "normal")
        /\ sdl' \in Resized(sdl, content_size)
        /\ UNCHANGED window_events
  /\ UNCHANGED <<content, pendingResize, fullscreen, has_frame, rect>>

-------------------------------------------------------------------------------
(* screen_handle_event *)

\* Nothing is drawn before the first frame.
HandleSizeChanged ==
  /\ sdl.changed
  /\ sdl' = [sdl EXCEPT !.changed = FALSE]
  /\ UNCHANGED <<content, pendingResize, belief, window_events>>
  /\ IF has_frame THEN Render ELSE UNCHANGED rect

\* SDL_WINDOWEVENT_EXPOSED comes at any time.
HandleExposed ==
  /\ has_frame
  /\ UNCHANGED <<content, pendingResize, belief, sdl, window_events>>
  /\ Render

HandleMaximized ==
  /\ window_events # <<>> /\ Head(window_events) = "maximized"
  /\ window_events' = Tail(window_events)
  /\ maximized' = TRUE
  /\ UNCHANGED <<content, pendingResize, fullscreen, has_frame, rect, sdl>>

\* Faulty: what is pending is not applied.
HandleRestoredOnly ==
  /\ window_events # <<>> /\ Head(window_events) = "restored"
  /\ window_events' = Tail(window_events)
  /\ maximized' = FALSE
  /\ UNCHANGED <<content, pendingResize, fullscreen, has_frame, rect, sdl>>

\* Ignored in fullscreen.
HandleRestored ==
  /\ window_events # <<>> /\ Head(window_events) = "restored"
  /\ window_events' = Tail(window_events)
  /\ UNCHANGED <<content, fullscreen, has_frame>>
  /\ \/ fullscreen /\ UNCHANGED <<pendingResize, maximized, rect, sdl>>
     \/ /\ ~fullscreen
        /\ maximized' = FALSE
        /\ ApplyPendingResize(sdl) /\ Render
===============================================================================
