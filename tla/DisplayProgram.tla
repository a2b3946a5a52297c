---------------------------- MODULE DisplayProgram ----------------------------
(***************************************************************************)
(* The programs of Chapter 9 that draw through DRM, GBM and EGL: one       *)
(* buffer of the GBM surface after the other is rendered, locked, made a   *)
(* frame buffer and scanned out, while the one before is given back.  The  *)
(* display reads the scanned out buffer all the time, so every call        *)
(* between two of them matters.                                            *)
(***************************************************************************)
EXTENDS Integers, FiniteSets

CONSTANTS Buffers,    \* the buffers of a GBM surface (external)
          Loops       \* stands for the 100 frames of the camera programs

\* With one buffer the second frame would have none to draw into.
ASSUME DisplayAssumption ==
  /\ Loops \in Nat \ {0, 1} /\ IsFiniteSet(Buffers) /\ Cardinality(Buffers) >= 2
  /\ {"null", "garbage", "none"} \cap Buffers = {}

VARIABLES
  show,                      \* the program
  dpc, frames,               \* its place and the frames shown
  bo,                        \* each surface buffer: free, front or locked
  fbs,                       \* frame buffers: number -> buffer, or "none"
  crtc,                      \* what the display scans out: a frame buffer, Console or Off
  currBo, currFB, prevBo, prevFB,
  shader,                    \* the GL program: none, unlinked or linked
  failed                     \* history: a DRM call failed

displayVars == <<show, dpc, frames, bo, fbs, crtc, currBo, currFB, prevBo, prevFB, shader, failed>>

-----------------------------------------------------------------------------
(* The programs: the frames they show (-1: without end), whether they load *)
(* shaders and what they check of them, and what prevBo starts as.  What   *)
(* each of them draws is left out.                                         *)
DrawDrm       == [frames |-> 1, shaders |-> "no", prev |-> "null"]
DrawTriangle  == DrawDrm
DrawViewport  == DrawTriangle
DrawOrtho     == DrawTriangle
DrawCube      == DrawDrm
DrawRotate    == DrawCube
DrawColor     == DrawCube
CubeAnimation == [DrawCube EXCEPT !.frames = -1]
Opengl2Drm    == [frames |-> 1, shaders |-> "created", prev |-> "null"]
Opengl2Rotate == Opengl2Drm
Opengl2Animation == [Opengl2Drm EXCEPT !.frames = -1, !.prev = "garbage"]
Rpi9          == Opengl2Animation
InitDrm       == [DrawDrm EXCEPT !.frames = 0]
CameraOnScreen == [frames |-> Loops, shaders |-> "loose", prev |-> "null"]
CameraByShader == [CameraOnScreen EXCEPT !.shaders = "linked"]
Shows == {DrawDrm, DrawTriangle, DrawViewport, DrawOrtho, DrawCube, DrawRotate, DrawColor,
          CubeAnimation, Opengl2Drm, Opengl2Rotate, Opengl2Animation, Rpi9, InitDrm,
          CameraOnScreen, CameraByShader}

Console == 0
Off == -1
FrameBuffers == DOMAIN fbs
Live == {n \in FrameBuffers : fbs[n] # "none"}
NewFB == CHOOSE n \in FrameBuffers \ Live : \A m \in FrameBuffers \ Live : n <= m
Step(from, to) == dpc = from /\ dpc' = to

\* drmModeRmFB: a frame buffer taken from under the display switches it off.
Removed(n) ==
  /\ fbs' = [m \in FrameBuffers |-> IF m = n THEN "none" ELSE fbs[m]]
  /\ crtc' = IF crtc = n /\ n # Console THEN Off ELSE crtc

-----------------------------------------------------------------------------
\* The user's Ctrl-C, an exit or a crash: the kernel removes what was open.
Killed ==
  /\ dpc \notin {"died", "closed"}
  /\ dpc' = "died"
  /\ fbs' = [n \in FrameBuffers |-> "none"]
  /\ crtc' = IF crtc \in FrameBuffers THEN Off ELSE crtc
  /\ UNCHANGED <<show, frames, bo, currBo, currFB, prevBo, prevFB, shader, failed>>

\* Opening the device, DRM, GBM and EGL.  Nothing is checked: what is missing is
\* dereferenced.  The CRTC's state is kept for the end.
Begin ==
  /\ dpc = "begin"
  /\ dpc' \in {"died", IF show.shaders = "no" THEN "swap" ELSE "shaders"}
  /\ UNCHANGED <<show, frames, bo, fbs, crtc, currBo, currFB, prevBo, prevFB, shader, failed>>

\* LoadShader twice, glCreateProgram, link.  The 0 that initOpenGL returns without a
\* program is EXIT_SUCCESS, so the camera programs go on.
LoadShaders ==
  /\ dpc = "shaders"
  /\ shader' \in {"none", "unlinked", "linked"}
  /\ dpc' = IF <<shader', show.shaders>> \in {<<"none", "created">>, <<"unlinked", "linked">>}
               THEN "died" ELSE "swap"
  /\ UNCHANGED <<show, frames, bo, fbs, crtc, currBo, currFB, prevBo, prevFB, failed>>

\* Drawing and eglSwapBuffers: a free buffer becomes the front.  If the call fails there
\* is none: the camera programs exit, the others do not look and use the missing buffer.
Swap ==
  /\ dpc = "swap" /\ show.frames # 0
  /\ \/ /\ \/ \E b \in Buffers : bo[b] = "free" /\ bo' = [bo EXCEPT ![b] = "front"] /\ dpc' = "lock"
           \/ (\A b \in Buffers : bo[b] # "free") /\ dpc' = "starved" /\ UNCHANGED bo
        /\ UNCHANGED <<show, frames, fbs, crtc, currBo, currFB, prevBo, prevFB, shader, failed>>
     \/ Killed

LockFront ==
  /\ Step("lock", "addfb")
  /\ \E b \in Buffers : /\ bo[b] = "front" /\ currBo' = b
                        /\ bo' = [bo EXCEPT ![b] = "locked"]
  /\ UNCHANGED <<show, frames, fbs, crtc, currFB, prevBo, prevFB, shader, failed>>

\* drmModeAddFB.  Nobody looks at a failure: currFB stays, or has any value where it is
\* a local of processImage.
AddFB ==
  /\ Step("addfb", "setcrtc")
  /\ \/ /\ currFB' = NewFB
        /\ fbs' = [fbs EXCEPT ![currFB'] = currBo] /\ UNCHANGED failed
     \/ /\ currFB' \in IF show.frames = Loops THEN FrameBuffers \cup {0} ELSE {currFB}
        /\ failed' = TRUE /\ UNCHANGED fbs
  /\ UNCHANGED <<show, frames, bo, crtc, currBo, prevBo, prevFB, shader>>

SetCrtc ==
  /\ dpc = "setcrtc"
  /\ dpc' = IF show.frames # 1 /\ prevBo # "null" THEN "rmprev" ELSE "shift"
  /\ \/ currFB \in Live /\ crtc' = currFB /\ UNCHANGED failed
     \/ failed' = TRUE /\ UNCHANGED crtc
  /\ UNCHANGED <<show, frames, bo, fbs, currBo, currFB, prevBo, prevFB, shader>>

(* Mutant: the new frame buffer is removed, not the one before it. *)
RemoveCurrent ==
  /\ Step("rmprev", "release") /\ Removed(currFB)
  /\ UNCHANGED <<show, frames, bo, currBo, currFB, prevBo, prevFB, shader, failed>>

\* if(prevBo) { drmModeRmFB; gbm_surface_release_buffer }
RemovePrevious ==
  /\ Step("rmprev", "release") /\ Removed(prevFB)
  /\ UNCHANGED <<show, frames, bo, currBo, currFB, prevBo, prevFB, shader, failed>>

ReleasePrevious ==
  /\ dpc = "release"
  /\ \/ prevBo = "garbage" /\ dpc' \in {"died", "shift"} /\ UNCHANGED bo
     \/ prevBo # "garbage" /\ dpc' = "shift" /\ bo' = [bo EXCEPT ![prevBo] = "free"]
  /\ UNCHANGED <<show, frames, fbs, crtc, currBo, currFB, prevBo, prevFB, shader, failed>>

\* In the programs with one frame currBo and currFB stay: prevBo and prevFB stand for them.
Shift ==
  /\ dpc = "shift"
  /\ prevBo' = currBo /\ prevFB' = currFB
  /\ frames' = IF show.frames > 0 THEN frames + 1 ELSE 0
  /\ dpc' = IF frames' = show.frames THEN "restore" ELSE "swap"
  /\ UNCHANGED <<show, bo, fbs, crtc, currBo, currFB, shader, failed>>

(* Mutant: the CRTC is freed without being set back. *)
FreeCrtc ==
  /\ Step("restore", "rmlast")
  /\ UNCHANGED <<show, frames, bo, fbs, crtc, currBo, currFB, prevBo, prevFB, shader, failed>>

\* The end: the CRTC as it was, then the last buffer, the surface and the devices.
Restore ==
  /\ Step("restore", "rmlast")
  /\ \/ crtc' = Console /\ UNCHANGED failed
     \/ failed' = TRUE /\ UNCHANGED crtc
  /\ UNCHANGED <<show, frames, bo, fbs, currBo, currFB, prevBo, prevFB, shader>>

RemoveLast ==
  /\ Step("rmlast", "close") /\ Removed(prevFB)
  /\ bo' = [bo EXCEPT ![prevBo] = "free"]
  /\ UNCHANGED <<show, frames, currBo, currFB, prevBo, prevFB, shader, failed>>

\* init_drm.c waits for a key and closes without a frame.
Close ==
  /\ dpc = "close" \/ (dpc = "swap" /\ show.frames = 0)
  /\ dpc' = "closed"
  /\ UNCHANGED <<show, frames, bo, fbs, crtc, currBo, currFB, prevBo, prevFB, shader, failed>>

-----------------------------------------------------------------------------
DisplayInit(shows) ==
  /\ show \in shows
  /\ dpc = "begin" /\ frames = 0
  /\ bo = [b \in Buffers |-> "free"]
  /\ fbs = [n \in 1..Cardinality(Buffers) |-> "none"] /\ crtc = Console
  /\ currBo = "null" /\ currFB = 0
  /\ \/ prevBo = "null" /\ prevFB = 0
     \/ show.prev = "garbage" /\ prevBo = "garbage" /\ prevFB \in FrameBuffers \cup {0}
  /\ shader = "none" /\ failed = FALSE

Frame == Swap \/ LockFront \/ AddFB \/ SetCrtc \/ RemovePrevious \/ ReleasePrevious \/ Shift
DisplayNext == Begin \/ LoadShaders \/ Frame \/ Restore \/ RemoveLast \/ Close \/ Killed
DisplaySpec == DisplayInit(Shows) /\ [][DisplayNext]_displayVars

-----------------------------------------------------------------------------
(* Properties.                                                             *)

DisplayTypeOK ==
  /\ show \in Shows /\ frames \in 0..Loops
  /\ bo \in [Buffers -> {"free", "front", "locked"}]
  /\ fbs \in [FrameBuffers -> Buffers \cup {"none"}]
  /\ crtc \in FrameBuffers \cup {Console, Off}
  /\ {currBo, prevBo} \subseteq Buffers \cup {"null", "garbage"}
  /\ {currFB, prevFB} \subseteq FrameBuffers \cup {0} /\ failed \in BOOLEAN

\* What the display scans out is never a buffer the program may draw into: its frame
\* buffer lives and its buffer is locked, through every step of the exchange.  The display
\* goes dark only after a failed DRM call, when the program is killed, or when the prevFB
\* nobody has set happens to name the frame shown.  And the exchange holds two buffers at
\* most, so eglSwapBuffers never finds the surface full.
ScannedOutIsKept ==
  /\ crtc \in FrameBuffers /\ ~failed => crtc \in Live /\ bo[fbs[crtc]] = "locked"
  /\ crtc = Off => failed \/ dpc = "died" \/ show.prev = "garbage"
  /\ dpc # "starved" /\ Cardinality({b \in Buffers : bo[b] # "free"}) <= 2

\* A program that comes to its end leaves the console on the display, no frame buffer
\* and no locked buffer.
ConsoleBack ==
  dpc = "closed" /\ ~failed =>
    crtc = Console /\ Live = {} /\ \A b \in Buffers : bo[b] = "free"
=============================================================================
