---------------------------- MODULE CameraDisplay ----------------------------
(***************************************************************************)
(* draw_camera.c and draw_camera_shader.c: the camera loop of FrameCapture *)
(* whose every frame goes through the exchange of buffers of               *)
(* DisplayProgram, in one thread.  running says what is looked at: a       *)
(* camera program, a display program, one of these two, which are both, or *)
(* the conversion of one frame (YuvImage), which is not interleaved with   *)
(* the rest: in the programs it is one call within readFrame.              *)
(* main sets up the camera, then EGL and OpenGL, and takes the display     *)
(* down after the image memory and before the descriptors.                 *)
(***************************************************************************)
EXTENDS FrameCapture, DisplayProgram, YuvImage

ASSUME SameLoop == Loops = Many     \* NO_OF_LOOP in both

VARIABLE running

vars == <<running, captureVars, displayVars, imageVars>>

-----------------------------------------------------------------------------
(* What only one half of such a program does.                              *)

\* A step of the camera's part.  When it ends the process, the kernel takes the display.
CameraStep(t) ==
  /\ running = "both"
  /\ \/ OpenCamera(t) \/ OpenScreen(t) \/ MapScreen(t) \/ InitDevice(t)
     \/ dpc = "swap" /\ Select(t)
     \/ dpc = "swap" /\ ReadFrame(t) /\ died' # "no"
     \/ dpc = "restore" /\ UninitDevice(t)
     \/ dpc = "closed" /\ (CloseScreen(t) \/ CloseCamera(t))
  /\ IF died' # "no" THEN Killed ELSE UNCHANGED displayVars

\* initEGL and initOpenGL after initDevice, drawing while a frame is at hand, and the
\* end after uninitDevice.  What ends the process here ends the camera's part too.
ScreenStep(t) ==
  /\ running = "both" /\ died = "no"
  /\ \/ cpc[t] = "select" /\ (Begin \/ LoadShaders)
     \/ /\ cpc[t] = "read" /\ (dpc = "swap" => Is(fd, "camera") /\ ready)
        /\ Swap \/ LockFront \/ AddFB \/ SetCrtc \/ RemovePrevious \/ ReleasePrevious
     \/ cpc[t] = "close" /\ (Restore \/ RemoveLast \/ Close)
  /\ died' = IF dpc' \in {"died", "starved"} THEN "exit" ELSE died
  /\ UNCHANGED <<prog, cpc, left, asked, fd, fbfd, fbp, buffers, files, maps, heap,
                 ready, overlap, hit, early>>

\* The end of processImage is the end of readFrame.
FrameShown(t) == running = "both" /\ ReadFrame(t) /\ Shift

Interrupted ==
  /\ running = "both" /\ died = "no" /\ Killed /\ died' = "exit"
  /\ UNCHANGED <<prog, cpc, left, asked, fd, fbfd, fbp, buffers, files, maps, heap,
                 ready, overlap, hit, early>>

-----------------------------------------------------------------------------
\* A conversion that is not looked at.
ImageIdle == /\ ImageInit({ToTexture}) /\ colors = 4
             /\ xres = CHOOSE n \in Screens : TRUE
             /\ yres = CHOOSE n \in Lines : TRUE

Init ==
  \/ /\ running = "camera" /\ CaptureInit(Programs \ {DrawCamera})
     /\ DisplayInit({InitDrm}) /\ ImageIdle
  \/ running = "display" /\ CaptureInit({BmpCapture}) /\ DisplayInit(Shows) /\ ImageIdle
  \/ /\ running = "both" /\ CaptureInit({DrawCamera})
     /\ DisplayInit({CameraOnScreen, CameraByShader}) /\ ImageIdle
  \/ running = "image" /\ CaptureInit({BmpCapture}) /\ DisplayInit({InitDrm}) /\ ImageInit(Ways)

Camera(t) == (running = "camera" /\ Inside(t) /\ UNCHANGED displayVars)
             \/ CameraStep(t) \/ ScreenStep(t) \/ FrameShown(t)

CameraAlone == running = "camera" /\ CaptureNext /\ UNCHANGED displayVars
DisplayAlone == running = "display" /\ DisplayNext /\ UNCHANGED captureVars
FrameComes == running = "both" /\ Deliver /\ UNCHANGED displayVars
Together == Interrupted \/ \E t \in Callers : CameraStep(t) \/ ScreenStep(t) \/ FrameShown(t)
Convert == running = "image" /\ ImageNext /\ UNCHANGED <<captureVars, displayVars, running>>

Next == \/ (CameraAlone \/ DisplayAlone \/ FrameComes \/ Together) /\ UNCHANGED <<running, imageVars>>
        \/ Convert

\* A thread that can go on goes on; the user, the camera and a new call need not come.
Fairness == \A t \in Callers : WF_vars(Camera(t) /\ UNCHANGED <<running, imageVars>>)

Spec == Init /\ [][Next]_vars /\ Fairness

-----------------------------------------------------------------------------
(* The rest of the properties are those of the parts.                      *)

TypeOK == /\ CaptureTypeOK /\ DisplayTypeOK /\ ImageTypeOK
          /\ running \in {"camera", "display", "both", "image"}
=============================================================================
