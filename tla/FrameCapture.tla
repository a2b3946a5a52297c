----------------------------- MODULE FrameCapture -----------------------------
(***************************************************************************)
(* The programs that take frames from the camera: bmpCapture.c, called as  *)
(* a function by the connection threads of rpi7.c and of withPi.cpp, and   *)
(* the programs that do the same as a main program (Chapter 7 Camera,      *)
(* Chapter 9, 10 and 13).  Descriptors, the frame buffer's mapping and the *)
(* image buffer are globals of the file: two callers share them.           *)
(***************************************************************************)
EXTENDS Naturals, FiniteSets

CONSTANTS Callers,   \* the threads that may call captureImage
          Calls,     \* captures each of them asks for
          Numbers,   \* descriptor numbers the process has left
          Many       \* stands for the 100 frames of the main programs

ASSUME CaptureAssumption == Calls \in Nat /\ Many \in Nat \ {0} /\ Numbers \subseteq Nat \ {0}

VARIABLES
  prog,                        \* the program that runs
  cpc, left, asked,            \* each caller's place, frames to take, calls made
  fd, fbfd, fbp, buffers,      \* the file's globals; 0 is -1 or NULL
  files, maps, heap,           \* open descriptors by number, live mappings, live blocks
  ready,                       \* the camera has a frame
  died,                        \* why the process ended, or "no"
  overlap, hit, early          \* history: calls overlapped, a wait was interrupted,
                               \* a call returned early

captureVars == <<prog, cpc, left, asked, fd, fbfd, fbp, buffers, files, maps, heap,
                 ready, died, overlap, hit, early>>

-----------------------------------------------------------------------------
(* The programs: frames taken per run, whether the program is a function   *)
(* of a server, whether it maps the frame buffer itself, and whether it    *)
(* saves capture.bmp.                                                      *)
CaptureImage     == [frames |-> 1, library |-> TRUE, mapped |-> TRUE, saves |-> TRUE]
CaptureImageQt   == CaptureImage
BmpCapture       == [CaptureImage EXCEPT !.library = FALSE]
(* Mutant: while(count-- >= 0). *)
OneFrameTooMany  == [BmpCapture EXCEPT !.frames = Many + 1]
V4l2Framebuffer  == [BmpCapture EXCEPT !.frames = Many, !.saves = FALSE]
V4l2Neon         == V4l2Framebuffer
V4l2Filter       == V4l2Framebuffer
V4l2Qt           == [BmpCapture EXCEPT !.saves = FALSE]
DrawCamera       == [V4l2Framebuffer EXCEPT !.mapped = FALSE]
DrawCameraShader == DrawCamera
Programs == {CaptureImage, CaptureImageQt, BmpCapture, V4l2Framebuffer, V4l2Neon,
             V4l2Filter, V4l2Qt, DrawCamera, DrawCameraShader}

Lowest(S) == CHOOSE n \in S : \A m \in S : n <= m
FreeNumbers == {n \in Numbers : files[n] = "free"}
Open == Numbers \ FreeNumbers
Is(n, kind) == n \in Open /\ files[n] = kind
Idle == \A t \in Callers : cpc[t] \in {"idle", "ended"}
At(t, p) == died = "no" /\ cpc[t] = p
Goto(t, p) == cpc' = [cpc EXCEPT ![t] = p]
Exit(why) == died' = why
Stay == UNCHANGED <<prog, asked, overlap>>

\* return EXIT_FAILURE: from a function the caller goes on, from main the process ends.
ReturnEarly(t) ==
  /\ early' = TRUE
  /\ IF prog.library THEN Goto(t, "idle") /\ UNCHANGED died
                     ELSE Exit("exit") /\ UNCHANGED cpc

-----------------------------------------------------------------------------
\* The number open gives, or none when the device or the table refuses.
Opened(kind, n) ==
  \/ FreeNumbers # {} /\ n = Lowest(FreeNumbers) /\ files' = [files EXCEPT ![n] = kind]
  \/ n = 0 /\ UNCHANGED files

OpenCamera(t) ==
  /\ At(t, "idle") /\ asked[t] < Calls
  /\ prog.library \/ \A u \in Callers : asked[u] = 0
  /\ asked' = [asked EXCEPT ![t] = @ + 1]
  /\ overlap' = (overlap \/ ~Idle)
  /\ \E n \in Numbers \cup {0} :
       /\ Opened("camera", n) /\ fd' = n
       /\ IF n = 0 THEN ReturnEarly(t) ELSE Goto(t, "screen") /\ UNCHANGED <<died, early>>
  /\ UNCHANGED <<prog, left, fbfd, fbp, buffers, maps, heap, ready, hit>>

OpenScreen(t) ==
  /\ At(t, "screen")
  /\ \E n \in Numbers \cup {0} :
       /\ Opened("screen", n) /\ fbfd' = n
       /\ IF n = 0 THEN ReturnEarly(t) ELSE Goto(t, "map") /\ UNCHANGED <<died, early>>
  /\ Stay /\ UNCHANGED <<left, fd, fbp, buffers, maps, heap, ready, hit>>

\* FBIOGET_VSCREENINFO, and the mapping of the screen in the programs that draw on it.
\* The address given is the lowest that is free: it may be one used before.
MapScreen(t) ==
  /\ At(t, "map")
  /\ \/ Exit("exit") /\ UNCHANGED <<cpc, fbp, maps, early>>
     \/ ~prog.mapped /\ Goto(t, "init") /\ UNCHANGED <<died, fbp, maps, early>>
     \/ prog.mapped /\ fbp' = 0 /\ ReturnEarly(t) /\ UNCHANGED maps
     \/ /\ prog.mapped /\ Is(fbfd, "screen")
        /\ fbp' = Lowest(1..(Cardinality(maps) + 1) \ maps) /\ maps' = maps \cup {fbp'}
        /\ Goto(t, "init") /\ UNCHANGED <<died, early>>
  /\ Stay /\ UNCHANGED <<left, fd, fbfd, buffers, files, heap, ready, hit>>

\* initDevice and initRead: every failure of the driver or of malloc is an exit.
InitDevice(t) ==
  /\ At(t, "init")
  /\ \/ Exit("exit") /\ UNCHANGED <<cpc, left, buffers, heap>>
     \/ /\ Is(fd, "camera")
        /\ buffers' = Lowest(1..(Cardinality(heap) + 1) \ heap)
        /\ heap' = heap \cup {buffers'}
        /\ left' = [left EXCEPT ![t] = prog.frames]
        /\ Goto(t, "select") /\ UNCHANGED died
  /\ Stay /\ UNCHANGED <<fd, fbfd, fbp, files, maps, ready, hit, early>>

(* Mutant: no timeout, and an interrupted select is called again. *)
SelectPatiently(t) ==
  /\ At(t, "select") /\ ((Is(fd, "camera") /\ ready) \/ Is(fd, "screen"))
  /\ Goto(t, "read")
  /\ Stay /\ UNCHANGED <<left, fd, fbfd, fbp, buffers, files, maps, heap, ready, died, hit, early>>

(* Mutant: case 0 of the switch has no exit. *)
SelectFallingThrough(t) ==
  /\ At(t, "select") /\ fd \in Open
  /\ Goto(t, "read")
  /\ Stay /\ UNCHANGED <<left, fd, fbfd, fbp, buffers, files, maps, heap, ready, died, hit, early>>

\* mainloop: select with its two seconds.  An interrupted select goes on to readFrame.
Select(t) ==
  /\ At(t, "select")
  /\ \/ /\ (Is(fd, "camera") /\ ready) \/ Is(fd, "screen")
        /\ Goto(t, "read") /\ UNCHANGED <<died, hit>>
     \/ Is(fd, "camera") /\ ~ready /\ Goto(t, "read") /\ hit' = TRUE /\ UNCHANGED died
     \/ Is(fd, "camera") /\ ~ready /\ Exit("timeout") /\ UNCHANGED <<cpc, hit>>
     \/ fd \notin Open /\ Exit("exit") /\ UNCHANGED <<cpc, hit>>
  /\ Stay /\ UNCHANGED <<left, fd, fbfd, fbp, buffers, files, maps, heap, ready, early>>

\* readFrame and processImage (YuvImage): the image goes to the buffer, the pixels to the
\* screen and, by saveImage, to capture.bmp, which ends the process if it cannot be opened.
ReadFrame(t) ==
  /\ At(t, "read")
  /\ LET sound == buffers \in heap /\ (prog.mapped => fbp \in maps)
         frame == Is(fd, "camera") /\ ready
     IN \/ /\ frame \/ Is(fd, "screen")
           /\ IF sound
                THEN \/ prog.saves /\ Exit("exit") /\ UNCHANGED <<cpc, left>>
                     \/ /\ left' = [left EXCEPT ![t] = @ - 1]
                        /\ Goto(t, IF left[t] > 1 THEN "select" ELSE "uninit")
                        /\ UNCHANGED died
                ELSE Exit("memory") /\ UNCHANGED <<cpc, left>>
           /\ ready' = (ready /\ ~frame)
        \/ /\ Is(fd, "camera") /\ ~ready
           /\ Exit("again") /\ UNCHANGED <<cpc, left, ready>>
        \/ /\ fd \notin Open
           /\ Exit("exit") /\ UNCHANGED <<cpc, left, ready>>
  /\ Stay /\ UNCHANGED <<fd, fbfd, fbp, buffers, files, maps, heap, hit, early>>

\* uninitDevice: the pointers keep their values after free and munmap.
UninitDevice(t) ==
  /\ At(t, "uninit")
  /\ IF buffers \in heap
       THEN heap' = heap \ {buffers} /\ maps' = maps \ {fbp} /\ Goto(t, "close") /\ UNCHANGED died
       ELSE Exit("memory") /\ UNCHANGED <<cpc, heap, maps>>
  /\ Stay /\ UNCHANGED <<left, fd, fbfd, fbp, buffers, files, ready, hit, early>>

(* Mutant: the camera is closed in both places. *)
CloseCameraTwice(t) ==
  /\ At(t, "close")
  /\ files' = [n \in Numbers |-> IF n = fd THEN "free" ELSE files[n]]
  /\ Goto(t, "close2")
  /\ Stay /\ UNCHANGED <<left, fd, fbfd, fbp, buffers, maps, heap, ready, died, hit, early>>

\* close(fbfd) and close(fd), another caller in between or not; main then ends.
CloseScreen(t) ==
  /\ At(t, "close")
  /\ files' = [n \in Numbers |-> IF n = fbfd THEN "free" ELSE files[n]]
  /\ Goto(t, "close2")
  /\ Stay /\ UNCHANGED <<left, fd, fbfd, fbp, buffers, maps, heap, ready, died, hit, early>>

CloseCamera(t) ==
  /\ At(t, "close2")
  /\ files' = [n \in Numbers |-> IF n = fd THEN "free" ELSE files[n]]
  /\ Goto(t, IF prog.library THEN "idle" ELSE "ended")
  /\ Stay /\ UNCHANGED <<left, fd, fbfd, fbp, buffers, maps, heap, ready, died, hit, early>>

\* The camera (external) has the next frame, when somebody has it open.
Deliver ==
  /\ died = "no" /\ ~ready /\ \E n \in Open : files[n] = "camera"
  /\ ready' = TRUE
  /\ UNCHANGED <<prog, cpc, left, asked, fd, fbfd, fbp, buffers, files, maps, heap,
                 died, overlap, hit, early>>

-----------------------------------------------------------------------------
CaptureInit(programs) ==
  /\ prog \in programs
  /\ cpc = [t \in Callers |-> "idle"]
  /\ left = [t \in Callers |-> 0] /\ asked = [t \in Callers |-> 0]
  /\ fd = 0 /\ fbfd = 0 /\ fbp = 0 /\ buffers = 0
  /\ files = [n \in Numbers |-> "free"] /\ maps = {} /\ heap = {}
  /\ ready = FALSE /\ died = "no"
  /\ overlap = FALSE /\ hit = FALSE /\ early = FALSE

\* What a caller does once it is inside.
Inside(t) == \/ OpenScreen(t) \/ MapScreen(t) \/ InitDevice(t) \/ Select(t) \/ ReadFrame(t)
             \/ UninitDevice(t) \/ CloseScreen(t) \/ CloseCamera(t)

CaptureNext == Deliver \/ \E t \in Callers : OpenCamera(t) \/ Inside(t)

CaptureFairness == \A t \in Callers : WF_captureVars(Inside(t))
CaptureSpec == CaptureInit(Programs) /\ [][CaptureNext]_captureVars /\ CaptureFairness

-----------------------------------------------------------------------------
(* Properties.                                                             *)

CaptureTypeOK ==
  /\ prog \in Programs
  /\ cpc \in [Callers -> {"idle", "screen", "map", "init", "select", "read", "uninit",
                          "close", "close2", "ended"}]
  /\ left \in [Callers -> 0..Many] /\ asked \in [Callers -> 0..Calls]
  /\ fd \in Numbers \cup {0} /\ fbfd \in Numbers \cup {0}
  /\ fbp \in Nat /\ buffers \in Nat /\ maps \subseteq Nat /\ heap \subseteq Nat
  /\ files \in [Numbers -> {"free", "camera", "screen"}]
  /\ died \in {"no", "exit", "timeout", "again", "memory"}
  /\ {ready, overlap, hit, early} \subseteq BOOLEAN

\* As long as captures come one after the other and none returned early, every capture
\* gives back its two descriptors, its mapping and its buffer.
CaptureBalanced ==
  died = "no" /\ Idle /\ ~overlap /\ ~early => Open = {} /\ maps = {} /\ heap = {}

\* Freed memory is used, or freed again, only when two callers shared the globals; a
\* caller that is alone never loses the buffer, the screen or the camera it works on.  The
\* non-blocking read that finds no frame, and ends the whole process, needs an interrupted
\* wait or another caller who took the frame it had waited for.
RuinNeedsCause ==
  /\ died = "memory" => overlap
  /\ died = "again" => hit \/ overlap
  /\ ~overlap => \A t \in Callers : cpc[t] \in {"select", "read", "uninit"} =>
        /\ Is(fd, "camera") /\ Is(fbfd, "screen") /\ buffers \in heap
        /\ prog.mapped => fbp \in maps

\* A capture always comes to an end, camera or no camera: the wait has a timeout.
CaptureEnds == \A t \in Callers : cpc[t] = "screen" ~> (cpc[t] \in {"idle", "ended"} \/ died # "no")
=============================================================================
