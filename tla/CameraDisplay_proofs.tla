------------------------- MODULE CameraDisplay_proofs -------------------------
(***************************************************************************)
(* Proofs about CameraDisplay for any number of callers, captures, frames  *)
(* and buffers: whatever a step of the composed program does, it is a step *)
(* of the camera's part, of the display's part, of both, or of the         *)
(* conversion of a frame, and each part keeps its own invariant.           *)
(***************************************************************************)
EXTENDS CameraDisplay, YuvImage_proofs, FiniteSetTheorems, WellFoundedInduction, TLAPS

(* The least of some natural numbers, as open and the kernel give it.      *)
LEMMA LeastNatural ==
  ASSUME NEW T, T \subseteq Nat, T # {}
  PROVE  \E x \in T : \A y \in T : x <= y
  <1> DEFINE R == OpToRel(<, Nat)
  <1>1. IsWellFoundedOn(R, Nat)
    BY NatLessThanWellFounded
  <1>2. PICK x \in T : \A y \in T : <<y, x>> \notin R
    <2> HIDE DEF R
    <2> QED BY <1>1, WFMin
  <1>3. ASSUME NEW y \in T PROVE x <= y
    <2>1. x \in Nat /\ y \in Nat
      OBVIOUS
    <2>2. ~(y < x)
      BY <1>2, <2>1 DEF OpToRel
    <2> QED BY <2>1, <2>2
  <1> QED BY <1>3

-----------------------------------------------------------------------------
(* The display's part.                                                     *)

Surface == 1..Cardinality(Buffers)
Held == {b \in Buffers : bo[b] # "free"}

DisplayTypes ==
  /\ show \in Shows /\ frames \in 0..Loops
  /\ dpc \in {"begin", "died", "shaders", "swap", "lock", "addfb", "setcrtc", "rmprev",
              "release", "shift", "restore", "rmlast", "close", "closed"}
  /\ bo \in [Buffers -> {"free", "front", "locked"}]
  /\ fbs \in [Surface -> Buffers \cup {"none"}]
  /\ crtc \in Surface \cup {Console, Off}
  /\ currBo \in Buffers \cup {"null"} /\ prevBo \in Buffers \cup {"null", "garbage"}
  /\ currFB \in Surface \cup {0} /\ prevFB \in Surface \cup {0} /\ failed \in BOOLEAN

Before == {"begin", "shaders", "swap"}           \* no frame is being shown
Drawn == {"addfb", "setcrtc", "rmprev"}          \* both buffers are in use
Changed == {"release", "shift"}                  \* the one before is not shown any more
Ending == {"restore", "rmlast"}

(* The program's frames and what it starts with.                           *)
ShowInv ==
  /\ show.frames > 0 /\ dpc \in Before \cup {"lock"} \cup Drawn \cup Changed => frames < show.frames
  /\ show.frames = 0 => dpc \in Before \cup {"closed", "died"} /\ prevBo = "null"
  /\ prevBo = "garbage" => show.prev = "garbage"
  /\ show.frames = 1 /\ dpc \in Before \cup {"lock"} \cup Drawn \cup Changed => prevBo = "null"

(* Which buffers of the surface are not free.                              *)
BufferInv ==
  /\ dpc \in Before \cup {"lock"} \cup Drawn /\ prevBo \in Buffers => bo[prevBo] = "locked"
  /\ dpc \in Before => Held \subseteq {prevBo}
  /\ dpc = "lock" => \E b \in Buffers : bo[b] = "front" /\ Held \subseteq {prevBo, b}
  /\ dpc \in Drawn \cup Changed => currBo \in Buffers /\ bo[currBo] = "locked"
  /\ dpc \in Drawn \cup {"release"} => Held \subseteq {prevBo, currBo} /\ currBo # prevBo
  /\ dpc \in {"rmprev", "release"} => prevBo # "null"
  /\ dpc = "shift" => Held \subseteq {currBo}
  /\ dpc \in Ending => prevBo \in Buffers /\ bo[prevBo] = "locked" /\ Held \subseteq {prevBo}
  /\ dpc \in {"close", "closed"} => Held = {}
  /\ \E x, y \in Buffers : Held \subseteq {x, y}

(* Which frame buffers there are, and of which buffers without a failure.  *)
FrameInv ==
  /\ crtc \in Surface => crtc \in Live
  /\ dpc \in Before \cup {"lock", "addfb"} \cup Ending => Live \subseteq {prevFB}
  /\ dpc \in {"setcrtc", "rmprev"} => Live \subseteq {prevFB, currFB}
  /\ dpc \in Changed => Live \subseteq {currFB}
  /\ dpc \in {"close", "closed"} => Live = {}
  /\ dpc \in Before \cup {"lock", "addfb", "setcrtc", "rmprev"} /\ prevBo = "null" =>
        Live \subseteq IF dpc \in {"setcrtc", "rmprev"} THEN {currFB} ELSE {}
  /\ dpc \in Before \cup {"lock", "addfb"} \cup Ending /\ ~failed =>
        \A n \in Live : fbs[n] = prevBo
  /\ dpc \in {"setcrtc", "rmprev"} /\ ~failed =>
        \A n \in Live : fbs[n] = IF n = currFB THEN currBo ELSE prevBo
  /\ dpc \in Changed /\ ~failed => \A n \in Live : fbs[n] = currBo
  /\ ~failed => \A n \in Live : bo[fbs[n]] = "locked"

(* The display is dark after a failure, at the end of a killed program, or *)
(* when it has begun with a prevFB that nobody has set.                    *)
LightInv ==
  /\ ~failed /\ dpc \in {"rmlast", "close", "closed"} => crtc = Console
  /\ dpc \in Before \cup {"closed"} /\ show.frames = 0 => crtc = Console
  /\ ~failed /\ dpc # "died" /\ show.prev # "garbage" =>
       /\ crtc # Off
       /\ dpc \in {"setcrtc", "rmprev"} \cup Changed => currFB \in Live
       /\ dpc \in {"rmprev"} \cup Changed => crtc = currFB
       /\ dpc \in {"setcrtc", "rmprev"} /\ prevBo # "null" => currFB # prevFB
       /\ dpc \in Before \cup {"lock", "addfb"} /\ prevBo # "null" => prevFB \in Live

DisplayInv == DisplayTypes /\ ShowInv /\ BufferInv /\ FrameInv /\ LightInv

LEMMA ShowFacts ==
  /\ \A s \in Shows : /\ s.frames \in {-1, 0, 1, Loops}
                      /\ s.prev \in {"null", "garbage"}
                      /\ s.frames = 0 => s.shaders = "no" /\ s.prev = "null"
                      /\ s.frames = 1 => s.prev = "null"
  /\ {InitDrm} \subseteq Shows /\ {CameraOnScreen, CameraByShader} \subseteq Shows
  BY DisplayAssumption
     DEF Shows, DrawDrm, DrawTriangle, DrawViewport, DrawOrtho, DrawCube, DrawRotate, DrawColor,
         CubeAnimation, Opengl2Drm, Opengl2Rotate, Opengl2Animation, Rpi9, InitDrm,
         CameraOnScreen, CameraByShader

LEMMA BufferFacts ==
  /\ Cardinality(Buffers) \in Nat /\ Surface \subseteq Nat \ {0} /\ 1 \in Surface /\ 2 \in Surface
  /\ "null" \notin Buffers /\ "garbage" \notin Buffers /\ "none" \notin Buffers
  /\ Loops \in Nat /\ Loops > 1
  <1>1. Cardinality(Buffers) \in Nat
    BY DisplayAssumption, FS_CardinalityType
  <1> QED BY <1>1, DisplayAssumption DEF Surface

(* There is a second buffer.                                               *)
LEMMA Another ==
  ASSUME NEW x
  PROVE  \E b \in Buffers : b # x
  <1> SUFFICES ASSUME Buffers \subseteq {x} PROVE FALSE
    OBVIOUS
  <1>1. IsFiniteSet({x}) /\ Cardinality({x}) = 1
    BY FS_Singleton
  <1>2. Cardinality(Buffers) <= 1
    BY <1>1, FS_Subset
  <1> QED BY <1>2, BufferFacts, DisplayAssumption

(* The frame buffer that drmModeAddFB gives is a free one.                 *)
LEMMA NewFBIsFree ==
  ASSUME DisplayTypes, Live \subseteq {prevFB}
  PROVE  NewFB \in Surface /\ NewFB \notin Live
  <1> DEFINE Free == FrameBuffers \ Live
  <1>1. FrameBuffers = Surface
    BY DEF DisplayTypes, FrameBuffers
  <1>2. Free # {} /\ Free \subseteq Nat
    <2>1. 1 \in Free \/ 2 \in Free
      BY <1>1, BufferFacts
    <2> QED BY <1>1, <2>1, BufferFacts
  <1>3. \E n \in Free : \A m \in Free : n <= m
    <2> HIDE DEF Free
    <2> QED BY <1>2, LeastNatural
  <1>4. NewFB \in Free
    BY <1>3 DEF NewFB
  <1> QED BY <1>1, <1>4

LEMMA DisplayStart == DisplayInit(Shows) => DisplayInv
  <1> SUFFICES ASSUME DisplayInit(Shows) PROVE DisplayInv
    OBVIOUS
  <1> USE BufferFacts, ShowFacts DEF DisplayInit, Before, Drawn, Changed, Ending, Console, Off
  <1>0. fbs = [n \in Surface |-> "none"] /\ FrameBuffers = Surface
    BY DEF Surface, FrameBuffers
  <1>1. DisplayTypes
    <2>1. fbs \in [Surface -> Buffers \cup {"none"}] /\ bo \in [Buffers -> {"free", "front", "locked"}]
      BY <1>0
    <2>2. prevBo \in Buffers \cup {"null", "garbage"} /\ prevFB \in Surface \cup {0}
      BY <1>0
    <2>3. show \in Shows /\ frames \in 0..Loops
      OBVIOUS
    <2>4. crtc = 0 /\ currBo = "null" /\ currFB = 0 /\ failed = FALSE /\ dpc = "begin"
      OBVIOUS
    <2> QED BY <2>1, <2>2, <2>3, <2>4 DEF DisplayTypes
  <1>2. Held = {} /\ Live = {}
    BY <1>0 DEF Held, Live
  <1>3. ShowInv
    BY DEF ShowInv
  <1>4. BufferInv
    BY <1>2, Another DEF BufferInv
  <1>5. FrameInv
    BY <1>2 DEF FrameInv
  <1>6. LightInv
    BY DEF LightInv
  <1> QED BY <1>1, <1>3, <1>4, <1>5, <1>6 DEF DisplayInv

LEMMA BeginKeeps == DisplayInv /\ Begin => DisplayInv'
  <1> SUFFICES ASSUME DisplayInv, Begin PROVE DisplayInv'
    OBVIOUS
  <1> USE ShowFacts DEF DisplayInv, Begin, Before, Drawn, Changed, Ending
  <1>1. DisplayTypes'
    BY DEF DisplayTypes
  <1>2. Held' = Held /\ Live' = Live
    BY DEF Held, Live, FrameBuffers
  <1>3. ShowInv'
    BY DEF ShowInv, DisplayTypes
  <1>4. BufferInv'
    BY <1>2 DEF BufferInv
  <1>5. FrameInv'
    BY <1>2 DEF FrameInv
  <1>6. LightInv'
    BY <1>2 DEF LightInv
  <1> QED BY <1>1, <1>3, <1>4, <1>5, <1>6

LEMMA LoadShadersKeeps == DisplayInv /\ LoadShaders => DisplayInv'
  <1> SUFFICES ASSUME DisplayInv, LoadShaders PROVE DisplayInv'
    OBVIOUS
  <1> USE ShowFacts DEF DisplayInv, LoadShaders, Before, Drawn, Changed, Ending
  <1>1. DisplayTypes'
    BY DEF DisplayTypes
  <1>2. Held' = Held /\ Live' = Live
    BY DEF Held, Live, FrameBuffers
  <1>3. ShowInv'
    BY DEF ShowInv, DisplayTypes
  <1>4. BufferInv'
    BY <1>2 DEF BufferInv
  <1>5. FrameInv'
    BY <1>2 DEF FrameInv
  <1>6. LightInv'
    BY <1>2 DEF LightInv
  <1> QED BY <1>1, <1>3, <1>4, <1>5, <1>6

(* Only one buffer is in use when the next one is asked for.               *)
LEMMA NeverStarved ==
  ASSUME DisplayInv, dpc = "swap"
  PROVE  \E b \in Buffers : bo[b] = "free"
  <1>1. Held \subseteq {prevBo}
    BY DEF DisplayInv, BufferInv, Before
  <1> QED BY <1>1, Another DEF Held

LEMMA KilledKeeps == DisplayInv /\ Killed => DisplayInv'
  <1> SUFFICES ASSUME DisplayInv, Killed PROVE DisplayInv'
    OBVIOUS
  <1> USE BufferFacts DEF DisplayInv, Before, Drawn, Changed, Ending, Console, Off
  <1>1. /\ dpc' = "died" /\ FrameBuffers = Surface
        /\ UNCHANGED <<show, frames, bo, currBo, currFB, prevBo, prevFB, shader, failed>>
    BY DEF Killed, FrameBuffers, DisplayTypes
  <1>2. fbs' = [n \in Surface |-> "none"] /\ crtc' = IF crtc \in Surface THEN -1 ELSE crtc
    BY <1>1 DEF Killed
  <1>3. Live' = {} /\ Held' = Held
    BY <1>1, <1>2 DEF Live, Held, FrameBuffers
  <1>4. DisplayTypes'
    <2>1. fbs' \in [Surface -> Buffers \cup {"none"}] /\ crtc' \in Surface \cup {0, -1}
      BY <1>2 DEF DisplayTypes
    <2> QED BY <1>1, <2>1 DEF DisplayTypes
  <1>5. ShowInv' /\ BufferInv'
    BY <1>1, <1>3 DEF ShowInv, BufferInv
  <1>6. FrameInv'
    <2>1. crtc' \notin Surface
      BY <1>2
    <2> QED BY <1>1, <1>3, <2>1 DEF FrameInv
  <1>7. LightInv'
    BY <1>1 DEF LightInv
  <1> QED BY <1>4, <1>5, <1>6, <1>7

LEMMA SwapKeeps == DisplayInv /\ Swap => DisplayInv'
  <1> SUFFICES ASSUME DisplayInv, Swap, ~Killed PROVE DisplayInv'
    BY KilledKeeps
  <1> USE DEF DisplayInv, Before, Drawn, Changed, Ending
  <1>1. PICK b \in Buffers : bo[b] = "free" /\ bo' = [bo EXCEPT ![b] = "front"] /\ dpc' = "lock"
    BY NeverStarved DEF Swap
  <1>2. /\ dpc = "swap" /\ show.frames # 0
        /\ UNCHANGED <<show, frames, fbs, crtc, currBo, currFB, prevBo, prevFB, shader, failed>>
    BY DEF Swap
  <1>3. DisplayTypes'
    BY <1>1, <1>2 DEF DisplayTypes
  <1>4. Held' = Held \cup {b} /\ bo'[b] = "front" /\ \A c \in Buffers \ {b} : bo'[c] = bo[c]
    BY <1>1 DEF Held, DisplayTypes
  <1>5. Live' = Live /\ FrameBuffers = Surface /\ FrameBuffers' = Surface
    BY <1>2, <1>3 DEF Live, FrameBuffers, DisplayTypes
  <1>6. ShowInv'
    BY <1>1, <1>2 DEF ShowInv
  <1>7. BufferInv'
    <2>1. Held \subseteq {prevBo}
      BY <1>2 DEF BufferInv
    <2>2. bo'[b] = "front" /\ Held' \subseteq {prevBo', b}
      BY <1>2, <1>4, <2>1
    <2>3. prevBo' \in Buffers => bo'[prevBo'] = "locked"
      BY <1>1, <1>2, <1>4 DEF BufferInv
    <2>4. \E x, y \in Buffers : Held' \subseteq {x, y}
      <3>1. Held' \subseteq Buffers
        BY DEF Held
      <3>2. CASE prevBo \in Buffers
        BY <1>2, <2>2, <3>2
      <3>3. CASE prevBo \notin Buffers
        BY <1>2, <2>2, <3>1, <3>3
      <3> QED BY <3>2, <3>3
    <2> QED BY <1>1, <2>2, <2>3, <2>4 DEF BufferInv
  <1>8. FrameInv'
    <2>1. \A n \in Live : ~failed => bo'[fbs[n]] = "locked"
      <3> SUFFICES ASSUME NEW n \in Live, ~failed PROVE bo'[fbs[n]] = "locked"
        OBVIOUS
      <3>1. bo[fbs[n]] = "locked" /\ fbs[n] \in Buffers
        BY <1>5 DEF FrameInv, Live, DisplayTypes
      <3> QED BY <1>1, <1>4, <3>1
    <2> QED BY <1>1, <1>2, <1>5, <2>1 DEF FrameInv
  <1>9. LightInv'
    BY <1>1, <1>2, <1>5 DEF LightInv
  <1> QED BY <1>3, <1>6, <1>7, <1>8, <1>9

LEMMA LockFrontKeeps == DisplayInv /\ LockFront => DisplayInv'
  <1> SUFFICES ASSUME DisplayInv, LockFront PROVE DisplayInv'
    OBVIOUS
  <1> USE BufferFacts DEF DisplayInv, Before, Drawn, Changed, Ending
  <1>1. PICK b \in Buffers : bo[b] = "front" /\ currBo' = b /\ bo' = [bo EXCEPT ![b] = "locked"]
    BY DEF LockFront
  <1>2. /\ dpc = "lock" /\ dpc' = "addfb"
        /\ UNCHANGED <<show, frames, fbs, crtc, currFB, prevBo, prevFB, shader, failed>>
    BY DEF LockFront, Step
  <1>3. DisplayTypes'
    BY <1>1, <1>2 DEF DisplayTypes
  <1>4. Held' = Held /\ bo'[b] = "locked" /\ \A c \in Buffers \ {b} : bo'[c] = bo[c]
    BY <1>1 DEF Held, DisplayTypes
  <1>5. Live' = Live /\ FrameBuffers = Surface
    BY <1>2 DEF Live, FrameBuffers, DisplayTypes
  <1>6. ShowInv'
    BY <1>2 DEF ShowInv
  <1>7. BufferInv'
    <2>1. PICK c \in Buffers : bo[c] = "front" /\ Held \subseteq {prevBo, c}
      BY <1>2 DEF BufferInv
    <2>2. b \in Held /\ b # prevBo
      BY <1>1, <1>2 DEF Held, BufferInv
    <2>3. Held' \subseteq {prevBo', currBo'} /\ currBo' # prevBo'
      BY <1>1, <1>2, <1>4, <2>1, <2>2
    <2>4. prevBo' \in Buffers => bo'[prevBo'] = "locked"
      BY <1>2, <1>4 DEF BufferInv
    <2>5. \E x, y \in Buffers : Held' \subseteq {x, y}
      BY <1>4 DEF BufferInv
    <2> QED BY <1>1, <1>2, <1>4, <2>3, <2>4, <2>5 DEF BufferInv
  <1>8. FrameInv'
    <2>1. \A n \in Live : ~failed => bo'[fbs[n]] = "locked"
      BY <1>4, <1>5 DEF FrameInv, Live, DisplayTypes
    <2> QED BY <1>2, <1>5, <2>1 DEF FrameInv
  <1>9. LightInv'
    BY <1>2, <1>5 DEF LightInv
  <1> QED BY <1>3, <1>6, <1>7, <1>8, <1>9

LEMMA AddFBKeeps == DisplayInv /\ AddFB => DisplayInv'
  <1> SUFFICES ASSUME DisplayInv, AddFB PROVE DisplayInv'
    OBVIOUS
  <1> USE BufferFacts DEF DisplayInv, Before, Drawn, Changed, Ending
  <1>1. /\ dpc = "addfb" /\ dpc' = "setcrtc"
        /\ UNCHANGED <<show, frames, bo, crtc, currBo, prevBo, prevFB, shader>>
    BY DEF AddFB, Step
  <1>2. FrameBuffers = Surface /\ currBo \in Buffers /\ bo[currBo] = "locked"
    BY <1>1 DEF FrameBuffers, DisplayTypes, BufferInv
  <1>3. Live \subseteq {prevFB} /\ (prevBo = "null" => Live = {})
    BY <1>1 DEF FrameInv
  <1>4. Held' = Held /\ ShowInv' /\ BufferInv'
    BY <1>1 DEF Held, ShowInv, BufferInv
  <1>5. CASE currFB' = NewFB /\ fbs' = [fbs EXCEPT ![currFB'] = currBo] /\ UNCHANGED failed
    <2>1. NewFB \in Surface /\ NewFB \notin Live
      BY <1>3, NewFBIsFree
    <2>2. /\ fbs'[NewFB] = currBo /\ \A n \in Surface \ {NewFB} : fbs'[n] = fbs[n]
          /\ fbs' \in [Surface -> Buffers \cup {"none"}]
      BY <1>2, <1>5, <2>1 DEF DisplayTypes
    <2>3. Live' = Live \cup {NewFB}
      BY <1>2, <2>1, <2>2 DEF Live, FrameBuffers, DisplayTypes
    <2>4. DisplayTypes'
      BY <1>1, <1>5, <2>1, <2>2 DEF DisplayTypes
    <2>5. FrameInv'
      <3>1. ~failed => \A n \in Live' : fbs'[n] = IF n = currFB' THEN currBo ELSE prevBo
        BY <1>1, <1>5, <2>1, <2>2, <2>3 DEF FrameInv, Live, FrameBuffers, DisplayTypes
      <3>2. ~failed => \A n \in Live' : bo[fbs'[n]] = "locked"
        BY <1>1, <1>2, <2>1, <2>2, <2>3 DEF FrameInv, Live, FrameBuffers, DisplayTypes
      <3>3. crtc' \in Surface => crtc' \in Live'
        BY <1>1, <2>3 DEF FrameInv
      <3> QED BY <1>1, <1>3, <1>5, <2>3, <3>1, <3>2, <3>3 DEF FrameInv
    <2>6. LightInv'
      BY <1>1, <1>3, <1>5, <2>1, <2>3 DEF LightInv
    <2> QED BY <1>4, <2>4, <2>5, <2>6
  <1>6. CASE /\ currFB' \in IF show.frames = Loops THEN FrameBuffers \cup {0} ELSE {currFB}
             /\ failed' = TRUE /\ UNCHANGED fbs
    <2>1. Live' = Live
      BY <1>6 DEF Live, FrameBuffers
    <2>2. DisplayTypes'
      BY <1>1, <1>2, <1>6 DEF DisplayTypes
    <2>3. FrameInv'
      BY <1>1, <1>3, <1>6, <2>1 DEF FrameInv
    <2>4. LightInv'
      BY <1>1, <1>6 DEF LightInv
    <2> QED BY <1>4, <2>2, <2>3, <2>4
  <1> QED BY <1>5, <1>6 DEF AddFB

LEMMA SetCrtcKeeps == DisplayInv /\ SetCrtc => DisplayInv'
  <1> SUFFICES ASSUME DisplayInv, SetCrtc PROVE DisplayInv'
    OBVIOUS
  <1> USE BufferFacts DEF DisplayInv, Before, Drawn, Changed, Ending
  <1>1. /\ dpc = "setcrtc" /\ UNCHANGED <<show, frames, bo, fbs, currBo, currFB, prevBo, prevFB, shader>>
        /\ dpc' = IF show.frames # 1 /\ prevBo # "null" THEN "rmprev" ELSE "shift"
    BY DEF SetCrtc
  <1>2. \/ currFB \in Live /\ crtc' = currFB /\ failed' = failed
        \/ failed' = TRUE /\ crtc' = crtc
    BY DEF SetCrtc
  <1>3. Held' = Held /\ Live' = Live /\ FrameBuffers = Surface
    BY <1>1 DEF Held, Live, FrameBuffers, DisplayTypes
  <1>4. DisplayTypes'
    BY <1>1, <1>2, <1>3 DEF DisplayTypes, Live
  <1>5. dpc' = "shift" => prevBo = "null"
    BY <1>1 DEF ShowInv
  <1>6. ShowInv'
    BY <1>1, <1>5 DEF ShowInv
  <1>7. BufferInv'
    <2>1. dpc' = "shift" => Held' \subseteq {currBo'}
      BY <1>1, <1>3, <1>5 DEF BufferInv, Held
    <2> QED BY <1>1, <1>3, <1>5, <2>1 DEF BufferInv
  <1>8. FrameInv'
    <2>1. dpc' = "shift" => Live' \subseteq {currFB'}
      BY <1>1, <1>3, <1>5 DEF FrameInv
    <2>2. ~failed' => ~failed
      BY <1>2 DEF DisplayTypes
    <2>3. crtc' \in Surface => crtc' \in Live'
      BY <1>2, <1>3 DEF FrameInv
    <2> QED BY <1>1, <1>3, <1>5, <2>1, <2>2, <2>3 DEF FrameInv
  <1>9. LightInv'
    <2>1. ~failed' => ~failed /\ currFB \in Live /\ crtc' = currFB
      BY <1>2 DEF DisplayTypes
    <2>2. ~failed' => currFB \in Surface /\ currFB # Off
      BY <1>3, <2>1 DEF Live, Off
    <2> QED BY <1>1, <1>3, <2>1, <2>2 DEF LightInv, ShowInv
  <1> QED BY <1>4, <1>6, <1>7, <1>8, <1>9

(* A frame buffer that is removed is not scanned out any more.             *)
LEMMA RemovedFacts ==
  ASSUME DisplayTypes, FrameInv, NEW n \in Surface \cup {0}, Removed(n)
  PROVE  /\ Live' = Live \ {n}
         /\ \A m \in Live' : fbs'[m] = fbs[m]
         /\ fbs' \in [Surface -> Buffers \cup {"none"}]
         /\ crtc' \in Surface \cup {Console, Off}
         /\ crtc' \in Surface => crtc' \in Live'
         /\ crtc' = crtc \/ (crtc' = Off /\ crtc = n /\ n # Console)
  <1>1. FrameBuffers = Surface
    BY DEF FrameBuffers, DisplayTypes
  <1>2. /\ fbs' = [m \in Surface |-> IF m = n THEN "none" ELSE fbs[m]]
        /\ crtc' = IF crtc = n /\ n # Console THEN Off ELSE crtc
    BY <1>1 DEF Removed
  <1>3. fbs' \in [Surface -> Buffers \cup {"none"}] /\ FrameBuffers' = Surface
    BY <1>2 DEF DisplayTypes, FrameBuffers
  <1>4. Live' = Live \ {n} /\ \A m \in Live' : fbs'[m] = fbs[m]
    BY <1>1, <1>2, <1>3 DEF Live
  <1>5. crtc' \in Surface \cup {Console, Off}
    BY <1>2 DEF DisplayTypes
  <1>6. crtc' \in Surface => crtc' \in Live'
    BY <1>2, <1>4, BufferFacts DEF FrameInv, Off, Console
  <1> QED BY <1>2, <1>3, <1>4, <1>5, <1>6

LEMMA RemovePreviousKeeps == DisplayInv /\ RemovePrevious => DisplayInv'
  <1> SUFFICES ASSUME DisplayInv, RemovePrevious PROVE DisplayInv'
    OBVIOUS
  <1> USE DEF DisplayInv, Before, Drawn, Changed, Ending
  <1>1. /\ dpc = "rmprev" /\ dpc' = "release" /\ Removed(prevFB)
        /\ UNCHANGED <<show, frames, bo, currBo, currFB, prevBo, prevFB, shader, failed>>
    BY DEF RemovePrevious, Step
  <1>2. prevFB \in Surface \cup {0}
    BY DEF DisplayTypes
  <1>3. /\ Live' = Live \ {prevFB} /\ \A m \in Live' : fbs'[m] = fbs[m]
        /\ fbs' \in [Surface -> Buffers \cup {"none"}] /\ crtc' \in Surface \cup {Console, Off}
        /\ crtc' \in Surface => crtc' \in Live'
        /\ crtc' = crtc \/ (crtc' = Off /\ crtc = prevFB)
    BY <1>1, <1>2, RemovedFacts
  <1>4. DisplayTypes'
    BY <1>1, <1>3 DEF DisplayTypes
  <1>5. Held' = Held
    BY <1>1 DEF Held
  <1>6. ShowInv' /\ BufferInv'
    BY <1>1, <1>5 DEF ShowInv, BufferInv
  <1>7. FrameInv'
    <2>1. Live \subseteq {prevFB, currFB}
      BY <1>1 DEF FrameInv
    <2>2. \A m \in Live' : m = currFB
      BY <1>3, <2>1
    <2>3. ~failed => \A m \in Live' : fbs'[m] = currBo
      BY <1>1, <1>3, <2>2 DEF FrameInv
    <2> QED BY <1>1, <1>3, <2>2, <2>3 DEF FrameInv
  <1>8. LightInv'
    BY <1>1, <1>3, BufferFacts DEF LightInv, BufferInv, ShowInv
  <1> QED BY <1>4, <1>6, <1>7, <1>8

LEMMA ReleasePreviousKeeps == DisplayInv /\ ReleasePrevious => DisplayInv'
  <1> SUFFICES ASSUME DisplayInv, ReleasePrevious PROVE DisplayInv'
    OBVIOUS
  <1> USE BufferFacts DEF DisplayInv, Before, Drawn, Changed, Ending
  <1>1. /\ dpc = "release" /\ dpc' \in {"died", "shift"}
        /\ UNCHANGED <<show, frames, fbs, crtc, currBo, currFB, prevBo, prevFB, shader, failed>>
    BY DEF ReleasePrevious
  <1>2. Live' = Live /\ FrameBuffers = Surface
    BY <1>1 DEF Live, FrameBuffers, DisplayTypes
  <1>3. /\ bo' \in [Buffers -> {"free", "front", "locked"}]
        /\ bo'[currBo] = "locked" /\ Held' \subseteq {currBo} /\ currBo \in Buffers
    <2>1. /\ prevBo \in Buffers \cup {"garbage"} /\ currBo # prevBo /\ Held \subseteq {prevBo, currBo}
          /\ currBo \in Buffers /\ bo[currBo] = "locked"
      BY <1>1 DEF BufferInv, DisplayTypes
    <2>2. CASE prevBo = "garbage"
      <3>1. bo' = bo
        BY <2>2 DEF ReleasePrevious
      <3> QED BY <2>1, <2>2, <3>1 DEF Held, DisplayTypes
    <2>3. CASE prevBo \in Buffers
      <3>1. bo' = [bo EXCEPT ![prevBo] = "free"]
        BY <2>3 DEF ReleasePrevious
      <3>2. Held' \subseteq Held \ {prevBo}
        BY <2>3, <3>1 DEF Held, DisplayTypes
      <3>3. bo' \in [Buffers -> {"free", "front", "locked"}] /\ bo'[currBo] = bo[currBo]
        BY <2>1, <3>1 DEF DisplayTypes
      <3> QED BY <2>1, <3>2, <3>3
    <2> QED BY <2>1, <2>2, <2>3
  <1>4. DisplayTypes'
    BY <1>1, <1>3 DEF DisplayTypes
  <1>5. ShowInv'
    BY <1>1 DEF ShowInv
  <1>6. BufferInv'
    BY <1>1, <1>3 DEF BufferInv
  <1>7. FrameInv'
    <2>1. ~failed => \A n \in Live' : fbs'[n] = currBo
      BY <1>1, <1>2 DEF FrameInv
    <2> QED BY <1>1, <1>2, <1>3, <2>1 DEF FrameInv
  <1>8. LightInv'
    BY <1>1, <1>2 DEF LightInv
  <1> QED BY <1>4, <1>5, <1>6, <1>7, <1>8

LEMMA ShiftKeeps == DisplayInv /\ Shift => DisplayInv'
  <1> SUFFICES ASSUME DisplayInv, Shift PROVE DisplayInv'
    OBVIOUS
  <1> USE BufferFacts DEF DisplayInv, Before, Drawn, Changed, Ending
  <1>1. /\ dpc = "shift" /\ prevBo' = currBo /\ prevFB' = currFB
        /\ UNCHANGED <<show, bo, fbs, crtc, currBo, currFB, shader, failed>>
    BY DEF Shift
  <1>2. /\ frames' = IF show.frames > 0 THEN frames + 1 ELSE 0
        /\ dpc' = IF frames' = show.frames THEN "restore" ELSE "swap"
    BY DEF Shift
  <1>3. Live' = Live /\ Held' = Held /\ FrameBuffers = Surface
    BY <1>1 DEF Live, Held, FrameBuffers, DisplayTypes
  <1>4. show.frames \in {-1, 1, Loops} /\ show \in Shows /\ frames \in 0..Loops
    BY <1>1, ShowFacts DEF ShowInv, DisplayTypes
  <1>5. show.frames > 0 => frames < show.frames
    BY <1>1 DEF ShowInv
  <1>6. frames' \in 0..Loops /\ (show.frames > 0 /\ dpc' = "swap" => frames' < show.frames)
    BY <1>2, <1>4, <1>5
  <1>7. show.frames = 1 => dpc' = "restore"
    BY <1>2, <1>4, <1>5
  <1>8. DisplayTypes'
    <2>1. UNCHANGED <<show, bo, fbs, crtc, currBo, currFB, failed>> /\ dpc' \in {"restore", "swap"}
      BY <1>1, <1>2
    <2> QED BY <1>1, <1>6, <2>1 DEF DisplayTypes
  <1>9. currBo \in Buffers /\ bo[currBo] = "locked" /\ Held \subseteq {currBo}
    BY <1>1 DEF BufferInv
  <1>10. ShowInv'
    BY <1>1, <1>2, <1>4, <1>6, <1>7, <1>9 DEF ShowInv
  <1>11. BufferInv'
    BY <1>1, <1>2, <1>3, <1>9 DEF BufferInv
  <1>12. FrameInv'
    BY <1>1, <1>2, <1>3, <1>9 DEF FrameInv
  <1>13. LightInv'
    BY <1>1, <1>2, <1>3, <1>4 DEF LightInv
  <1> QED BY <1>8, <1>10, <1>11, <1>12, <1>13

LEMMA RestoreKeeps == DisplayInv /\ Restore => DisplayInv'
  <1> SUFFICES ASSUME DisplayInv, Restore PROVE DisplayInv'
    OBVIOUS
  <1> USE BufferFacts DEF DisplayInv, Before, Drawn, Changed, Ending, Console, Off
  <1>1. /\ dpc = "restore" /\ dpc' = "rmlast"
        /\ UNCHANGED <<show, frames, bo, fbs, currBo, currFB, prevBo, prevFB, shader>>
    BY DEF Restore, Step
  <1>2. (crtc' = 0 /\ failed' = failed) \/ (failed' = TRUE /\ crtc' = crtc)
    BY DEF Restore
  <1>3. Live' = Live /\ Held' = Held
    BY <1>1 DEF Live, Held, FrameBuffers
  <1>4. DisplayTypes'
    BY <1>1, <1>2 DEF DisplayTypes
  <1>5. ShowInv' /\ BufferInv'
    BY <1>1, <1>3 DEF ShowInv, BufferInv
  <1>6. FrameInv'
    <2>1. ~failed' => ~failed
      BY <1>2
    <2>2. crtc' \in Surface => crtc' \in Live'
      BY <1>2, <1>3 DEF FrameInv
    <2> QED BY <1>1, <1>3, <2>1, <2>2 DEF FrameInv
  <1>7. LightInv'
    BY <1>1, <1>2, <1>3 DEF LightInv, ShowInv
  <1> QED BY <1>4, <1>5, <1>6, <1>7

LEMMA RemoveLastKeeps == DisplayInv /\ RemoveLast => DisplayInv'
  <1> SUFFICES ASSUME DisplayInv, RemoveLast PROVE DisplayInv'
    OBVIOUS
  <1> USE BufferFacts DEF DisplayInv, Before, Drawn, Changed, Ending, Console, Off
  <1>1. /\ dpc = "rmlast" /\ dpc' = "close" /\ Removed(prevFB)
        /\ bo' = [bo EXCEPT ![prevBo] = "free"]
        /\ UNCHANGED <<show, frames, currBo, currFB, prevBo, prevFB, shader, failed>>
    BY DEF RemoveLast, Step
  <1>2. prevFB \in Surface \cup {0}
    BY DEF DisplayTypes
  <1>3. /\ Live' = Live \ {prevFB} /\ fbs' \in [Surface -> Buffers \cup {"none"}]
        /\ crtc' \in Surface \cup {Console, Off} /\ (crtc' \in Surface => crtc' \in Live')
        /\ crtc' = crtc \/ (crtc = prevFB /\ prevFB # 0)
    BY <1>1, <1>2, RemovedFacts
  <1>4. bo' \in [Buffers -> {"free", "front", "locked"}] /\ Held' = {}
    BY <1>1 DEF BufferInv, DisplayTypes, Held
  <1>5. Live' = {}
    BY <1>1, <1>3 DEF FrameInv
  <1>6. DisplayTypes'
    BY <1>1, <1>3, <1>4 DEF DisplayTypes
  <1>7. ShowInv'
    BY <1>1 DEF ShowInv
  <1>8. BufferInv'
    BY <1>1, <1>4, Another DEF BufferInv
  <1>9. FrameInv'
    BY <1>1, <1>3, <1>5 DEF FrameInv
  <1>10. LightInv'
    BY <1>1, <1>3 DEF LightInv, ShowInv
  <1> QED BY <1>6, <1>7, <1>8, <1>9, <1>10

LEMMA CloseKeeps == DisplayInv /\ Close => DisplayInv'
  <1> SUFFICES ASSUME DisplayInv, Close PROVE DisplayInv'
    OBVIOUS
  <1> USE BufferFacts DEF DisplayInv, Before, Drawn, Changed, Ending, Console, Off
  <1>1. dpc = "close" \/ (dpc = "swap" /\ show.frames = 0)
    BY DEF Close
  <1>2. dpc' = "closed"
    BY DEF Close
  <1>3. Live' = Live /\ Held' = Held
    BY DEF Close, Live, Held, FrameBuffers
  <1>4. DisplayTypes'
    BY DEF Close, DisplayTypes
  <1>5. ShowInv'
    BY DEF Close, ShowInv
  <1>6. Held = {} /\ Live = {}
    BY <1>1 DEF Close, ShowInv, BufferInv, FrameInv, Held
  <1>7. BufferInv'
    BY <1>2, <1>3, <1>6, Another DEF BufferInv
  <1>8. FrameInv'
    <2>1. crtc' \notin Surface
      BY <1>6 DEF Close, FrameInv
    <2>2. Live' = {}
      BY <1>3, <1>6
    <2> QED BY <1>2, <2>1, <2>2 DEF FrameInv
  <1>9. LightInv'
    <2>1. crtc' = crtc /\ failed' = failed /\ show' = show
      BY DEF Close
    <2>2. ~failed => crtc = Console
      BY <1>1 DEF LightInv
    <2>3. show.frames = 0 => crtc = Console
      BY <1>1 DEF LightInv, ShowInv
    <2>4. ~failed /\ dpc # "died" /\ show.prev # "garbage" => crtc # Off
      BY DEF LightInv
    <2> QED BY <1>1, <1>2, <2>1, <2>2, <2>3, <2>4 DEF LightInv
  <1> QED BY <1>4, <1>5, <1>7, <1>8, <1>9

LEMMA DisplayStep == DisplayInv /\ [DisplayNext]_displayVars => DisplayInv'
  <1> SUFFICES ASSUME DisplayInv, [DisplayNext]_displayVars PROVE DisplayInv'
    OBVIOUS
  <1>1. CASE DisplayNext
    BY <1>1, BeginKeeps, LoadShadersKeeps, SwapKeeps, LockFrontKeeps, AddFBKeeps, SetCrtcKeeps,
       RemovePreviousKeeps, ReleasePreviousKeeps, ShiftKeeps, RestoreKeeps, RemoveLastKeeps,
       CloseKeeps, KilledKeeps DEF DisplayNext, Frame
  <1>2. CASE UNCHANGED displayVars
    <2>1. Held' = Held /\ Live' = Live
      BY <1>2 DEF displayVars, Held, Live, FrameBuffers
    <2> QED BY <1>2, <2>1 DEF displayVars, DisplayInv, DisplayTypes, ShowInv, BufferInv, FrameInv, LightInv
  <1> QED BY <1>1, <1>2

-----------------------------------------------------------------------------
(* The camera's part.                                                      *)

Busy == {t \in Callers : cpc[t] \notin {"idle", "ended"}}

CallTypes ==
  /\ prog \in Programs
  /\ cpc \in [Callers -> {"idle", "screen", "map", "init", "select", "read", "uninit",
                          "close", "close2", "ended"}]
  /\ left \in [Callers -> 0..Many] /\ asked \in [Callers -> 0..Calls]
  /\ died \in {"no", "exit", "timeout", "again", "memory"}
  /\ \A t \in Callers : cpc[t] \in {"select", "read"} => left[t] >= 1
FileTypes ==
  /\ fd \in Numbers \cup {0} /\ fbfd \in Numbers \cup {0}
  /\ files \in [Numbers -> {"free", "camera", "screen"}]
MemoryTypes ==
  /\ fbp \in Nat /\ buffers \in Nat /\ maps \subseteq Nat /\ heap \subseteq Nat
  /\ IsFiniteSet(maps) /\ IsFiniteSet(heap)
FlagTypes == ready \in BOOLEAN /\ overlap \in BOOLEAN /\ hit \in BOOLEAN /\ early \in BOOLEAN
CaptureTypes == CallTypes /\ FileTypes /\ MemoryTypes /\ FlagTypes

(* As long as calls did not overlap there is one caller inside, and what   *)
(* it has opened, mapped and allocated is there.                           *)
SoleInv == ~overlap => \A t, u \in Busy : t = u
WorkInv ==
  ~overlap =>
    \A t \in Busy :
      /\ Is(fd, "camera")
      /\ cpc[t] \notin {"screen", "close2"} => Is(fbfd, "screen")
      /\ cpc[t] \in {"init", "select", "read", "uninit"} /\ prog.mapped => fbp \in maps
      /\ cpc[t] \in {"select", "read", "uninit"} => buffers \in heap
      /\ cpc[t] = "read" /\ ~hit /\ died = "no" => ready

(* And nothing else is, unless a call returned early.                      *)
NothingElse(p) ==
  /\ Open \subseteq CASE p = "idle" -> {}
                      [] p \in {"screen", "close2"} -> {fd}
                      [] OTHER -> {fd, fbfd}
  /\ maps \subseteq IF p \in {"init", "select", "read", "uninit"} /\ prog.mapped THEN {fbp} ELSE {}
  /\ heap \subseteq IF p \in {"select", "read", "uninit"} THEN {buffers} ELSE {}
BalanceInv ==
  ~overlap /\ ~early /\ died = "no" =>
    (Busy = {} => NothingElse("idle")) /\ \A t \in Busy : NothingElse(cpc[t])

RuinInv == (died = "memory" => overlap) /\ (died = "again" => hit \/ overlap)

CaptureInv == CaptureTypes /\ SoleInv /\ WorkInv /\ BalanceInv /\ RuinInv

LEMMA ProgramFacts ==
  /\ \A p \in Programs : p.frames \in {1, Many} /\ p.frames \in 0..Many /\ p.frames >= 1
  /\ Programs \ {DrawCamera} \subseteq Programs /\ {BmpCapture} \subseteq Programs
  /\ {DrawCamera} \subseteq Programs
  BY CaptureAssumption
     DEF Programs, CaptureImage, CaptureImageQt, BmpCapture, V4l2Framebuffer, V4l2Neon, V4l2Filter,
         V4l2Qt, DrawCamera, DrawCameraShader

(* open gives a number that was free, or none.                             *)
LEMMA OpenedFacts ==
  ASSUME NEW kind, NEW n \in Numbers \cup {0}, Opened(kind, n)
  PROVE  \/ n = 0 /\ files' = files
         \/ n \in FreeNumbers /\ n # 0 /\ files' = [files EXCEPT ![n] = kind]
  <1>1. 0 \notin Numbers /\ Numbers \subseteq Nat
    BY CaptureAssumption
  <1>2. ASSUME FreeNumbers # {} PROVE Lowest(FreeNumbers) \in FreeNumbers
    <2>1. FreeNumbers \subseteq Nat
      BY <1>1 DEF FreeNumbers
    <2>2. \E m \in FreeNumbers : \A k \in FreeNumbers : m <= k
      BY <1>2, <2>1, LeastNatural
    <2> QED BY <2>2 DEF Lowest
  <1>3. FreeNumbers \subseteq Numbers
    BY DEF FreeNumbers
  <1> QED BY <1>1, <1>2, <1>3 DEF Opened

(* A new mapping or block has a number of its own.                         *)
LEMMA LowestNew ==
  ASSUME NEW S, S \subseteq Nat, IsFiniteSet(S)
  PROVE  Lowest(1..(Cardinality(S) + 1) \ S) \in Nat \ S
  <1> DEFINE n == Cardinality(S) + 1
             T == 1..n \ S
  <1>1. Cardinality(S) \in Nat
    BY FS_CardinalityType
  <1>2. IsFiniteSet(1..n) /\ Cardinality(1..n) = n
    BY <1>1, FS_Interval
  <1>3. T # {}
    <2> SUFFICES ASSUME 1..n \subseteq S PROVE FALSE
      OBVIOUS
    <2>1. Cardinality(1..n) <= Cardinality(S)
      BY FS_Subset
    <2> QED BY <1>1, <1>2, <2>1
  <1>4. T \subseteq Nat
    BY <1>1
  <1>5. \E m \in T : \A k \in T : m <= k
    <2> HIDE DEF T
    <2> QED BY <1>3, <1>4, LeastNatural
  <1>6. Lowest(T) \in T
    <2> HIDE DEF T
    <2> QED BY <1>5 DEF Lowest
  <1> QED BY <1>4, <1>6

LEMMA OpenIs == Open = {n \in Numbers : files[n] # "free"}
  BY DEF Open, FreeNumbers

LEMMA CaptureStart == CaptureInit(Programs) => CaptureInv
  <1> SUFFICES ASSUME CaptureInit(Programs) PROVE CaptureInv
    OBVIOUS
  <1>1. CaptureTypes
    <2>1. CallTypes
      BY CaptureAssumption DEF CaptureInit, CallTypes
    <2>2. FileTypes /\ FlagTypes
      BY DEF CaptureInit, FileTypes, FlagTypes
    <2>3. MemoryTypes
      BY FS_EmptySet DEF CaptureInit, MemoryTypes
    <2> QED BY <2>1, <2>2, <2>3 DEF CaptureTypes
  <1>2. Busy = {} /\ Open = {}
    BY OpenIs DEF Busy, CaptureInit
  <1>3. SoleInv /\ WorkInv /\ RuinInv
    BY <1>2 DEF CaptureInit, SoleInv, WorkInv, RuinInv
  <1>4. BalanceInv
    BY <1>2 DEF CaptureInit, BalanceInv, NothingElse
  <1> QED BY <1>1, <1>3, <1>4 DEF CaptureInv

(* One caller inside: who it is, and who is inside after it went on.       *)
LEMMA Alone ==
  ASSUME CaptureInv, NEW t \in Callers, cpc[t] \notin {"idle", "ended"}, ~overlap
  PROVE  Busy = {t}
  BY DEF CaptureInv, SoleInv, Busy

LEMMA Going ==
  ASSUME CaptureTypes, NEW t \in Callers, NEW q, Goto(t, q)
  PROVE  /\ Busy' = (Busy \ {t}) \cup (IF q \notin {"idle", "ended"} THEN {t} ELSE {})
         /\ cpc'[t] = q /\ \A u \in Callers \ {t} : cpc'[u] = cpc[u]
  BY DEF CaptureTypes, CallTypes, Goto, Busy

LEMMA GoingTypes ==
  ASSUME CaptureTypes, NEW t \in Callers,
         NEW q \in {"idle", "screen", "map", "init", "select", "read", "uninit", "close",
                    "close2", "ended"},
         Goto(t, q)
  PROVE  cpc' \in [Callers -> {"idle", "screen", "map", "init", "select", "read", "uninit",
                               "close", "close2", "ended"}]
  BY DEF CaptureTypes, CallTypes, Goto

(* The descriptors after one was opened or closed.                         *)
LEMMA OpenAfter ==
  ASSUME CaptureTypes, NEW n \in FreeNumbers, NEW kind \in {"camera", "screen"},
         files' = [files EXCEPT ![n] = kind]
  PROVE  /\ Open' = Open \cup {n} /\ n \notin Open /\ files'[n] = kind
         /\ \A m \in Open : files'[m] = files[m]
         /\ files' \in [Numbers -> {"free", "camera", "screen"}]
  BY DEF CaptureTypes, FileTypes, Open, FreeNumbers

LEMMA ClosedAfter ==
  ASSUME CaptureTypes, NEW k, files' = [n \in Numbers |-> IF n = k THEN "free" ELSE files[n]]
  PROVE  /\ Open' = Open \ {k} /\ \A m \in Open' : files'[m] = files[m]
         /\ files' \in [Numbers -> {"free", "camera", "screen"}]
  BY DEF CaptureTypes, FileTypes, Open, FreeNumbers

LEMMA OpenCameraKeeps ==
  ASSUME CaptureInv, NEW t \in Callers, OpenCamera(t)
  PROVE  CaptureInv'
  <1> USE DEF CaptureInv
  <1>1. PICK n \in Numbers \cup {0} :
           /\ Opened("camera", n) /\ fd' = n
           /\ IF n = 0 THEN ReturnEarly(t) ELSE Goto(t, "screen") /\ UNCHANGED <<died, early>>
    BY DEF OpenCamera
  <1>2. /\ At(t, "idle") /\ asked[t] < Calls /\ asked' = [asked EXCEPT ![t] = @ + 1]
        /\ overlap' = (overlap \/ ~Idle)
        /\ UNCHANGED <<prog, left, fbfd, fbp, buffers, maps, heap, ready, hit>>
    BY DEF OpenCamera
  <1>3. \/ n = 0 /\ files' = files
        \/ n \in FreeNumbers /\ n # 0 /\ files' = [files EXCEPT ![n] = "camera"]
    BY <1>1, OpenedFacts
  <1>4. files' \in [Numbers -> {"free", "camera", "screen"}]
    BY <1>3, OpenAfter DEF CaptureTypes, FileTypes
  <1>5. died = "no" /\ cpc[t] = "idle"
    BY <1>2 DEF At
  <1>6. ~overlap' => ~overlap /\ Busy = {}
    BY <1>2 DEF Idle, Busy
  <1>9. asked' \in [Callers -> 0..Calls]
    <2>1. asked[t] \in 0..Calls /\ asked[t] < Calls /\ Calls \in Nat
      BY <1>2, CaptureAssumption DEF CaptureTypes, CallTypes
    <2>2. asked[t] + 1 \in 0..Calls
      BY <2>1
    <2> QED BY <1>2, <2>2 DEF CaptureTypes, CallTypes
  <1>10. FileTypes' /\ MemoryTypes'
    BY <1>1, <1>2, <1>4 DEF CaptureTypes, FileTypes, MemoryTypes
  <1>7. CASE n = 0
    <2>1. \/ Goto(t, "idle") /\ died' = died
          \/ died' = "exit" /\ cpc' = cpc
      BY <1>1, <1>7 DEF ReturnEarly, Exit
    <2>2. early' = TRUE
      BY <1>1, <1>7 DEF ReturnEarly
    <2>3. cpc' = cpc
      BY <1>5, <2>1 DEF Goto, CaptureTypes, CallTypes
    <2>4. CaptureTypes'
      <3>1. CallTypes'
        BY <1>2, <1>9, <2>1, <2>3 DEF CaptureTypes, CallTypes
      <3>2. FlagTypes'
        BY <1>2, <2>2 DEF CaptureTypes, FlagTypes
      <3> QED BY <1>10, <3>1, <3>2 DEF CaptureTypes
    <2>5. Busy' = Busy
      BY <2>3 DEF Busy
    <2> QED BY <1>2, <1>5, <1>6, <2>1, <2>2, <2>4, <2>5 DEF SoleInv, WorkInv, BalanceInv, RuinInv
  <1>8. CASE n # 0
    <2>1. Goto(t, "screen") /\ died' = died /\ early' = early
      BY <1>1, <1>8
    <2>2. cpc' \in [Callers -> {"idle", "screen", "map", "init", "select", "read", "uninit",
                                "close", "close2", "ended"}]
      BY <2>1, GoingTypes
    <2>3. cpc'[t] = "screen" /\ \A u \in Callers \ {t} : cpc'[u] = cpc[u]
      BY <2>1, Going
    <2>4. CaptureTypes'
      <3>1. CallTypes'
        BY <1>2, <1>9, <2>1, <2>2, <2>3 DEF CaptureTypes, CallTypes
      <3>2. FlagTypes'
        BY <1>2, <2>1 DEF CaptureTypes, FlagTypes
      <3> QED BY <1>10, <3>1, <3>2 DEF CaptureTypes
    <2>5. ~overlap' => Busy' = {t}
      BY <1>6, <2>1, Going
    <2>6. Open' = Open \cup {n} /\ files'[n] = "camera" /\ n \in Numbers
      BY <1>3, <1>8, OpenAfter DEF FreeNumbers
    <2>7. SoleInv' /\ RuinInv'
      BY <1>2, <1>5, <2>1, <2>5 DEF SoleInv, RuinInv
    <2>8. WorkInv'
      <3>1. Is(fd, "camera")'
        BY <1>1, <2>6 DEF Is
      <3> QED BY <2>3, <2>5, <3>1 DEF WorkInv
    <2>9. BalanceInv'
      <3> SUFFICES ASSUME ~overlap', ~early', died' = "no"
                   PROVE  (Busy = {} => NothingElse("idle"))' /\ \A u \in Busy' : NothingElse(cpc[u])'
        BY DEF BalanceInv
      <3>1. Open = {} /\ maps = {} /\ heap = {}
        BY <1>5, <1>6, <2>1 DEF BalanceInv, NothingElse
      <3>2. Open' = {fd'} /\ maps' = {} /\ heap' = {}
        BY <1>1, <1>2, <2>6, <3>1
      <3> QED BY <2>3, <2>5, <3>2 DEF NothingElse
    <2> QED BY <2>4, <2>7, <2>8, <2>9
  <1> QED BY <1>7, <1>8

(* A call that returns early, or a program that ends early.                *)
LEMMA EarlyFacts ==
  ASSUME CaptureInv, NEW t \in Callers, cpc[t] \notin {"idle", "ended", "select", "read"},
         died = "no", ReturnEarly(t), UNCHANGED <<prog, left, asked, overlap, hit>>
  PROVE  /\ CallTypes' /\ SoleInv' /\ BalanceInv' /\ RuinInv' /\ early' = TRUE
         /\ ~overlap' => Busy' = {} \/ (Busy' = {t} /\ cpc' = cpc)
  <1> USE DEF CaptureInv
  <1>1. early' = TRUE /\ ((Goto(t, "idle") /\ died' = died) \/ (died' = "exit" /\ cpc' = cpc))
    BY DEF ReturnEarly, Exit
  <1>2. ~overlap => Busy = {t}
    BY Alone
  <1>3. CASE Goto(t, "idle") /\ died' = died
    <2>1. /\ Busy' = Busy \ {t} /\ cpc'[t] = "idle" /\ \A u \in Callers \ {t} : cpc'[u] = cpc[u]
      BY <1>3, Going DEF CaptureTypes
    <2>2. CallTypes'
      BY <1>3, <2>1, GoingTypes DEF CaptureTypes, CallTypes
    <2> QED BY <1>1, <1>2, <1>3, <2>1, <2>2 DEF SoleInv, BalanceInv, RuinInv
  <1>4. CASE died' = "exit" /\ cpc' = cpc
    <2>1. Busy' = Busy
      BY <1>4 DEF Busy
    <2>2. CallTypes'
      BY <1>4 DEF CaptureTypes, CallTypes
    <2> QED BY <1>1, <1>2, <1>4, <2>1, <2>2 DEF SoleInv, BalanceInv, RuinInv
  <1> QED BY <1>1, <1>3, <1>4

(* A caller that goes on inside.                                           *)
LEMMA GoingOn ==
  ASSUME CaptureInv, NEW t \in Callers, cpc[t] \notin {"idle", "ended"},
         NEW q \in {"screen", "map", "init", "select", "read", "uninit", "close", "close2"},
         Goto(t, q), UNCHANGED <<prog, asked, overlap, died>>,
         left' \in [Callers -> 0..Many], left'[t] >= 1 \/ q \notin {"select", "read"},
         \A u \in Callers \ {t} : left'[u] = left[u], hit => hit'
  PROVE  /\ CallTypes' /\ SoleInv' /\ RuinInv' /\ cpc'[t] = q
         /\ ~overlap' => ~overlap /\ t \in Busy /\ Busy' = {t}
  <1> USE DEF CaptureInv
  <1>1. /\ Busy' = Busy \cup {t} /\ cpc'[t] = q /\ \A u \in Callers \ {t} : cpc'[u] = cpc[u]
        /\ t \in Busy
    <2>1. t \in Busy
      BY DEF Busy
    <2> QED BY <2>1, Going
  <1>2. cpc' \in [Callers -> {"idle", "screen", "map", "init", "select", "read", "uninit",
                              "close", "close2", "ended"}]
    BY GoingTypes
  <1>3. \A u \in Callers : cpc'[u] \in {"select", "read"} => left'[u] >= 1
    BY <1>1 DEF CaptureTypes, CallTypes
  <1>4. CallTypes'
    BY <1>2, <1>3 DEF CaptureTypes, CallTypes
  <1>5. ~overlap => Busy = {t}
    BY Alone
  <1>6. SoleInv'
    BY <1>1, <1>5 DEF SoleInv
  <1>7. RuinInv'
    BY DEF RuinInv
  <1> QED BY <1>1, <1>4, <1>5, <1>6, <1>7

LEMMA OpenScreenKeeps ==
  ASSUME CaptureInv, NEW t \in Callers, OpenScreen(t)
  PROVE  CaptureInv'
  <1> USE DEF CaptureInv
  <1>1. PICK n \in Numbers \cup {0} :
           /\ Opened("screen", n) /\ fbfd' = n
           /\ IF n = 0 THEN ReturnEarly(t) ELSE Goto(t, "map") /\ UNCHANGED <<died, early>>
    BY DEF OpenScreen
  <1>2. /\ died = "no" /\ cpc[t] = "screen"
        /\ UNCHANGED <<prog, asked, overlap, left, fd, fbp, buffers, maps, heap, ready, hit>>
    BY DEF OpenScreen, At, Stay
  <1>3. \/ n = 0 /\ files' = files
        \/ n \in FreeNumbers /\ n # 0 /\ files' = [files EXCEPT ![n] = "screen"]
    BY <1>1, OpenedFacts
  <1>4. files' \in [Numbers -> {"free", "camera", "screen"}]
    BY <1>3, OpenAfter DEF CaptureTypes, FileTypes
  <1>5. FileTypes' /\ MemoryTypes'
    BY <1>1, <1>2, <1>4 DEF CaptureTypes, FileTypes, MemoryTypes
  <1>6. ~overlap => Is(fd, "camera") /\ Busy = {t}
    BY <1>2, Alone DEF WorkInv
  <1>7. CASE n = 0
    <2>1. ReturnEarly(t) /\ files' = files
      BY <1>1, <1>3, <1>7 DEF FreeNumbers
    <2>2. /\ CallTypes' /\ SoleInv' /\ BalanceInv' /\ RuinInv' /\ early' = TRUE
          /\ ~overlap' => Busy' = {} \/ (Busy' = {t} /\ cpc' = cpc)
      BY <1>2, <2>1, EarlyFacts
    <2>3. FlagTypes'
      BY <1>2, <2>2 DEF CaptureTypes, FlagTypes
    <2>4. ~overlap' => Is(fd, "camera")'
      BY <1>2, <1>6, <2>1 DEF Is, Open, FreeNumbers
    <2>5. WorkInv'
      BY <1>2, <2>2, <2>4 DEF WorkInv
    <2> QED BY <1>5, <2>2, <2>3, <2>5 DEF CaptureTypes
  <1>8. CASE n # 0
    <2>1. Goto(t, "map") /\ UNCHANGED <<died, early>>
      BY <1>1, <1>8
    <2>2. /\ CallTypes' /\ SoleInv' /\ RuinInv' /\ cpc'[t] = "map"
          /\ ~overlap' => ~overlap /\ t \in Busy /\ Busy' = {t}
      BY <1>2, <2>1, GoingOn DEF CaptureTypes, CallTypes
    <2>3. FlagTypes'
      BY <1>2, <2>1 DEF CaptureTypes, FlagTypes
    <2>4. /\ Open' = Open \cup {n} /\ files'[n] = "screen" /\ \A m \in Open : files'[m] = files[m]
          /\ n \in Numbers
      BY <1>3, <1>8, OpenAfter DEF FreeNumbers
    <2>5. WorkInv'
      <3>1. ~overlap' => Is(fd, "camera")' /\ Is(fbfd, "screen")'
        BY <1>1, <1>2, <1>6, <2>4 DEF Is
      <3> QED BY <2>2, <3>1 DEF WorkInv
    <2>6. BalanceInv'
      <3> SUFFICES ASSUME ~overlap', ~early', died' = "no" PROVE NothingElse(cpc[t])'
        BY <2>2 DEF BalanceInv
      <3>1. NothingElse("screen")
        BY <1>2, <2>1, <2>2 DEF BalanceInv
      <3> QED BY <1>1, <1>2, <2>2, <2>4, <3>1 DEF NothingElse
    <2> QED BY <1>5, <2>2, <2>3, <2>5, <2>6 DEF CaptureTypes
  <1> QED BY <1>7, <1>8

(* A process that ends keeps what it has to the end.                       *)
LEMMA EndKeeps ==
  ASSUME CaptureInv, died' \in {"exit", "timeout", "again", "memory"},
         died' = "memory" => overlap, died' = "again" => hit \/ overlap,
         ready' \in BOOLEAN,
         UNCHANGED <<prog, cpc, left, asked, fd, fbfd, fbp, buffers, files, maps, heap,
                     overlap, hit, early>>
  PROVE  CaptureInv'
  <1> USE DEF CaptureInv
  <1>1. Busy' = Busy /\ Open' = Open
    BY DEF Busy, Open, FreeNumbers
  <1>2. CallTypes'
    BY DEF CaptureTypes, CallTypes
  <1>3. FileTypes' /\ MemoryTypes' /\ FlagTypes'
    BY DEF CaptureTypes, FileTypes, MemoryTypes, FlagTypes
  <1>4. SoleInv' /\ RuinInv' /\ BalanceInv'
    BY <1>1 DEF SoleInv, RuinInv, BalanceInv
  <1>5. WorkInv'
    BY <1>1 DEF WorkInv, Is
  <1> QED BY <1>2, <1>3, <1>4, <1>5 DEF CaptureTypes

LEMMA MapScreenKeeps ==
  ASSUME CaptureInv, NEW t \in Callers, MapScreen(t)
  PROVE  CaptureInv'
  <1> USE DEF CaptureInv
  <1>1. /\ died = "no" /\ cpc[t] = "map"
        /\ UNCHANGED <<prog, asked, overlap, left, fd, fbfd, buffers, files, heap, ready, hit>>
    BY DEF MapScreen, At, Stay
  <1>2. Open' = Open /\ (~overlap => Is(fd, "camera") /\ Is(fbfd, "screen") /\ Busy = {t})
    BY <1>1, Alone DEF WorkInv, Open, FreeNumbers
  <1>3. ~overlap' => Is(fd, "camera")' /\ Is(fbfd, "screen")'
    BY <1>1, <1>2 DEF Is
  <1>4. FileTypes'
    BY <1>1 DEF CaptureTypes, FileTypes
  <1>5. CASE Exit("exit") /\ UNCHANGED <<cpc, fbp, maps, early>>
    BY <1>1, <1>5, EndKeeps DEF Exit, CaptureTypes, FlagTypes
  <1>6. CASE prog.mapped /\ fbp' = 0 /\ ReturnEarly(t) /\ UNCHANGED maps
    <2>1. /\ CallTypes' /\ SoleInv' /\ BalanceInv' /\ RuinInv' /\ early' = TRUE
          /\ ~overlap' => Busy' = {} \/ (Busy' = {t} /\ cpc' = cpc)
      BY <1>1, <1>6, EarlyFacts
    <2>2. MemoryTypes' /\ FlagTypes'
      BY <1>1, <1>6, <2>1 DEF CaptureTypes, MemoryTypes, FlagTypes
    <2>3. WorkInv'
      BY <1>1, <1>3, <2>1 DEF WorkInv
    <2> QED BY <1>4, <2>1, <2>2, <2>3 DEF CaptureTypes
  <1>7. CASE \/ ~prog.mapped /\ Goto(t, "init") /\ UNCHANGED <<died, fbp, maps, early>>
             \/ /\ prog.mapped /\ fbp' = Lowest(1..(Cardinality(maps) + 1) \ maps)
                /\ maps' = maps \cup {fbp'} /\ Goto(t, "init") /\ UNCHANGED <<died, early>>
    <2>1. Goto(t, "init") /\ UNCHANGED <<died, early>>
      BY <1>7
    <2>2. /\ CallTypes' /\ SoleInv' /\ RuinInv' /\ cpc'[t] = "init"
          /\ ~overlap' => ~overlap /\ t \in Busy /\ Busy' = {t}
      BY <1>1, <2>1, GoingOn DEF CaptureTypes, CallTypes
    <2>3. FlagTypes'
      BY <1>1, <2>1 DEF CaptureTypes, FlagTypes
    <2>4. MemoryTypes'
      <3>1. CASE fbp' = fbp /\ maps' = maps
        BY <1>1, <3>1 DEF CaptureTypes, MemoryTypes
      <3>2. CASE fbp' = Lowest(1..(Cardinality(maps) + 1) \ maps) /\ maps' = maps \cup {fbp'}
        <4>1. fbp' \in Nat \ maps
          BY <3>2, LowestNew DEF CaptureTypes, MemoryTypes
        <4>2. IsFiniteSet(maps \cup {fbp'})
          BY FS_AddElement DEF CaptureTypes, MemoryTypes
        <4> QED BY <1>1, <3>2, <4>1, <4>2 DEF CaptureTypes, MemoryTypes
      <3> QED BY <1>7, <3>1, <3>2
    <2>5. maps' = maps \/ maps' = maps \cup {fbp'}
      BY <1>7
    <2>6. prog.mapped => fbp' \in maps' /\ maps' = maps \cup {fbp'}
      BY <1>7
    <2>7. ~prog.mapped => maps' = maps
      BY <1>7
    <2>8. WorkInv'
      BY <1>1, <1>3, <2>2, <2>6 DEF WorkInv
    <2>9. BalanceInv'
      <3> SUFFICES ASSUME ~overlap', ~early', died' = "no" PROVE NothingElse(cpc[t])'
        BY <2>2 DEF BalanceInv
      <3>1. NothingElse("map")
        BY <1>1, <2>1, <2>2 DEF BalanceInv
      <3> QED BY <1>1, <1>2, <2>2, <2>6, <2>7, <3>1 DEF NothingElse
    <2> QED BY <1>4, <2>2, <2>3, <2>4, <2>8, <2>9 DEF CaptureTypes
  <1> QED BY <1>5, <1>6, <1>7 DEF MapScreen

LEMMA InitDeviceKeeps ==
  ASSUME CaptureInv, NEW t \in Callers, InitDevice(t)
  PROVE  CaptureInv'
  <1> USE DEF CaptureInv
  <1>1. /\ died = "no" /\ cpc[t] = "init"
        /\ UNCHANGED <<prog, asked, overlap, fd, fbfd, fbp, files, maps, ready, hit, early>>
    BY DEF InitDevice, At, Stay
  <1>2. CASE Exit("exit") /\ UNCHANGED <<cpc, left, buffers, heap>>
    BY <1>1, <1>2, EndKeeps DEF Exit, CaptureTypes, FlagTypes
  <1>3. CASE /\ buffers' = Lowest(1..(Cardinality(heap) + 1) \ heap)
             /\ heap' = heap \cup {buffers'}
             /\ left' = [left EXCEPT ![t] = prog.frames]
             /\ Goto(t, "select") /\ UNCHANGED died
    <2>1. left' \in [Callers -> 0..Many] /\ left'[t] >= 1 /\ \A u \in Callers \ {t} : left'[u] = left[u]
      BY <1>3, ProgramFacts DEF CaptureTypes, CallTypes
    <2>2. /\ CallTypes' /\ SoleInv' /\ RuinInv' /\ cpc'[t] = "select"
          /\ ~overlap' => ~overlap /\ t \in Busy /\ Busy' = {t}
      BY <1>1, <1>3, <2>1, GoingOn
    <2>3. FileTypes' /\ FlagTypes'
      BY <1>1 DEF CaptureTypes, FileTypes, FlagTypes
    <2>4. MemoryTypes'
      <3>1. buffers' \in Nat \ heap
        BY <1>3, LowestNew DEF CaptureTypes, MemoryTypes
      <3>2. IsFiniteSet(heap \cup {buffers'})
        BY FS_AddElement DEF CaptureTypes, MemoryTypes
      <3> QED BY <1>1, <1>3, <3>1, <3>2 DEF CaptureTypes, MemoryTypes
    <2>5. Open' = Open
      BY <1>1 DEF Open, FreeNumbers
    <2>6. WorkInv'
      <3> SUFFICES ASSUME ~overlap'
                   PROVE  /\ Is(fd, "camera")' /\ Is(fbfd, "screen")'
                          /\ (prog.mapped => fbp \in maps)' /\ buffers' \in heap'
        BY <2>2 DEF WorkInv
      <3>1. Is(fd, "camera") /\ Is(fbfd, "screen") /\ (prog.mapped => fbp \in maps)
        BY <1>1, <2>2 DEF WorkInv
      <3> QED BY <1>1, <1>3, <2>5, <3>1 DEF Is
    <2>7. BalanceInv'
      <3> SUFFICES ASSUME ~overlap', ~early', died' = "no" PROVE NothingElse(cpc[t])'
        BY <2>2 DEF BalanceInv
      <3>1. NothingElse("init")
        BY <1>1, <2>2 DEF BalanceInv
      <3> QED BY <1>1, <1>3, <2>2, <2>5, <3>1 DEF NothingElse
    <2> QED BY <2>2, <2>3, <2>4, <2>6, <2>7 DEF CaptureTypes
  <1> QED BY <1>2, <1>3 DEF InitDevice

LEMMA SelectKeeps ==
  ASSUME CaptureInv, NEW t \in Callers, Select(t)
  PROVE  CaptureInv'
  <1> USE DEF CaptureInv
  <1>1. /\ died = "no" /\ cpc[t] = "select"
        /\ UNCHANGED <<prog, asked, overlap, left, fd, fbfd, fbp, buffers, files, maps, heap, ready, early>>
    BY DEF Select, At, Stay
  <1>2. CASE died' \in {"timeout", "exit"} /\ UNCHANGED <<cpc, hit>>
    BY <1>1, <1>2, EndKeeps DEF CaptureTypes, FlagTypes
  <1>3. CASE /\ Goto(t, "read") /\ died' = died /\ hit' \in BOOLEAN /\ (hit => hit')
             /\ ready \/ Is(fd, "screen") \/ hit'
    <2>1. left[t] >= 1 /\ left \in [Callers -> 0..Many]
      BY <1>1 DEF CaptureTypes, CallTypes
    <2>2. /\ CallTypes' /\ SoleInv' /\ RuinInv' /\ cpc'[t] = "read"
          /\ ~overlap' => ~overlap /\ t \in Busy /\ Busy' = {t}
      BY <1>1, <1>3, <2>1, GoingOn
    <2>3. FileTypes' /\ MemoryTypes' /\ FlagTypes'
      BY <1>1, <1>3 DEF CaptureTypes, FileTypes, MemoryTypes, FlagTypes
    <2>4. Open' = Open
      BY <1>1 DEF Open, FreeNumbers
    <2>5. WorkInv'
      <3> SUFFICES ASSUME ~overlap'
                   PROVE  /\ Is(fd, "camera")' /\ Is(fbfd, "screen")'
                          /\ (prog.mapped => fbp \in maps)' /\ buffers' \in heap'
                          /\ ~hit' => ready'
        BY <2>2 DEF WorkInv
      <3>1. Is(fd, "camera") /\ Is(fbfd, "screen") /\ (prog.mapped => fbp \in maps) /\ buffers \in heap
        BY <1>1, <2>2 DEF WorkInv
      <3>2. ~Is(fd, "screen")
        BY <3>1 DEF Is
      <3> QED BY <1>1, <1>3, <2>4, <3>1, <3>2 DEF Is
    <2>6. BalanceInv'
      <3> SUFFICES ASSUME ~overlap', ~early', died' = "no" PROVE NothingElse(cpc[t])'
        BY <2>2 DEF BalanceInv
      <3>1. NothingElse("select")
        BY <1>1, <2>2 DEF BalanceInv
      <3> QED BY <1>1, <2>2, <2>4, <3>1 DEF NothingElse
    <2> QED BY <2>2, <2>3, <2>5, <2>6 DEF CaptureTypes
  <1>4. hit \in BOOLEAN
    BY DEF CaptureTypes, FlagTypes
  <1>5. \/ died' \in {"timeout", "exit"} /\ UNCHANGED <<cpc, hit>>
        \/ /\ Goto(t, "read") /\ died' = died
           /\ \/ hit' = hit /\ (ready \/ Is(fd, "screen"))
              \/ hit' = TRUE
    BY DEF Select, Exit
  <1> QED BY <1>2, <1>3, <1>4, <1>5

LEMMA ReadFrameKeeps ==
  ASSUME CaptureInv, NEW t \in Callers, ReadFrame(t)
  PROVE  CaptureInv'
  <1> USE DEF CaptureInv
  <1> DEFINE sound == buffers \in heap /\ (prog.mapped => fbp \in maps)
  <1>1. /\ died = "no" /\ cpc[t] = "read"
        /\ UNCHANGED <<prog, asked, overlap, fd, fbfd, fbp, buffers, files, maps, heap, hit, early>>
    BY DEF ReadFrame, At, Stay
  <1>2. ready \in BOOLEAN /\ ready' \in BOOLEAN
    BY DEF ReadFrame, CaptureTypes, FlagTypes
  <1>3. t \in Busy
    BY <1>1 DEF Busy
  <1>4. ~overlap => sound /\ (~hit => ready)
    BY <1>1, <1>3 DEF WorkInv
  <1>5. CASE died' # "no"
    <2>1. UNCHANGED <<cpc, left>> /\ died' \in {"exit", "memory", "again"}
      BY <1>1, <1>5 DEF ReadFrame, Exit
    <2>2. died' = "memory" => ~sound
      BY <1>1 DEF ReadFrame, Exit
    <2>3. died' = "again" => ~ready
      BY <1>1 DEF ReadFrame, Exit
    <2> QED BY <1>1, <1>2, <1>4, <2>1, <2>2, <2>3, EndKeeps
  <1>6. CASE died' = "no"
    <2>1. /\ left' = [left EXCEPT ![t] = @ - 1]
          /\ Goto(t, IF left[t] > 1 THEN "select" ELSE "uninit")
      BY <1>1, <1>6 DEF ReadFrame, Exit
    <2> DEFINE q == IF left[t] > 1 THEN "select" ELSE "uninit"
    <2>2. left[t] >= 1 /\ left[t] \in 0..Many /\ Many \in Nat
      BY <1>1, CaptureAssumption DEF CaptureTypes, CallTypes
    <2>3. left[t] - 1 \in 0..Many /\ (left[t] - 1 >= 1 \/ q = "uninit")
      BY <2>2
    <2>4. /\ left' \in [Callers -> 0..Many] /\ left'[t] = left[t] - 1
          /\ \A u \in Callers \ {t} : left'[u] = left[u]
      BY <2>1, <2>3 DEF CaptureTypes, CallTypes
    <2>5. q \in {"select", "uninit"}
      OBVIOUS
    <2> HIDE DEF q
    <2>6. /\ CallTypes' /\ SoleInv' /\ RuinInv' /\ cpc'[t] = q
          /\ ~overlap' => ~overlap /\ t \in Busy /\ Busy' = {t}
      BY <1>1, <1>6, <2>1, <2>3, <2>4, <2>5, GoingOn DEF q
    <2>7. FileTypes' /\ MemoryTypes' /\ FlagTypes'
      BY <1>1, <1>2 DEF CaptureTypes, FileTypes, MemoryTypes, FlagTypes
    <2>8. Open' = Open
      BY <1>1 DEF Open, FreeNumbers
    <2>9. WorkInv'
      <3> SUFFICES ASSUME ~overlap'
                   PROVE  /\ Is(fd, "camera")' /\ Is(fbfd, "screen")'
                          /\ (prog.mapped => fbp \in maps)' /\ buffers' \in heap'
        BY <2>5, <2>6 DEF WorkInv
      <3>1. Is(fd, "camera") /\ Is(fbfd, "screen") /\ (prog.mapped => fbp \in maps) /\ buffers \in heap
        BY <1>1, <2>6 DEF WorkInv
      <3> QED BY <1>1, <2>8, <3>1 DEF Is
    <2>10. BalanceInv'
      <3> SUFFICES ASSUME ~overlap', ~early', died' = "no" PROVE NothingElse(cpc[t])'
        BY <2>6 DEF BalanceInv
      <3>1. NothingElse("read")
        BY <1>1, <2>6 DEF BalanceInv
      <3> QED BY <1>1, <2>5, <2>6, <2>8, <3>1 DEF NothingElse
    <2> QED BY <2>6, <2>7, <2>9, <2>10 DEF CaptureTypes
  <1> QED BY <1>5, <1>6

LEMMA UninitDeviceKeeps ==
  ASSUME CaptureInv, NEW t \in Callers, UninitDevice(t)
  PROVE  CaptureInv'
  <1> USE DEF CaptureInv
  <1>1. /\ died = "no" /\ cpc[t] = "uninit"
        /\ UNCHANGED <<prog, asked, overlap, left, fd, fbfd, fbp, buffers, files, ready, hit, early>>
    BY DEF UninitDevice, At, Stay
  <1>2. CASE buffers \notin heap
    <2>1. died' = "memory" /\ UNCHANGED <<cpc, heap, maps>>
      BY <1>2 DEF UninitDevice, Exit
    <2>2. overlap
      BY <1>1, <1>2 DEF WorkInv, Busy
    <2> QED BY <1>1, <2>1, <2>2, EndKeeps DEF CaptureTypes, FlagTypes
  <1>3. CASE buffers \in heap
    <2>1. heap' = heap \ {buffers} /\ maps' = maps \ {fbp} /\ Goto(t, "close") /\ UNCHANGED died
      BY <1>3 DEF UninitDevice
    <2>2. /\ CallTypes' /\ SoleInv' /\ RuinInv' /\ cpc'[t] = "close"
          /\ ~overlap' => ~overlap /\ t \in Busy /\ Busy' = {t}
      BY <1>1, <2>1, GoingOn DEF CaptureTypes, CallTypes
    <2>3. FileTypes' /\ FlagTypes'
      BY <1>1 DEF CaptureTypes, FileTypes, FlagTypes
    <2>4. MemoryTypes'
      <3>1. IsFiniteSet(heap \ {buffers}) /\ IsFiniteSet(maps \ {fbp})
        BY FS_RemoveElement DEF CaptureTypes, MemoryTypes
      <3> QED BY <1>1, <2>1, <3>1 DEF CaptureTypes, MemoryTypes
    <2>5. Open' = Open
      BY <1>1 DEF Open, FreeNumbers
    <2>6. WorkInv'
      <3> SUFFICES ASSUME ~overlap' PROVE Is(fd, "camera")' /\ Is(fbfd, "screen")'
        BY <2>2 DEF WorkInv
      <3>1. Is(fd, "camera") /\ Is(fbfd, "screen")
        BY <1>1, <2>2 DEF WorkInv
      <3> QED BY <1>1, <2>5, <3>1 DEF Is
    <2>7. BalanceInv'
      <3> SUFFICES ASSUME ~overlap', ~early', died' = "no" PROVE NothingElse(cpc[t])'
        BY <2>2 DEF BalanceInv
      <3>1. NothingElse("uninit")
        BY <1>1, <2>1, <2>2 DEF BalanceInv
      <3> QED BY <1>1, <2>1, <2>2, <2>5, <3>1 DEF NothingElse
    <2> QED BY <2>2, <2>3, <2>4, <2>6, <2>7 DEF CaptureTypes
  <1> QED BY <1>2, <1>3

LEMMA CloseScreenKeeps ==
  ASSUME CaptureInv, NEW t \in Callers, CloseScreen(t)
  PROVE  CaptureInv'
  <1> USE DEF CaptureInv
  <1>1. /\ died = "no" /\ cpc[t] = "close" /\ Goto(t, "close2")
        /\ files' = [n \in Numbers |-> IF n = fbfd THEN "free" ELSE files[n]]
        /\ UNCHANGED <<prog, asked, overlap, left, fd, fbfd, fbp, buffers, maps, heap, ready, died, hit, early>>
    BY DEF CloseScreen, At, Stay
  <1>2. /\ CallTypes' /\ SoleInv' /\ RuinInv' /\ cpc'[t] = "close2"
        /\ ~overlap' => ~overlap /\ t \in Busy /\ Busy' = {t}
    BY <1>1, GoingOn DEF CaptureTypes, CallTypes
  <1>3. /\ Open' = Open \ {fbfd} /\ \A m \in Open' : files'[m] = files[m]
        /\ files' \in [Numbers -> {"free", "camera", "screen"}]
    BY <1>1, ClosedAfter
  <1>4. FileTypes' /\ MemoryTypes' /\ FlagTypes'
    BY <1>1, <1>3 DEF CaptureTypes, FileTypes, MemoryTypes, FlagTypes
  <1>5. WorkInv'
    <2> SUFFICES ASSUME ~overlap' PROVE Is(fd, "camera")'
      BY <1>2 DEF WorkInv
    <2>1. Is(fd, "camera") /\ Is(fbfd, "screen")
      BY <1>1, <1>2 DEF WorkInv
    <2>2. fd # fbfd
      BY <2>1 DEF Is
    <2> QED BY <1>1, <1>3, <2>1, <2>2 DEF Is
  <1>6. BalanceInv'
    <2> SUFFICES ASSUME ~overlap', ~early', died' = "no" PROVE NothingElse(cpc[t])'
      BY <1>2 DEF BalanceInv
    <2>1. NothingElse("close")
      BY <1>1, <1>2 DEF BalanceInv
    <2> QED BY <1>1, <1>2, <1>3, <2>1 DEF NothingElse
  <1> QED BY <1>2, <1>4, <1>5, <1>6 DEF CaptureTypes

LEMMA CloseCameraKeeps ==
  ASSUME CaptureInv, NEW t \in Callers, CloseCamera(t)
  PROVE  CaptureInv'
  <1> USE DEF CaptureInv
  <1> DEFINE q == IF prog.library THEN "idle" ELSE "ended"
  <1>1. /\ died = "no" /\ cpc[t] = "close2" /\ Goto(t, q)
        /\ files' = [n \in Numbers |-> IF n = fd THEN "free" ELSE files[n]]
        /\ UNCHANGED <<prog, asked, overlap, left, fd, fbfd, fbp, buffers, maps, heap, ready, died, hit, early>>
    BY DEF CloseCamera, At, Stay
  <1>2. q \in {"idle", "ended"}
    OBVIOUS
  <1> HIDE DEF q
  <1>3. Busy' = Busy \ {t} /\ cpc'[t] = q /\ \A u \in Callers \ {t} : cpc'[u] = cpc[u]
    BY <1>1, <1>2, Going
  <1>4. CallTypes'
    BY <1>1, <1>2, <1>3, GoingTypes DEF CaptureTypes, CallTypes
  <1>5. /\ Open' = Open \ {fd} /\ files' \in [Numbers -> {"free", "camera", "screen"}]
    BY <1>1, ClosedAfter
  <1>6. FileTypes' /\ MemoryTypes' /\ FlagTypes'
    BY <1>1, <1>5 DEF CaptureTypes, FileTypes, MemoryTypes, FlagTypes
  <1>7. ~overlap' => Busy = {t} /\ Busy' = {}
    BY <1>1, <1>3, Alone
  <1>8. SoleInv' /\ WorkInv' /\ RuinInv'
    BY <1>1, <1>7 DEF SoleInv, WorkInv, RuinInv
  <1>9. BalanceInv'
    <2> SUFFICES ASSUME ~overlap', ~early', died' = "no" PROVE NothingElse("idle")'
      BY <1>7 DEF BalanceInv
    <2>1. NothingElse("close2")
      BY <1>1, <1>7 DEF BalanceInv
    <2> QED BY <1>1, <1>5, <2>1 DEF NothingElse
  <1> QED BY <1>4, <1>6, <1>8, <1>9 DEF CaptureTypes

LEMMA DeliverKeeps ==
  ASSUME CaptureInv, Deliver
  PROVE  CaptureInv'
  <1> USE DEF CaptureInv, Deliver
  <1>1. Busy' = Busy /\ Open' = Open
    BY DEF Busy, Open, FreeNumbers
  <1>2. CallTypes'
    BY DEF CaptureTypes, CallTypes
  <1>3. FileTypes' /\ MemoryTypes' /\ FlagTypes'
    BY DEF CaptureTypes, FileTypes, MemoryTypes, FlagTypes
  <1>4. SoleInv' /\ RuinInv'
    BY <1>1 DEF SoleInv, RuinInv
  <1>5. WorkInv'
    BY <1>1 DEF WorkInv, Is
  <1>6. BalanceInv'
    BY <1>1 DEF BalanceInv, NothingElse
  <1> QED BY <1>2, <1>3, <1>4, <1>5, <1>6 DEF CaptureTypes

(* The camera's part of a step: one of its own, or the end of the process. *)
Ended ==
  /\ died = "no" /\ died' = "exit"
  /\ UNCHANGED <<prog, cpc, left, asked, fd, fbfd, fbp, buffers, files, maps, heap,
                 ready, overlap, hit, early>>

LEMMA CaptureStep == CaptureInv /\ [CaptureNext \/ Ended]_captureVars => CaptureInv'
  <1> SUFFICES ASSUME CaptureInv, [CaptureNext \/ Ended]_captureVars PROVE CaptureInv'
    OBVIOUS
  <1>1. CASE CaptureNext
    BY <1>1, DeliverKeeps, OpenCameraKeeps, OpenScreenKeeps, MapScreenKeeps, InitDeviceKeeps,
       SelectKeeps, ReadFrameKeeps, UninitDeviceKeeps, CloseScreenKeeps, CloseCameraKeeps
       DEF CaptureNext, Inside
  <1>2. CASE Ended
    BY <1>2, EndKeeps DEF Ended, CaptureInv, CaptureTypes, FlagTypes
  <1>3. CASE UNCHANGED captureVars
    <2>1. Busy' = Busy /\ Open' = Open
      BY <1>3 DEF captureVars, Busy, Open, FreeNumbers
    <2>2. CaptureTypes'
      BY <1>3 DEF captureVars, CaptureInv, CaptureTypes, CallTypes, FileTypes, MemoryTypes, FlagTypes
    <2>3. SoleInv' /\ RuinInv' /\ BalanceInv'
      BY <1>3, <2>1 DEF captureVars, CaptureInv, SoleInv, RuinInv, BalanceInv, NothingElse
    <2>4. WorkInv'
      BY <1>3, <2>1 DEF captureVars, CaptureInv, WorkInv, Is
    <2> QED BY <2>2, <2>3, <2>4 DEF CaptureInv
  <1> QED BY <1>1, <1>2, <1>3

-----------------------------------------------------------------------------
(* The composition: a step of the program is a step, or none, of each part. *)

LEMMA StepsOfParts ==
  ASSUME [Next]_vars
  PROVE  [DisplayNext]_displayVars /\ [CaptureNext \/ Ended]_captureVars
  <1> USE DEF captureVars, displayVars
  <1>1. CASE CameraAlone
    BY <1>1 DEF CameraAlone
  <1>2. CASE DisplayAlone
    BY <1>2 DEF DisplayAlone
  <1>3. CASE FrameComes
    BY <1>3 DEF FrameComes, CaptureNext
  <1>4. CASE Interrupted
    BY <1>4 DEF Interrupted, DisplayNext, Ended
  <1>5. ASSUME NEW t \in Callers, CameraStep(t)
        PROVE  [DisplayNext]_displayVars /\ [CaptureNext \/ Ended]_captureVars
    <2>1. CaptureNext
      BY <1>5 DEF CameraStep, CaptureNext, Inside
    <2>2. Killed \/ UNCHANGED displayVars
      BY <1>5 DEF CameraStep
    <2> QED BY <2>1, <2>2 DEF DisplayNext
  <1>6. ASSUME NEW t \in Callers, ScreenStep(t)
        PROVE  [DisplayNext]_displayVars /\ [CaptureNext \/ Ended]_captureVars
    <2>1. DisplayNext
      BY <1>6 DEF ScreenStep, DisplayNext, Frame
    <2>2. Ended \/ UNCHANGED captureVars
      BY <1>6 DEF ScreenStep, Ended
    <2> QED BY <2>1, <2>2
  <1>7. ASSUME NEW t \in Callers, FrameShown(t)
        PROVE  [DisplayNext]_displayVars /\ [CaptureNext \/ Ended]_captureVars
    BY <1>7 DEF FrameShown, DisplayNext, Frame, CaptureNext, Inside
  <1>8. CASE Convert \/ UNCHANGED vars
    BY <1>8 DEF Convert, vars
  <1> QED BY <1>1, <1>2, <1>3, <1>4, <1>5, <1>6, <1>7, <1>8 DEF Next, Together

LEMMA StartOfParts == Init => DisplayInit(Shows) /\ CaptureInit(Programs)
  BY ShowFacts, ProgramFacts DEF Init, DisplayInit, CaptureInit

LEMMA Invariance == Spec => [](DisplayInv /\ CaptureInv)
  <1>1. Init => DisplayInv /\ CaptureInv
    BY StartOfParts, DisplayStart, CaptureStart
  <1>2. DisplayInv /\ CaptureInv /\ [Next]_vars => (DisplayInv /\ CaptureInv)'
    BY StepsOfParts, DisplayStep, CaptureStep
  <1> QED BY <1>1, <1>2, PTL DEF Spec

-----------------------------------------------------------------------------
(* The program with the camera is one of the programs that show something: *)
(* whatever the camera's part does, and whenever it ends the process, the  *)
(* exchange of buffers goes its way.                                       *)
THEOREM ImplementsDisplay == Spec => DisplaySpec
  <1>1. Init => DisplayInit(Shows)
    BY StartOfParts
  <1>2. [Next]_vars => [DisplayNext]_displayVars
    BY StepsOfParts
  <1> QED BY <1>1, <1>2, PTL DEF Spec, DisplaySpec

(* The variables of the exchange keep their types; in particular a new     *)
(* frame buffer always finds a number.                                     *)
THEOREM DisplayTypeCorrect == Spec => []DisplayTypeOK
  <1>1. DisplayInv => DisplayTypeOK
    BY DEF DisplayInv, DisplayTypes, DisplayTypeOK, FrameBuffers
  <1> QED BY <1>1, Invariance, PTL

(* The variables of the camera's part keep their types.                    *)
THEOREM CaptureTypeCorrect == Spec => []CaptureTypeOK
  <1>1. CaptureInv => CaptureTypeOK
    <2> SUFFICES ASSUME CaptureInv PROVE CaptureTypeOK
      OBVIOUS
    <2>1. {ready, overlap, hit, early} \subseteq BOOLEAN
      BY DEF CaptureInv, CaptureTypes, FlagTypes
    <2> QED BY <2>1 DEF CaptureInv, CaptureTypes, CallTypes, FileTypes, MemoryTypes, CaptureTypeOK
  <1> QED BY <1>1, Invariance, PTL

(* For any surface of two buffers or more, what the display scans out is   *)
(* never a buffer that may be drawn into, the display goes dark only for a *)
(* reason, and eglSwapBuffers never finds the surface full.                *)
THEOREM ScannedOutCorrect == Spec => []ScannedOutIsKept
  <1>1. DisplayInv => ScannedOutIsKept
    <2> SUFFICES ASSUME DisplayInv PROVE ScannedOutIsKept
      OBVIOUS
    <2>1. FrameBuffers = Surface
      BY DEF DisplayInv, DisplayTypes, FrameBuffers
    <2>2. crtc \in FrameBuffers /\ ~failed => crtc \in Live /\ bo[fbs[crtc]] = "locked"
      BY <2>1 DEF DisplayInv, FrameInv
    <2>3. crtc = Off => failed \/ dpc = "died" \/ show.prev = "garbage"
      BY DEF DisplayInv, LightInv
    <2>4. dpc # "starved"
      BY DEF DisplayInv, DisplayTypes
    <2>5. Cardinality(Held) <= 2
      <3>1. PICK x, y \in Buffers : Held \subseteq {x, y}
        BY DEF DisplayInv, BufferInv
      <3>2. IsFiniteSet({x}) /\ Cardinality({x}) = 1
        BY FS_Singleton
      <3>3. IsFiniteSet({x} \cup {y}) /\ Cardinality({x} \cup {y}) <= 2
        <4>1. CASE x = y
          <5>1. {x} \cup {y} = {x}
            BY <4>1
          <5> QED BY <3>2, <5>1
        <4>2. CASE x # y
          <5>1. IsFiniteSet({x} \cup {y}) /\ Cardinality({x} \cup {y}) = Cardinality({x}) + 1
            BY <3>2, <4>2, FS_AddElement
          <5> QED BY <3>2, <5>1
        <4> QED BY <4>1, <4>2
      <3>4. Held \subseteq {x} \cup {y}
        BY <3>1
      <3>5. IsFiniteSet(Held) /\ Cardinality(Held) <= Cardinality({x} \cup {y})
        BY <3>3, <3>4, FS_Subset
      <3>6. Cardinality(Held) \in Nat /\ Cardinality({x} \cup {y}) \in Nat
        BY <3>3, <3>5, FS_CardinalityType
      <3> QED BY <3>3, <3>5, <3>6
    <2> QED BY <2>2, <2>3, <2>4, <2>5 DEF ScannedOutIsKept, Held
  <1> QED BY <1>1, Invariance, PTL

(* A program that comes to its end leaves the console, no frame buffer and *)
(* no locked buffer, whatever it has shown.                                *)
THEOREM ConsoleBackCorrect == Spec => []ConsoleBack
  <1>1. DisplayInv => ConsoleBack
    BY DEF DisplayInv, LightInv, FrameInv, BufferInv, Held, ConsoleBack
  <1> QED BY <1>1, Invariance, PTL

(* For any number of callers, captures and descriptors: captures that come *)
(* one after the other, none of them early, give back all they took.       *)
THEOREM BalancedCorrect == Spec => []CaptureBalanced
  <1>1. CaptureInv => CaptureBalanced
    <2> SUFFICES ASSUME CaptureInv, died = "no", Idle, ~overlap, ~early
                 PROVE  Open = {} /\ maps = {} /\ heap = {}
      BY DEF CaptureBalanced
    <2>1. Busy = {}
      BY DEF Idle, Busy
    <2> QED BY <2>1 DEF CaptureInv, BalanceInv, NothingElse
  <1> QED BY <1>1, Invariance, PTL

(* For any number of callers: freed memory is used, and a wait is for      *)
(* nothing, only if calls overlapped or the wait was interrupted.          *)
THEOREM RuinCorrect == Spec => []RuinNeedsCause
  <1>1. CaptureInv => RuinNeedsCause
    <2> SUFFICES ASSUME CaptureInv PROVE RuinNeedsCause
      OBVIOUS
    <2>1. ASSUME ~overlap, NEW t \in Callers, cpc[t] \in {"select", "read", "uninit"}
          PROVE  /\ Is(fd, "camera") /\ Is(fbfd, "screen") /\ buffers \in heap
                 /\ prog.mapped => fbp \in maps
      BY <2>1 DEF CaptureInv, WorkInv, Busy
    <2>2. (died = "memory" => overlap) /\ (died = "again" => hit \/ overlap)
      BY DEF CaptureInv, RuinInv
    <2> QED BY <2>1, <2>2 DEF RuinNeedsCause
  <1> QED BY <1>1, Invariance, PTL

(* The conversion that is looked at on its own is one of YuvImage: its     *)
(* types are proved there.                                                 *)
LEMMA ImplementsImage == Spec => ImageSpec
  <1>1. Init => ImageInit(Ways)
    BY DEF Init, ImageIdle, ImageInit, Ways
  <1>2. [Next]_vars => [ImageNext]_imageVars
    BY DEF Next, Convert, vars
  <1> QED BY <1>1, <1>2, PTL DEF Spec, ImageSpec

(* All variables of the composed program keep their types.                 *)
THEOREM TypeCorrect == Spec => []TypeOK
  <1> DEFINE Running == running \in {"camera", "display", "both", "image"}
  <1>1. Init => Running
    BY DEF Init
  <1>2. Running /\ [Next]_vars => Running'
    BY DEF Next, Convert, vars
  <1>3. Spec => []Running
    <2> HIDE DEF Running
    <2> QED BY <1>1, <1>2, PTL DEF Spec
  <1>4. CaptureTypeOK /\ DisplayTypeOK /\ ImageTypeOK /\ Running => TypeOK
    BY DEF TypeOK
  <1> HIDE DEF Running
  <1> QED BY <1>3, <1>4, CaptureTypeCorrect, DisplayTypeCorrect, ImplementsImage,
             ImageTypeCorrect, PTL

-----------------------------------------------------------------------------
(* How much of a capture is left.  That a capture ends (CaptureEnds) is    *)
(* fairness and this: no step of anybody takes a caller back.              *)
StepsLeft(t) ==
  [screen |-> 2 * Many + 6, map |-> 2 * Many + 5, init |-> 2 * Many + 4,
   select |-> 2 * left[t] + 3, read |-> 2 * left[t] + 2,
   uninit |-> 3, close |-> 2, close2 |-> 1, idle |-> 0, ended |-> 0][cpc[t]]

GoesOn(t) ==
  /\ Inside(t) => died' # "no" \/ StepsLeft(t)' < StepsLeft(t)
  /\ cpc[t] \notin {"idle", "ended"} /\ ~Inside(t) => StepsLeft(t)' = StepsLeft(t)

LEMMA StepsLeftIs ==
  ASSUME CallTypes, NEW t \in Callers
  PROVE  /\ StepsLeft(t) \in 0..(2 * Many + 6)
         /\ StepsLeft(t) = 0 <=> cpc[t] \in {"idle", "ended"}
         /\ cpc[t] = "screen" => StepsLeft(t) = 2 * Many + 6
         /\ cpc[t] = "map" => StepsLeft(t) = 2 * Many + 5
         /\ cpc[t] = "init" => StepsLeft(t) = 2 * Many + 4
         /\ cpc[t] = "select" => StepsLeft(t) = 2 * left[t] + 3
         /\ cpc[t] = "read" => StepsLeft(t) = 2 * left[t] + 2
         /\ cpc[t] = "uninit" => StepsLeft(t) = 3
         /\ cpc[t] = "close" => StepsLeft(t) = 2
         /\ cpc[t] = "close2" => StepsLeft(t) = 1
  <1>1. left[t] \in Nat /\ left[t] <= Many /\ Many \in Nat
    BY CaptureAssumption DEF CallTypes
  <1>2. cpc[t] \in {"idle", "screen", "map", "init", "select", "read", "uninit", "close",
                    "close2", "ended"}
    BY DEF CallTypes
  <1> QED BY <1>1, <1>2 DEF StepsLeft

(* A step of a caller inside ends the process or has one step less to go.  *)
LEMMA InsideFalls ==
  ASSUME CallTypes, CallTypes', NEW t \in Callers, Inside(t), died' = "no"
  PROVE  StepsLeft(t)' < StepsLeft(t)
  <1>t. /\ cpc \in [Callers -> {"idle", "screen", "map", "init", "select", "read", "uninit",
                                "close", "close2", "ended"}]
        /\ left \in [Callers -> 0..Many] /\ left' \in [Callers -> 0..Many] /\ Many \in Nat
        /\ cpc[t] \in {"select", "read"} => left[t] >= 1
        /\ left[t] \in Nat /\ left'[t] \in Nat /\ left[t] <= Many /\ left'[t] <= Many
    BY CaptureAssumption DEF CallTypes
  <1>b. /\ StepsLeft(t) \in 0..(2 * Many + 6)
        /\ cpc[t] = "screen" => StepsLeft(t) = 2 * Many + 6
        /\ cpc[t] = "map" => StepsLeft(t) = 2 * Many + 5
        /\ cpc[t] = "init" => StepsLeft(t) = 2 * Many + 4
        /\ cpc[t] = "select" => StepsLeft(t) = 2 * left[t] + 3
        /\ cpc[t] = "read" => StepsLeft(t) = 2 * left[t] + 2
        /\ cpc[t] = "uninit" => StepsLeft(t) = 3
        /\ cpc[t] = "close" => StepsLeft(t) = 2
        /\ cpc[t] = "close2" => StepsLeft(t) = 1
    BY StepsLeftIs
  <1>n. /\ cpc'[t] = "map" => StepsLeft(t)' = 2 * Many + 5
        /\ cpc'[t] = "init" => StepsLeft(t)' = 2 * Many + 4
        /\ cpc'[t] = "select" => StepsLeft(t)' = 2 * left'[t] + 3
        /\ cpc'[t] = "read" => StepsLeft(t)' = 2 * left'[t] + 2
        /\ cpc'[t] = "uninit" => StepsLeft(t)' = 3
        /\ cpc'[t] = "close" => StepsLeft(t)' = 2
        /\ cpc'[t] = "close2" => StepsLeft(t)' = 1
        /\ cpc'[t] \in {"idle", "ended"} => StepsLeft(t)' = 0
    BY <1>t DEF StepsLeft
  <1> HIDE DEF StepsLeft
  <1>g. \A q : Goto(t, q) => cpc'[t] = q
    BY <1>t DEF Goto
  <1>e. ReturnEarly(t) => cpc'[t] = "idle"
    BY <1>g DEF ReturnEarly, Exit
  <1>1. CASE OpenScreen(t)
    <2>1. cpc[t] = "screen" /\ cpc'[t] \in {"map", "idle"}
      BY <1>1, <1>g, <1>e DEF OpenScreen, At
    <2> QED BY <2>1, <1>t, <1>b, <1>n
  <1>2. CASE MapScreen(t)
    <2>1. cpc[t] = "map" /\ cpc'[t] \in {"init", "idle"}
      BY <1>2, <1>g, <1>e DEF MapScreen, At, Exit
    <2> QED BY <2>1, <1>t, <1>b, <1>n
  <1>3. CASE InitDevice(t)
    <2>1. cpc[t] = "init" /\ cpc'[t] = "select"
      BY <1>3, <1>g DEF InitDevice, At, Exit
    <2> QED BY <2>1, <1>t, <1>b, <1>n
  <1>4. CASE Select(t)
    <2>1. cpc[t] = "select" /\ cpc'[t] = "read" /\ left' = left
      BY <1>4, <1>g DEF Select, At, Exit
    <2> QED BY <2>1, <1>t, <1>b, <1>n
  <1>5. CASE ReadFrame(t)
    <2>1. /\ cpc[t] = "read" /\ left' = [left EXCEPT ![t] = @ - 1]
          /\ Goto(t, IF left[t] > 1 THEN "select" ELSE "uninit")
      BY <1>5 DEF ReadFrame, At, Exit
    <2>2. left'[t] = left[t] - 1 /\ cpc'[t] = IF left[t] > 1 THEN "select" ELSE "uninit"
      BY <2>1, <1>t, <1>g
    <2> QED BY <2>1, <2>2, <1>t, <1>b, <1>n
  <1>6. CASE UninitDevice(t)
    <2>1. cpc[t] = "uninit" /\ cpc'[t] = "close"
      BY <1>6, <1>g DEF UninitDevice, At, Exit
    <2> QED BY <2>1, <1>b, <1>n
  <1>7. CASE CloseScreen(t)
    <2>1. cpc[t] = "close" /\ cpc'[t] = "close2"
      BY <1>7, <1>g DEF CloseScreen, At
    <2> QED BY <2>1, <1>b, <1>n
  <1>8. CASE CloseCamera(t)
    <2>1. cpc[t] = "close2" /\ cpc'[t] \in {"idle", "ended"}
      BY <1>8, <1>g DEF CloseCamera, At
    <2> QED BY <2>1, <1>b, <1>n
  <1> QED BY <1>1, <1>2, <1>3, <1>4, <1>5, <1>6, <1>7, <1>8 DEF Inside

(* A step of a caller moves no other.                                      *)
LEMMA OthersStay ==
  ASSUME CallTypes, NEW t \in Callers, NEW u \in Callers, u # t, OpenCamera(u) \/ Inside(u)
  PROVE  cpc'[t] = cpc[t] /\ left'[t] = left[t]
  <1>1. cpc' = cpc \/ \E q : Goto(u, q)
    BY DEF Inside, OpenCamera, OpenScreen, MapScreen, InitDevice, Select, ReadFrame,
           UninitDevice, CloseScreen, CloseCamera, ReturnEarly
  <1>2. cpc'[t] = cpc[t]
    BY <1>1 DEF Goto, CallTypes
  <1>3. left' = left \/ \E k : left' = [left EXCEPT ![u] = k]
    <2>1. CASE InitDevice(u)
      BY <2>1 DEF InitDevice
    <2>2. CASE ReadFrame(u)
      BY <2>2 DEF ReadFrame
    <2>3. CASE ~InitDevice(u) /\ ~ReadFrame(u)
      BY <2>3 DEF Inside, OpenCamera, OpenScreen, MapScreen, Select, UninitDevice,
                  CloseScreen, CloseCamera
    <2> QED BY <2>1, <2>2, <2>3
  <1>4. left'[t] = left[t]
    BY <1>3 DEF CallTypes
  <1> QED BY <1>2, <1>4

LEMMA StepsLeftFall ==
  ASSUME CallTypes, CallTypes', [CaptureNext \/ Ended]_captureVars, NEW t \in Callers
  PROVE  GoesOn(t)
  <1>1. Inside(t) => died' # "no" \/ StepsLeft(t)' < StepsLeft(t)
    BY InsideFalls
  <1>2. ASSUME cpc[t] \notin {"idle", "ended"}, ~Inside(t)
        PROVE  StepsLeft(t)' = StepsLeft(t)
    <2>1. ~OpenCamera(t)
      BY <1>2 DEF OpenCamera, At
    <2>2. cpc'[t] = cpc[t] /\ left'[t] = left[t]
      <3>1. CASE \E u \in Callers : OpenCamera(u) \/ Inside(u)
        BY <3>1, <1>2, <2>1, OthersStay
      <3>2. CASE Deliver \/ Ended \/ UNCHANGED captureVars
        BY <3>2 DEF Deliver, Ended, captureVars
      <3> QED BY <3>1, <3>2 DEF CaptureNext
    <2> QED BY <2>2 DEF StepsLeft
  <1> QED BY <1>1, <1>2 DEF GoesOn

(* For any number of callers, frames and descriptors: a capture that is    *)
(* begun has at most 2 * Many + 6 steps to go, its every step ends the     *)
(* process or is one less, and nobody else's step, no frame that comes and *)
(* no failure of the display gives it more.                                *)
THEOREM CaptureIsBounded ==
  Spec => [](\A t \in Callers : StepsLeft(t) \in 0..(2 * Many + 6))
          /\ [][\A t \in Callers : GoesOn(t)]_vars
  <1>1. CaptureInv => \A t \in Callers : StepsLeft(t) \in 0..(2 * Many + 6)
    BY StepsLeftIs DEF CaptureInv, CaptureTypes
  <1>2. ASSUME CaptureInv, CaptureInv', [Next]_vars PROVE \A t \in Callers : GoesOn(t)
    BY <1>2, StepsOfParts, StepsLeftFall DEF CaptureInv, CaptureTypes
  <1>3. CaptureInv /\ CaptureInv' /\ [Next]_vars => [\A t \in Callers : GoesOn(t)]_vars
    BY <1>2
  <1> QED BY <1>1, <1>3, Invariance, PTL DEF Spec
=============================================================================
