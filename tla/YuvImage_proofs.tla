---------------------------- MODULE YuvImage_proofs ----------------------------
(***************************************************************************)
(* Proofs about YuvImage for frames and screens of any size.  The loops    *)
(* are a cursor: what lies before location is painted, what lies at it or  *)
(* behind it is blank, and location follows from the line and the byte the *)
(* loop has come to.                                                       *)
(***************************************************************************)
EXTENDS YuvImage, TLAPS

-----------------------------------------------------------------------------
(* Lines and columns of a place.                                           *)

LEMMA Divided ==
  ASSUME NEW n \in Nat, NEW w \in Nat \ {0}
  PROVE  /\ n \div w \in Nat /\ n % w \in 0..(w - 1)
         /\ n = (n \div w) * w + (n % w)
  <1>1. n \div w \in Nat
    OBVIOUS
  <1>2. n % w \in 0..(w - 1)
    OBVIOUS
  <1>3. n = w * (n \div w) + (n % w)
    OBVIOUS
  <1>4. w * (n \div w) = (n \div w) * w
    BY <1>1
  <1> QED BY <1>1, <1>2, <1>3, <1>4

LEMMA Between ==
  ASSUME NEW a \in Nat, NEW b \in Nat, NEW n \in Nat
  PROVE  n \in a..(b - 1) <=> a <= n /\ n < b
  OBVIOUS

LEMMA TwoPlaces ==
  ASSUME NEW a \in Nat
  PROVE  {a, a + 1} = a..(a + 1)
  OBVIOUS

LEMMA PlaceOf ==
  ASSUME NEW w \in Nat \ {0}, NEW a \in Nat, NEW b \in 0..(w - 1)
  PROVE  (a * w + b) \div w = a /\ (a * w + b) % w = b /\ a * w + b \in Nat
  <1>1. b \in Nat /\ b < w
    OBVIOUS
  <1>2. (a * w + b) \div w = a
    BY <1>1
  <1>3. (a * w + b) % w = b
    BY <1>1
  <1>4. a * w + b \in Nat
    BY <1>1
  <1> QED BY <1>2, <1>3, <1>4

LEMMA LineStart ==
  ASSUME NEW w \in Nat \ {0}, NEW a \in Nat
  PROVE  (a * w) \div w = a /\ (a * w) % w = 0
  <1>1. a * w = a * w + 0 /\ 0 \in 0..(w - 1)
    OBVIOUS
  <1>2. (a * w + 0) \div w = a /\ (a * w + 0) % w = 0
    BY <1>1, PlaceOf
  <1> QED BY <1>1, <1>2

LEMMA LineBefore ==
  ASSUME NEW w \in Nat, NEW a \in Nat, NEW b \in Nat, a < b
  PROVE  a * w \in Nat /\ b * w \in Nat /\ a * w + w <= b * w
  <1>1. b - a - 1 \in Nat
    OBVIOUS
  <1>2. (b - a - 1) * w \in Nat
    BY <1>1
  <1>3. b * w = (b - a - 1) * w + a * w + w
    BY <1>1
  <1> QED BY <1>2, <1>3

(* A place before the end of line b is in one of the lines before it.      *)
LEMMA LineWithin ==
  ASSUME NEW w \in Nat \ {0}, NEW n \in Nat, NEW b \in Nat
  PROVE  n < b * w <=> n \div w < b
  <1>1. n \div w \in Nat /\ n % w \in 0..(w - 1) /\ n = (n \div w) * w + (n % w)
    BY Divided
  <1>2. CASE n \div w < b
    <2>1. (n \div w) * w + w <= b * w /\ (n \div w) * w \in Nat /\ b * w \in Nat
      BY <1>1, <1>2, LineBefore
    <2> QED BY <1>1, <1>2, <2>1
  <1>3. CASE b <= n \div w
    <2>1. b * w \in Nat /\ (n \div w) * w \in Nat
      BY <1>1
    <2>2. b * w <= (n \div w) * w
      <3>1. CASE b = n \div w
        BY <3>1
      <3>2. CASE b < n \div w
        <4>1. b * w + w <= (n \div w) * w
          BY <1>1, <3>2, LineBefore
        <4> QED BY <2>1, <4>1
      <3> QED BY <1>1, <1>3, <3>1, <3>2
    <2> QED BY <1>1, <1>3, <2>1, <2>2
  <1> QED BY <1>1, <1>2, <1>3

-----------------------------------------------------------------------------
(* What is painted.                                                        *)

(* The assumptions of YuvImage in the form the provers use.                *)
LEMMA Sizes ==
  /\ Width \in Nat \ {0} /\ Height \in Nat \ {0} /\ Block \in Nat \ {0}
  /\ Width % 2 = 0 /\ Block % 2 = 0 /\ Width % Block = 0
  /\ \A n \in Screens : n \in Nat \ {0} /\ n % 2 = 0
  /\ Width * Height \in Nat \ {0} /\ 2 * Width \in Nat \ {0}
  /\ Width * 2 = 2 * Width /\ Width * Height * 2 = Height * (2 * Width)
  /\ Width * Height = Height * Width
  <1>1. Width \in Nat \ {0} /\ Height \in Nat \ {0} /\ Block \in Nat \ {0}
    BY ImageAssumption
  <1>2. \A n \in Screens : n \in Nat \ {0} /\ n % 2 = 0
    BY ImageAssumption
  <1>3. Width * Height = Height * Width /\ Width * Height \in Nat \ {0}
    BY <1>1
  <1>4. Width * Height * 2 = Height * (2 * Width)
    BY <1>1
  <1> QED BY <1>1, <1>2, <1>3, <1>4, ImageAssumption

(* A frame is a number of blocks wide.                                     *)
LEMMA Blocks ==
  /\ Width \div Block \in Nat \ {0} /\ Width = (Width \div Block) * Block
  <1>1. Width \in Nat \ {0} /\ Block \in Nat \ {0} /\ Width % Block = 0
    BY Sizes
  <1>2. Width = (Width \div Block) * Block + (Width % Block) /\ Width \div Block \in Nat
    BY <1>1, Divided
  <1>3. Width = (Width \div Block) * Block
    BY <1>1, <1>2
  <1>4. Width \div Block # 0
    <2> SUFFICES ASSUME Width \div Block = 0 PROVE FALSE
      OBVIOUS
    <2>1. (Width \div Block) * Block = 0
      BY <1>1
    <2> QED BY <1>1, <1>3, <2>1
  <1> QED BY <1>2, <1>3, <1>4

(* What the loops write at place n.  Wide is how far one line of the place *)
(* that is counted along lies behind the one before it: for a Qt image on  *)
(* a narrow screen that is not the width of the image.                     *)
Wide == IF way = ToTexture \/ (Packed /\ xres >= Width) THEN Width ELSE xres
Converted(n) ==
  LET y == n \div Wide   x == n % Wide
  IN IF \/ y >= Height
        \/ x >= Width
        \/ ~Rows /\ ~Packed /\ y > 0 /\ x < Block
     THEN Blank ELSE <<y, IF way = NeonFilter THEN x - (x % 2) ELSE x>>

(* The screen has a line for each line of the frame.                       *)
Tall == Packed \/ yres >= Height

(* What is before location is the picture, the rest is blank.              *)
Painted == \A n \in Places : out[n] = IF n < location THEN Converted(n) ELSE Blank

(* Places depends on what does not change.                                 *)
Settled == UNCHANGED <<way, colors, xres, yres>>

LEMMA SettledFacts ==
  ASSUME Settled
  PROVE  /\ Places' = Places /\ Wide' = Wide /\ \A n : Converted(n)' = Converted(n)
         /\ Rows' = Rows /\ Packed' = Packed
         /\ Tall' = Tall
  BY DEF Settled, Places, Room, Packed, Rows, Wide, Converted, Tall

LEMMA WideFacts ==
  ASSUME ImageTypeOK
  PROVE  /\ Wide \in Nat \ {0} /\ Wide % 2 = 0
         /\ xres \in Nat \ {0} /\ xres % 2 = 0 /\ yres \in Nat \ {0}
  BY Sizes, ImageAssumption DEF ImageTypeOK, Wide

LEMMA PixelAt ==
  ASSUME ImageTypeOK, NEW y \in Nat, NEW x \in 0..(Wide - 1)
  PROVE  Converted(y * Wide + x) =
           IF \/ y >= Height
              \/ x >= Width
              \/ ~Rows /\ ~Packed /\ y > 0 /\ x < Block
           THEN Blank ELSE <<y, IF way = NeonFilter THEN x - (x % 2) ELSE x>>
  <1>1. (y * Wide + x) \div Wide = y /\ (y * Wide + x) % Wide = x
    BY PlaceOf, WideFacts
  <1> QED BY <1>1 DEF Converted

(* The places of the buffer at 32 bits: the lines of the screen, or at     *)
(* least the pixels of the frame.                                          *)
LEMMA PlacesAre ==
  ASSUME ImageTypeOK
  PROVE  /\ way = ToQt => Places = 0..(Height * Width - 1)
         /\ Packed /\ colors = 4 => 0..(Height * Width - 1) \subseteq Places
         /\ ~Packed /\ colors = 4 => Places = 0..(yres * xres - 1)
         /\ ~Packed /\ colors = 4 /\ yres >= Height => 0..(Height * xres - 1) \subseteq Places
         /\ Places \subseteq Nat
  <1>1. /\ Height * Width \in Nat \ {0} /\ Width * Height = Height * Width
        /\ xres \in Nat \ {0} /\ yres \in Nat \ {0} /\ Height \in Nat \ {0}
    BY Sizes, WideFacts
  <1>2. ToQt # ToTexture
    BY DEF ToQt, ToTexture
  <1>3. way = ToQt => Places = 0..(Height * Width - 1)
    <2>1. way = ToQt => Room = Width * Height
      BY <1>2 DEF Room
    <2> QED BY <1>1, <2>1 DEF Places
  <1>4. ASSUME way = ToTexture, colors = 4 PROVE 0..(Height * Width - 1) \subseteq Places
    <2>1. Room = (Height * Width * 4) \div 3
      BY <1>1, <1>2, <1>4 DEF Room
    <2> DEFINE a == Height * Width
    <2>2. a \in Nat /\ Room = (a * 4) \div 3
      BY <1>1, <2>1
    <2> HIDE DEF a
    <2>3. Room \in Nat /\ a <= Room
      BY <2>2
    <2>4. 0..(a - 1) \subseteq 0..(Room - 1)
      BY <2>2, <2>3
    <2> QED BY <2>4 DEF Places, a
  <1>5. ASSUME ~Packed, colors = 4 PROVE Places = 0..(yres * xres - 1)
    <2>1. xres * yres \in Nat /\ xres * yres = yres * xres
      BY <1>1
    <2>2. (xres * yres * 4) \div 4 = xres * yres
      BY <2>1
    <2>3. Room = xres * yres
      BY <1>5, <2>2 DEF Room, Packed
    <2> QED BY <2>1, <2>3 DEF Places
  <1>6. ASSUME ~Packed, colors = 4, yres >= Height PROVE 0..(Height * xres - 1) \subseteq Places
    <2>1. Height * xres \in Nat /\ yres * xres \in Nat
      BY <1>1
    <2>2. yres = Height \/ Height < yres
      BY <1>1, <1>6
    <2>3. Height < yres => Height * xres + xres <= yres * xres
      BY <1>1, LineBefore
    <2>4. Height * xres <= yres * xres
      BY <1>1, <2>1, <2>2, <2>3
    <2> QED BY <1>5, <1>6, <2>1, <2>4
  <1>7. Places \subseteq Nat
    BY DEF Places
  <1> QED BY <1>3, <1>4, <1>5, <1>6, <1>7 DEF Packed

-----------------------------------------------------------------------------
(* The loops over lines, at 32 bits.                                       *)

(* How many pixels of the line are converted, and the column that the      *)
(* location has come to: processImage of v4l2qt.cpp does not go on with    *)
(* it over the rest of a wide screen.                                      *)
Copied(k) == IF k < 2 * Width THEN k \div 2 ELSE Width
Column == IF way = ToQt THEN Copied(j) ELSE j \div 2

RowCursor ==
  /\ line \in 0..Height /\ j \in 0..(2 * xres) /\ j % 4 = 0 /\ (line = Height => j = 0)
  /\ count = Copied(j) /\ location = line * Wide + Column

(* The file has the lines before this one and the start of this one.       *)
Saved ==
  way = ToFile /\ xres >= Width =>
    \A y \in 0..(Height - 1), x \in 0..(Width - 1) :
      y < line \/ (y = line /\ x < count) => file[(Height - 1 - y) * Width + x] = <<y, x>>

RowInv == Rows /\ colors = 4 /\ Tall => RowCursor /\ Painted /\ Saved /\ ~overrun

ImageBuffers == DOMAIN out = Places /\ DOMAIN file = 0..(Width * Height - 1)

LEMMA PairFacts ==
  ASSUME ImageTypeOK, Rows, colors = 4, RowCursor, j < xres * 2, j < Width * 2, line < Height
  PROVE  /\ j \in Nat /\ line \in Nat /\ j + 4 <= 2 * xres /\ (j + 4) % 4 = 0
         /\ Column = j \div 2 /\ count = j \div 2 /\ j \div 2 \in Nat
         /\ j \div 2 + 1 < Wide /\ j \div 2 + 1 < Width
         /\ location \in Nat /\ location = line * Wide + (j \div 2)
         /\ Copied(j + 4) = j \div 2 + 2 /\ (j + 4) \div 2 = j \div 2 + 2
  <1>1. xres \in Nat \ {0} /\ xres % 2 = 0 /\ Width \in Nat \ {0} /\ Width % 2 = 0
    BY WideFacts, Sizes
  <1>2. j \in Nat /\ j % 4 = 0 /\ line \in Nat /\ j < 2 * xres /\ j < 2 * Width
    BY <1>1, Sizes DEF RowCursor
  <1>3. /\ j + 4 <= 2 * xres /\ j + 4 <= 2 * Width /\ (j + 4) % 4 = 0 /\ j \div 2 \in Nat
        /\ (j + 4) \div 2 = j \div 2 + 2 /\ j \div 2 + 1 < xres /\ j \div 2 + 1 < Width
        /\ (j + 4 = 2 * Width => Width = j \div 2 + 2)
    BY <1>1, <1>2
  <1>4. Copied(j) = j \div 2 /\ Column = j \div 2
    BY <1>2 DEF Copied, Column
  <1>5. Copied(j + 4) = j \div 2 + 2
    BY <1>1, <1>2, <1>3 DEF Copied
  <1>6. j \div 2 + 1 < Wide
    BY <1>3 DEF Wide
  <1>7. location = line * Wide + (j \div 2)
    BY <1>4 DEF RowCursor
  <1>8. line * Wide \in Nat
    BY <1>2, WideFacts
  <1>9. location \in Nat
    BY <1>3, <1>7, <1>8
  <1>10. count = j \div 2
    BY <1>4 DEF RowCursor
  <1> QED BY <1>2, <1>3, <1>4, <1>5, <1>6, <1>7, <1>9, <1>10
(* Column x of the line, or the one after it, is that of the picture and   *)
(* lies inside of the buffer.                                              *)
LEMMA PairPixels ==
  ASSUME ImageTypeOK, Rows, colors = 4, Tall, line \in 0..(Height - 1),
         NEW x \in Nat, x < Wide, x < Width
  PROVE  /\ Converted(line * Wide + x) = <<line, x>>
         /\ line * Wide + x \in Places
  <1>1. Wide \in Nat \ {0} /\ xres \in Nat \ {0} /\ Width \in Nat \ {0} /\ Height \in Nat \ {0}
    BY WideFacts, Sizes
  <1>2. line \in Nat /\ line < Height /\ x \in 0..(Wide - 1)
    BY <1>1
  <1>3. Rows /\ way # NeonFilter
    BY DEF Rows, ToFile, ToScreen, ToQt, NeonFilter
  <1>4. Converted(line * Wide + x) = <<line, x>>
    <2>1. Converted(line * Wide + x) =
            IF \/ line >= Height
               \/ x >= Width
               \/ ~Rows /\ ~Packed /\ line > 0 /\ x < Block
            THEN Blank ELSE <<line, IF way = NeonFilter THEN x - (x % 2) ELSE x>>
      BY <1>2, PixelAt
    <2>2. ~(line >= Height) /\ ~(x >= Width)
      BY <1>1, <1>2
    <2> QED BY <1>3, <2>1, <2>2
  <1>5. line * Wide \in Nat /\ Height * Wide \in Nat /\ line * Wide + Wide <= Height * Wide
    BY <1>1, <1>2, LineBefore
  <1>6. line * Wide + x \in Nat /\ line * Wide + x < Height * Wide
    BY <1>1, <1>2, <1>5
  <1>7. CASE ~Packed
    <2>1. Wide = xres /\ 0..(Height * xres - 1) \subseteq Places
      BY <1>3, <1>7, PlacesAre DEF Wide, Rows, Tall, ToTexture, ToFile, ToScreen, ToQt
    <2> QED BY <1>4, <1>5, <1>6, <2>1
  <1>8. CASE Packed
    <2>1. Wide <= Width /\ 0..(Height * Width - 1) \subseteq Places
      BY <1>1, <1>8, PlacesAre DEF Wide
    <2>2. line * Width \in Nat /\ Height * Width \in Nat /\ line * Width + Width <= Height * Width
      BY <1>1, <1>2, LineBefore
    <2>3. line * Wide <= line * Width
      BY <1>1, <1>2, <2>1
    <2>4. line * Wide + x < Height * Width
      BY <1>1, <1>2, <1>5, <2>2, <2>3
    <2> QED BY <1>4, <1>6, <2>1, <2>2, <2>4
  <1> QED BY <1>7, <1>8

(* A pixel of the file's line.                                             *)
LEMMA SavedPlace ==
  ASSUME NEW y \in 0..(Height - 1), NEW x \in 0..(Width - 1)
  PROVE  (Height - 1 - y) * Width + x \in 0..(Width * Height - 1)
  <1>1. Width \in Nat \ {0} /\ Height \in Nat \ {0} /\ Width * Height = Height * Width
    BY Sizes
  <1>2. Height - 1 - y \in Nat /\ Height - 1 - y < Height
    BY <1>1
  <1>3. /\ (Height - 1 - y) * Width \in Nat /\ Height * Width \in Nat
        /\ (Height - 1 - y) * Width + Width <= Height * Width
    BY <1>1, <1>2, LineBefore
  <1> QED BY <1>1, <1>3

LEMMA PairSaved ==
  ASSUME ImageTypeOK, ImageBuffers, Rows, colors = 4, RowCursor, Saved, Loop, ConvertPair
  PROVE  Saved' /\ (way = ToFile => \A k \in {0, 1} :
           (Height - line - 1) * Width + count + k \in DOMAIN file)
  <1> DEFINE row == (Height - line - 1) * Width + count
             saved == [n \in {row, row + 1} |-> <<line, (j \div 2) + n - row>>]
  <1>1. /\ j < xres * 2 /\ j < Width * 2 /\ line < Height
        /\ way' = way /\ xres' = xres /\ line' = line /\ count' = count + 2
        /\ file' = IF way = ToFile THEN Written(file, saved) ELSE file
    BY DEF ConvertPair, Loop, Rows
  <1>2. /\ line \in Nat /\ count \in Nat /\ count = j \div 2 /\ count + 1 < Width
    BY <1>1, PairFacts
  <1>3. line \in 0..(Height - 1) /\ Width \in Nat \ {0} /\ Height \in Nat \ {0}
    BY <1>1, <1>2, Sizes
  <1>4. Height - line - 1 = Height - 1 - line
    BY <1>3
  <1>5. \A k \in {0, 1} : row + k \in DOMAIN file
    <2> SUFFICES ASSUME NEW k \in {0, 1} PROVE row + k \in DOMAIN file
      OBVIOUS
    <2>1. count + k \in 0..(Width - 1)
      BY <1>2, <1>3
    <2>2. (Height - 1 - line) * Width + (count + k) \in DOMAIN file
      BY <1>3, <2>1, SavedPlace DEF ImageBuffers
    <2>3. (Height - 1 - line) * Width \in Int
      BY <1>3
    <2> QED BY <1>2, <1>4, <2>2, <2>3
  <1>6. ASSUME way = ToFile, xres >= Width, NEW y \in 0..(Height - 1), NEW x \in 0..(Width - 1),
               y < line \/ (y = line /\ x < count + 2)
        PROVE  file'[(Height - 1 - y) * Width + x] = <<y, x>>
    <2> DEFINE place == (Height - 1 - y) * Width + x
    <2>1. place \in DOMAIN file
      BY SavedPlace DEF ImageBuffers
    <2>2. DOMAIN saved = {row, row + 1}
      OBVIOUS
    <2>3. file'[place] = IF place \in {row, row + 1} THEN saved[place] ELSE file[place]
      <3> HIDE DEF saved, place
      <3> QED BY <1>1, <1>6, <2>1, <2>2 DEF Written
    <2>4. (Height - 1 - line) * Width \in Nat /\ row \in Nat
      <3>1. Height - 1 - line \in Nat
        BY <1>3
      <3>2. (Height - 1 - line) * Width \in Nat
        BY <1>3, <3>1
      <3> QED BY <1>2, <1>4, <3>2
    <2>5. CASE y < line
      <3>1. /\ Height - 1 - line \in Nat /\ Height - 1 - y \in Nat
            /\ Height - 1 - line < Height - 1 - y
        BY <1>3, <2>5
      <3>2. /\ (Height - 1 - y) * Width \in Nat
            /\ (Height - 1 - line) * Width + Width <= (Height - 1 - y) * Width
        BY <1>3, <3>1, LineBefore
      <3>3. row + 1 < place
        BY <1>2, <1>3, <1>4, <2>4, <3>2
      <3>4. place \notin {row, row + 1}
        <4> HIDE DEF row
        <4>1. place \in Nat
          BY <3>2
        <4> HIDE DEF place
        <4> QED BY <2>4, <3>3, <4>1
      <3>5. file[place] = <<y, x>>
        BY <1>6, <2>5 DEF Saved
      <3> QED BY <2>3, <3>4, <3>5
    <2>6. CASE y = line /\ x < count
      <3>1. place < row
        BY <1>2, <1>4, <2>4, <2>6
      <3>2. place \notin {row, row + 1}
        <4>1. place \in Nat
          BY <2>4, <2>6
        <4> HIDE DEF row, place
        <4> QED BY <2>4, <3>1, <4>1
      <3>3. file[place] = <<y, x>>
        BY <1>6, <2>6 DEF Saved
      <3> QED BY <2>3, <3>2, <3>3
    <2>7. CASE y = line /\ count <= x /\ x < count + 2
      <3>1. x = count \/ x = count + 1
        BY <1>2, <2>7
      <3>2. place = row + (x - count)
        BY <1>2, <1>4, <2>4, <2>7
      <3>3. place \in {row, row + 1}
        BY <1>2, <2>4, <3>1, <3>2
      <3>4. saved[place] = <<line, (j \div 2) + place - row>>
        BY <3>3
      <3>5. (j \div 2) + place - row = x
        <4>1. x \in Int /\ count \in Int
          BY <1>2
        <4> HIDE DEF row, place
        <4> QED BY <1>2, <2>4, <3>2, <4>1
      <3> QED BY <2>3, <2>7, <3>3, <3>4, <3>5
    <2> QED BY <1>2, <1>6, <2>5, <2>6, <2>7
  <1>7. Saved'
    BY <1>1, <1>6 DEF Saved
  <1> QED BY <1>5, <1>7
(* The picture grows by the pixels that are written.                       *)
LEMMA Painting ==
  ASSUME ImageTypeOK, DOMAIN out = Places, Settled, Painted, location \in Nat, location' \in Nat,
         location <= location', NEW p, DOMAIN p = location..(location' - 1), out' = Written(out, p),
         \A n \in Places : location <= n /\ n < location' => p[n] = Converted(n)
  PROVE  Painted' /\ DOMAIN out' = Places'
  <1>1. DOMAIN out' = Places
    BY DEF Written
  <1>2. ASSUME NEW n \in Places PROVE out'[n] = IF n < location' THEN Converted(n) ELSE Blank
    <2>1. n \in Nat
      BY PlacesAre
    <2>2. n \in DOMAIN p <=> location <= n /\ n < location'
      BY <2>1, Between
    <2>3. /\ n < location => n < location' /\ ~(location <= n)
          /\ location' <= n => ~(n < location) /\ ~(n < location')
      BY <2>1
    <2>4. /\ n \in DOMAIN p => out'[n] = p[n]
          /\ n \notin DOMAIN p => out'[n] = out[n]
      BY DEF Written
    <2>5. /\ n < location => out[n] = Converted(n)
          /\ ~(n < location) => out[n] = Blank
      BY DEF Painted
    <2>6. CASE n < location
      <3>1. n \notin DOMAIN p /\ n < location'
        BY <2>2, <2>3, <2>6
      <3>2. out'[n] = Converted(n)
        BY <2>4, <2>5, <2>6, <3>1
      <3> QED BY <3>1, <3>2
    <2>7. CASE location <= n /\ n < location'
      <3>1. n \in DOMAIN p
        BY <2>2, <2>7
      <3>2. out'[n] = Converted(n)
        BY <2>4, <2>7, <3>1
      <3> QED BY <2>7, <3>2
    <2>8. CASE location' <= n
      <3>1. n \notin DOMAIN p /\ ~(n < location) /\ ~(n < location')
        BY <2>2, <2>3, <2>8
      <3>2. out'[n] = Blank
        BY <2>4, <2>5, <3>1
      <3> QED BY <3>1, <3>2
    <2> QED BY <2>1, <2>6, <2>7, <2>8
  <1>3. \A n \in Places' : out'[n] = IF n < location' THEN Converted(n)' ELSE Blank
    BY <1>2, SettledFacts
  <1> QED BY <1>1, <1>3, SettledFacts DEF Painted

(* Places that are blank in the picture are passed.                        *)
LEMMA Passing ==
  ASSUME ImageTypeOK, DOMAIN out = Places, Settled, Painted, location \in Nat, location' \in Nat,
         location <= location', out' = out,
         \A n \in Places : location <= n /\ n < location' => Converted(n) = Blank
  PROVE  Painted' /\ DOMAIN out' = Places'
  <1>1. ASSUME NEW n \in Places PROVE out[n] = IF n < location' THEN Converted(n) ELSE Blank
    <2>1. n \in Nat
      BY PlacesAre
    <2>2. out[n] = IF n < location THEN Converted(n) ELSE Blank
      BY DEF Painted
    <2>3. CASE n < location
      BY <2>1, <2>2, <2>3
    <2>4. CASE location <= n
      <3>1. out[n] = Blank
        BY <2>1, <2>2, <2>4
      <3> QED BY <2>1, <2>4, <3>1
    <2> QED BY <2>1, <2>3, <2>4
  <1>2. \A n \in Places' : out'[n] = IF n < location' THEN Converted(n)' ELSE Blank
    BY <1>1, SettledFacts
  <1> QED BY <1>2, SettledFacts DEF Painted

LEMMA ConvertPairRow ==
  ASSUME ImageTypeOK, ImageBuffers, RowInv, ConvertPair
  PROVE  RowInv'
  <1> SUFFICES ASSUME Rows, colors = 4, Tall PROVE RowInv'
    BY DEF RowInv, ConvertPair, Rows, Tall, Packed
  <1> DEFINE places == [n \in {location, location + 1} |-> <<line, (j \div 2) + n - location>>]
             row == (Height - line - 1) * Width + count
             saved == [n \in {row, row + 1} |-> <<line, (j \div 2) + n - row>>]
  <1>1. RowCursor /\ Painted /\ Saved /\ ~overrun
    BY DEF RowInv
  <1>2. Loop /\ j < xres * 2 /\ j < Width * 2 /\ line < Height
    BY DEF ConvertPair, Loop, Rows
  <1>3. /\ location' = location + 2 /\ count' = count + 2 /\ j' = j + 4 /\ line' = line /\ Settled
        /\ out' = Written(out, places)
        /\ overrun' = (overrun \/ ~(DOMAIN places \subseteq DOMAIN out)
                       \/ (way = ToFile /\ ~(DOMAIN saved \subseteq DOMAIN file)))
    BY DEF ConvertPair, Settled
  <1>4. /\ j \in Nat /\ line \in Nat /\ j + 4 <= 2 * xres /\ (j + 4) % 4 = 0
        /\ Column = j \div 2 /\ count = j \div 2 /\ j \div 2 \in Nat
        /\ (j \div 2) + 1 < Wide /\ (j \div 2) + 1 < Width
        /\ location \in Nat /\ location = line * Wide + (j \div 2)
        /\ Copied(j + 4) = (j \div 2) + 2 /\ (j + 4) \div 2 = (j \div 2) + 2
    BY <1>1, <1>2, PairFacts
  <1>5. line \in 0..(Height - 1) /\ xres \in Nat /\ Wide \in Nat
    BY <1>2, <1>4, WideFacts, Sizes
  <1>6. \A k \in {0, 1} : /\ Converted(location + k) = <<line, (j \div 2) + k>>
                          /\ location + k \in Places
    <2> SUFFICES ASSUME NEW k \in {0, 1}
                 PROVE  Converted(location + k) = <<line, (j \div 2) + k>> /\ location + k \in Places
      OBVIOUS
    <2>1. (j \div 2) + k \in Nat /\ (j \div 2) + k < Wide /\ (j \div 2) + k < Width
      BY <1>4, <1>5, Sizes
    <2>2. line * Wide + ((j \div 2) + k) = location + k
      BY <1>4, <1>5
    <2>3. /\ Converted(line * Wide + ((j \div 2) + k)) = <<line, (j \div 2) + k>>
          /\ line * Wide + ((j \div 2) + k) \in Places
      BY <1>5, <2>1, PairPixels
    <2> QED BY <2>2, <2>3
  <1>7. Painted' /\ DOMAIN out' = Places'
    <2>1. DOMAIN places = location..(location' - 1)
      <3>1. {location, location + 1} = location..(location + 1) /\ location' - 1 = location + 1
        BY <1>3, <1>4, TwoPlaces
      <3> QED BY <3>1
    <2>2. ASSUME NEW n \in Places, location <= n, n < location' PROVE places[n] = Converted(n)
      <3>1. n \in Nat
        BY PlacesAre
      <3>2. location' = location + 2
        BY <1>3
      <3>3. n = location \/ n = location + 1
        BY <1>4, <2>2, <3>1, <3>2
      <3>4. n - location \in {0, 1} /\ n = location + (n - location)
        BY <1>4, <3>1, <3>3
      <3>5. places[n] = <<line, (j \div 2) + n - location>>
        BY <3>3
      <3>6. (j \div 2) + n - location = (j \div 2) + (n - location)
        BY <1>4, <3>1
      <3>7. Converted(location + (n - location)) = <<line, (j \div 2) + (n - location)>>
        BY <1>6, <3>4
      <3> QED BY <3>4, <3>5, <3>6, <3>7
    <2>3. location' \in Nat /\ location <= location'
      BY <1>3, <1>4
    <2> HIDE DEF places
    <2> QED BY <1>1, <1>3, <1>4, <2>1, <2>2, <2>3, Painting DEF ImageBuffers
  <1>8. Saved' /\ ~overrun'
    <2>1. Saved' /\ (way = ToFile => \A k \in {0, 1} : row + k \in DOMAIN file)
      BY <1>1, <1>2, PairSaved
    <2>2. DOMAIN places \subseteq DOMAIN out
      <3>1. location \in Places /\ location + 1 \in Places
        <4>1. location + 0 = location
          BY <1>4
        <4> QED BY <1>6, <4>1
      <3> QED BY <3>1 DEF ImageBuffers
    <2>3. row \in Int
      BY <1>4, <1>5, Sizes
    <2>4. way = ToFile => DOMAIN saved \subseteq DOMAIN file
      <3>1. DOMAIN saved = {row, row + 1} /\ row + 0 = row
        <4> HIDE DEF row
        <4> QED BY <2>3
      <3> HIDE DEF row, saved
      <3> QED BY <2>1, <3>1
    <2> HIDE DEF places, saved, row
    <2> QED BY <1>1, <1>3, <2>1, <2>2, <2>4
  <1>9. RowCursor'
    <2>1. line' \in 0..Height /\ j' \in 0..(2 * xres') /\ j' % 4 = 0 /\ line' # Height
      BY <1>2, <1>3, <1>4, <1>5, Sizes DEF Settled
    <2>2. count' = Copied(j')
      BY <1>3, <1>4
    <2>3. Column' = (j \div 2) + 2
      <3>1. Copied(j)' = Copied(j + 4)
        BY <1>3 DEF Copied
      <3>2. j' \div 2 = (j \div 2) + 2
        BY <1>3, <1>4
      <3> QED BY <1>4, <3>1, <3>2 DEF Column
    <2>4. location' = line' * Wide' + Column'
      <3>1. Wide' = Wide
        BY <1>3, SettledFacts
      <3> QED BY <1>3, <1>4, <1>5, <2>3, <3>1
    <2>5. count' = Copied(j)'
      BY <2>2 DEF Copied
    <2> QED BY <2>1, <2>4, <2>5 DEF RowCursor
  <1> QED BY <1>1, <1>7, <1>8, <1>9 DEF RowInv
LEMMA RestFacts ==
  ASSUME ImageTypeOK, Rows, colors = 4, RowCursor, j < xres * 2, j >= Width * 2, line < Height
  PROVE  /\ j \in Nat /\ line \in Nat /\ j + 4 <= 2 * xres /\ (j + 4) % 4 = 0
         /\ j \div 2 \in Nat /\ (j \div 2) + 1 < xres /\ Width <= j \div 2 /\ Width <= xres
         /\ Copied(j) = Width /\ Copied(j + 4) = Width /\ (j + 4) \div 2 = (j \div 2) + 2
  <1>1. xres \in Nat \ {0} /\ xres % 2 = 0 /\ Width \in Nat \ {0} /\ Width % 2 = 0
    BY WideFacts, Sizes
  <1>2. j \in Nat /\ j % 4 = 0 /\ line \in Nat /\ j < 2 * xres /\ j >= 2 * Width
    BY <1>1, Sizes DEF RowCursor
  <1>3. /\ j + 4 <= 2 * xres /\ (j + 4) % 4 = 0 /\ (j + 4) \div 2 = (j \div 2) + 2
        /\ j \div 2 \in Nat /\ (j \div 2) + 1 < xres /\ Width <= j \div 2 /\ Width <= xres
    BY <1>1, <1>2
  <1>4. Copied(j) = Width /\ Copied(j + 4) = Width
    BY <1>1, <1>2 DEF Copied
  <1> QED BY <1>2, <1>3, <1>4

LEMMA SkipRestRow ==
  ASSUME ImageTypeOK, ImageBuffers, RowInv, SkipRest
  PROVE  RowInv'
  <1> SUFFICES ASSUME Rows, colors = 4, Tall PROVE RowInv'
    BY DEF RowInv, SkipRest, Rows, Tall, Packed
  <1>1. RowCursor /\ Painted /\ Saved /\ ~overrun
    BY DEF RowInv
  <1>2. j < xres * 2 /\ j >= Width * 2 /\ line < Height
    BY DEF SkipRest, Loop, Rows
  <1>3. /\ location' = IF way = ToQt THEN location ELSE location + (colors * 2) \div 4
        /\ j' = j + 4 /\ Settled
        /\ line' = line /\ count' = count /\ out' = out /\ file' = file /\ overrun' = overrun
    BY DEF SkipRest, Settled
  <1>4. (colors * 2) \div 4 = 2
    OBVIOUS
  <1>5. /\ j \in Nat /\ line \in Nat /\ j + 4 <= 2 * xres /\ (j + 4) % 4 = 0
        /\ j \div 2 \in Nat /\ (j \div 2) + 1 < xres /\ Width <= j \div 2 /\ Width <= xres
        /\ Copied(j) = Width /\ Copied(j + 4) = Width /\ (j + 4) \div 2 = (j \div 2) + 2
    BY <1>1, <1>2, RestFacts
  <1>6. /\ Wide \in Nat \ {0} /\ xres \in Nat \ {0} /\ Height \in Nat \ {0} /\ Width \in Nat \ {0}
        /\ line * Wide \in Nat
    BY <1>5, WideFacts, Sizes
  <1>7. location = line * Wide + Column /\ Column \in Nat /\ location \in Nat
    BY <1>1, <1>5, <1>6 DEF RowCursor, Column
  <1>8. Painted'
    <2>1. CASE way = ToQt
      <3>1. location' = location
        BY <1>3, <2>1
      <3>2. \A n \in Places : location <= n /\ n < location' => Converted(n) = Blank
        BY <1>7, <3>1, PlacesAre
      <3> QED BY <1>1, <1>3, <1>7, <3>1, <3>2, Passing DEF ImageBuffers
    <2>2. CASE way # ToQt
      <3>1. location' = location + 2 /\ Wide = xres /\ location = line * xres + (j \div 2)
        BY <1>3, <1>4, <1>7, <2>2 DEF Column, Wide, Packed, Rows, ToTexture, ToFile, ToScreen, ToQt
      <3>2. ASSUME NEW n \in Places, location <= n, n < location' PROVE Converted(n) = Blank
        <4>1. n \in Nat
          BY PlacesAre
        <4>2. n = location \/ n = location + 1
          BY <1>7, <3>1, <3>2, <4>1
        <4>3. PICK x \in 0..(xres - 1) : n = line * Wide + x /\ x >= Width
          <5>1. CASE n = location
            BY <1>5, <1>6, <3>1, <5>1
          <5>2. CASE n = location + 1
            <6>1. (j \div 2) + 1 \in 0..(xres - 1) /\ (j \div 2) + 1 >= Width
              BY <1>5, <1>6
            <6>2. n = line * Wide + ((j \div 2) + 1)
              BY <1>5, <1>6, <3>1, <5>2
            <6> QED BY <6>1, <6>2
          <5> QED BY <4>2, <5>1, <5>2
        <4>4. Converted(line * Wide + x) =
                IF \/ line >= Height
                   \/ x >= Width
                   \/ ~Rows /\ ~Packed /\ line > 0 /\ x < Block
                THEN Blank ELSE <<line, IF way = NeonFilter THEN x - (x % 2) ELSE x>>
          BY <1>5, <3>1, <4>3, PixelAt
        <4> QED BY <4>3, <4>4
      <3>3. location' \in Nat /\ location <= location'
        BY <1>7, <3>1
      <3> QED BY <1>1, <1>3, <1>7, <3>2, <3>3, Passing DEF ImageBuffers
    <2> QED BY <2>1, <2>2
  <1>9. RowCursor'
    <2>1. line' \in 0..Height /\ j' \in 0..(2 * xres') /\ j' % 4 = 0 /\ line' # Height
      BY <1>2, <1>3, <1>5, <1>6 DEF Settled
    <2>2. Copied(j)' = Width
      BY <1>3, <1>5 DEF Copied
    <2>3. count' = Copied(j)'
      BY <1>1, <1>3, <1>5, <2>2 DEF RowCursor
    <2>4. Wide' = Wide /\ way' = way
      BY <1>3, SettledFacts DEF Settled
    <2>5. CASE way = ToQt
      <3>1. Column' = Width /\ Column = Width
        BY <1>5, <2>2, <2>4, <2>5 DEF Column
      <3> QED BY <1>3, <1>7, <2>1, <2>3, <2>4, <2>5, <3>1 DEF RowCursor
    <2>6. CASE way # ToQt
      <3>1. Column' = Column + 2
        BY <1>3, <1>5, <2>4, <2>6 DEF Column
      <3>2. location' = location + 2
        BY <1>3, <1>4, <2>6
      <3>3. location' = line' * Wide' + Column'
        BY <1>3, <1>6, <1>7, <2>4, <3>1, <3>2
      <3> QED BY <2>1, <2>3, <3>3 DEF RowCursor
    <2> QED BY <2>5, <2>6
  <1>10. Saved' /\ ~overrun'
    BY <1>1, <1>3 DEF Saved, Settled
  <1> QED BY <1>8, <1>9, <1>10 DEF RowInv
LEMMA NextLineRow ==
  ASSUME ImageTypeOK, ImageBuffers, RowInv, NextLine
  PROVE  RowInv'
  <1> SUFFICES ASSUME Rows, colors = 4, Tall PROVE RowInv'
    BY DEF RowInv, NextLine, Rows, Tall, Packed
  <1>1. RowCursor /\ Painted /\ Saved /\ ~overrun
    BY DEF RowInv
  <1>2. j >= xres * 2 /\ line < Height
    BY DEF NextLine, Loop, Rows
  <1>3. /\ line' = line + 1 /\ j' = 0 /\ count' = 0 /\ Settled
        /\ location' = location /\ out' = out /\ file' = file /\ overrun' = overrun
    BY DEF NextLine, Settled
  <1>4. /\ Wide \in Nat \ {0} /\ xres \in Nat \ {0} /\ Height \in Nat \ {0} /\ Width \in Nat \ {0}
        /\ xres % 2 = 0
    BY WideFacts, Sizes
  <1>5. line \in Nat /\ line < Height /\ j = 2 * xres /\ j \div 2 = xres
    BY <1>1, <1>2, <1>4 DEF RowCursor
  <1>6. Copied(j) = IF xres < Width THEN xres ELSE Width
    BY <1>4, <1>5 DEF Copied
  <1>7. Column = Wide
    BY <1>4, <1>5, <1>6 DEF Column, Wide, Packed, Rows, ToTexture, ToFile, ToScreen, ToQt
  <1>8. /\ location = line * Wide + Wide /\ line * Wide \in Nat
        /\ (line + 1) * Wide = line * Wide + Wide
    BY <1>1, <1>4, <1>5, <1>7 DEF RowCursor
  <1>9. Painted'
    <2>1. location \in Nat /\ location' = location
      BY <1>3, <1>4, <1>8
    <2>2. \A n \in Places : location <= n /\ n < location' => Converted(n) = Blank
      BY <2>1, PlacesAre
    <2> QED BY <1>1, <1>3, <2>1, <2>2, Passing DEF ImageBuffers
  <1>10. RowCursor'
    <2>1. Copied(0) = 0 /\ Copied(j)' = Copied(0)
      BY <1>3, <1>4 DEF Copied
    <2>2. Column' = 0
      BY <1>3, <2>1 DEF Column
    <2>3. Wide' = Wide
      BY <1>3, SettledFacts
    <2>4. line' \in 0..Height /\ j' \in 0..(2 * xres') /\ j' % 4 = 0
      BY <1>3, <1>4, <1>5 DEF Settled
    <2>5. location' = line' * Wide' + Column'
      BY <1>3, <1>4, <1>8, <2>2, <2>3
    <2> QED BY <1>3, <2>1, <2>4, <2>5 DEF RowCursor
  <1>11. Saved' /\ ~overrun'
    <2>1. ASSUME way = ToFile, xres >= Width, NEW y \in 0..(Height - 1), NEW x \in 0..(Width - 1),
                 y < line + 1 \/ (y = line + 1 /\ x < 0)
          PROVE  file[(Height - 1 - y) * Width + x] = <<y, x>>
      <3>1. y < line \/ y = line
        BY <1>4, <1>5, <2>1
      <3>2. x < count
        BY <1>1, <1>4, <1>6, <2>1 DEF RowCursor
      <3> QED BY <1>1, <2>1, <3>1, <3>2 DEF Saved
    <2> QED BY <1>1, <1>3, <2>1 DEF Saved, Settled
  <1> QED BY <1>9, <1>10, <1>11 DEF RowInv

-----------------------------------------------------------------------------
(* The loop over all pixels of the texture.                                *)

TexelInv ==
  way = ToTexture /\ colors = 4 =>
    /\ j \in 0..(Height * (2 * Width)) /\ j % 4 = 0 /\ location = j \div 2
    /\ Painted /\ ~overrun

LEMMA ConvertTexelKeeps ==
  ASSUME ImageTypeOK, ImageBuffers, TexelInv, ConvertTexel, colors = 4
  PROVE  TexelInv'
  <1> DEFINE y == j \div (2 * Width)
             x == (j % (2 * Width)) \div 2
             p == [n \in {location, location + 1} |-> <<y, x + n - location>>]
  <1>1. /\ way = ToTexture /\ j < Width * Height * 2 /\ out' = Written(out, p)
        /\ location' = location + 2 /\ j' = j + 4 /\ Settled
        /\ overrun' = (overrun \/ ~(DOMAIN p \subseteq DOMAIN out))
        /\ ~Rows /\ Packed
    BY DEF ConvertTexel, Loop, Rows, Packed, Settled, ToTexture, ToFile, ToScreen, ToQt
  <1>2. j \in Nat /\ j % 4 = 0 /\ location = j \div 2 /\ Painted /\ ~overrun
    BY <1>1, Sizes DEF TexelInv
  <1>3. /\ Width \in Nat \ {0} /\ Height \in Nat \ {0} /\ Width % 2 = 0 /\ 2 * Width \in Nat \ {0}
        /\ Height * (2 * Width) \in Nat /\ j < Height * (2 * Width)
    BY <1>1, Sizes
  <1>4. /\ y \in Nat /\ j % (2 * Width) \in 0..(2 * Width - 1)
        /\ j = y * (2 * Width) + (j % (2 * Width)) /\ y < Height
    BY <1>2, <1>3, Divided, LineWithin
  <1>5. y * (2 * Width) = 2 * (y * Width) /\ y * Width \in Nat
    <2> HIDE DEF y, x
    <2> QED BY <1>3, <1>4
  <1>6. y * Width % 2 = 0
    <2> HIDE DEF y
    <2>1. PICK h \in Nat : Width = 2 * h
      <3>1. Width = 2 * (Width \div 2) /\ Width \div 2 \in Nat
        BY <1>3
      <3> QED BY <3>1
    <2>2. y * Width = 2 * (y * h) /\ y * h \in Nat
      BY <1>4, <2>1
    <2> QED BY <2>2
  <1>7. (j % (2 * Width)) % 4 = 0
    <2> DEFINE a == y * Width
               b == j % (2 * Width)
    <2>1. a \in Nat /\ a % 2 = 0 /\ b \in Nat /\ j = 2 * a + b /\ j % 4 = 0
      BY <1>2, <1>3, <1>4, <1>5, <1>6
    <2> HIDE DEF a, b, y
    <2>2. b % 4 = 0
      BY <2>1
    <2> QED BY <2>2 DEF b
  <1>8. /\ x \in Nat /\ x + 1 < Width /\ location = y * Width + x /\ location \in Nat
        /\ (j + 4) \div 2 = (j \div 2) + 2 /\ (j + 4) % 4 = 0
    <2> DEFINE a == y * Width
               b == j % (2 * Width)
    <2>1. /\ a \in Nat /\ b \in 0..(2 * Width - 1) /\ b % 4 = 0 /\ j = 2 * a + b /\ Width \in Nat
          /\ Width % 2 = 0 /\ location = j \div 2 /\ j % 4 = 0 /\ j \in Nat
      BY <1>2, <1>3, <1>4, <1>5, <1>7
    <2> HIDE DEF a, b, y
    <2>2. /\ b \div 2 \in Nat /\ (b \div 2) + 1 < Width /\ location = a + (b \div 2)
          /\ location \in Nat
          /\ (j + 4) \div 2 = (j \div 2) + 2 /\ (j + 4) % 4 = 0
      BY <2>1
    <2> QED BY <2>2 DEF a, b
  <1>9. \A k \in {0, 1} : Converted(location + k) = <<y, x + k>>
    <2> HIDE DEF x, y
    <2> SUFFICES ASSUME NEW k \in {0, 1} PROVE Converted(location + k) = <<y, x + k>>
      OBVIOUS
    <2>1. Wide = Width /\ way # NeonFilter
      BY <1>1 DEF Wide, ToTexture, NeonFilter
    <2>2. x + k \in 0..(Wide - 1) /\ ~(x + k >= Width) /\ y * Wide + (x + k) = location + k
      BY <1>3, <1>4, <1>5, <1>8, <2>1
    <2>3. ~(y >= Height)
      BY <1>3, <1>4
    <2>4. Converted(y * Wide + (x + k)) =
            IF \/ y >= Height
               \/ x + k >= Width
               \/ ~Rows /\ ~Packed /\ y > 0 /\ x + k < Block
            THEN Blank
            ELSE <<y, IF way = NeonFilter THEN (x + k) - ((x + k) % 2) ELSE x + k>>
      BY <1>4, <2>2, PixelAt
    <2> QED BY <1>1, <2>1, <2>2, <2>3, <2>4
  <1>10. Painted' /\ DOMAIN out' = Places'
    <2>1. DOMAIN p = location..(location' - 1)
      <3>1. {location, location + 1} = location..(location + 1) /\ location' - 1 = location + 1
        BY <1>1, <1>8, TwoPlaces
      <3> QED BY <3>1
    <2>2. ASSUME NEW n \in Places, location <= n, n < location' PROVE p[n] = Converted(n)
      <3>1. n \in Nat
        BY PlacesAre
      <3>2. location' = location + 2
        BY <1>1
      <3>3. n = location \/ n = location + 1
        BY <1>8, <2>2, <3>1, <3>2
      <3>4. n - location \in {0, 1} /\ n = location + (n - location)
        BY <1>8, <3>1, <3>3
      <3>5. p[n] = <<y, x + n - location>>
        BY <3>3
      <3>6. x + n - location = x + (n - location)
        <4> HIDE DEF x
        <4> QED BY <1>8, <3>1
      <3>7. Converted(location + (n - location)) = <<y, x + (n - location)>>
        BY <1>9, <3>4
      <3> QED BY <3>4, <3>5, <3>6, <3>7
    <2>3. location' \in Nat /\ location <= location'
      <3> HIDE DEF x, y, p
      <3> QED BY <1>1, <1>8
    <2>4. DOMAIN out = Places /\ out' = Written(out, p) /\ Settled
      BY <1>1 DEF ImageBuffers
    <2> HIDE DEF p, x, y
    <2> QED BY <1>2, <1>8, <2>1, <2>2, <2>3, <2>4, Painting
  <1>11. j' \in 0..(Height * (2 * Width)) /\ j' % 4 = 0 /\ location' = j' \div 2
    <2>1. PICK a \in Nat : Height * (2 * Width) = 4 * a
      <3>1. Width = 2 * (Width \div 2) /\ Width \div 2 \in Nat
        BY <1>3
      <3>2. Height * (2 * Width) = 4 * (Height * (Width \div 2)) /\ Height * (Width \div 2) \in Nat
        BY <1>3, <3>1
      <3> QED BY <3>2
    <2>2. j + 4 <= Height * (2 * Width)
      BY <1>2, <1>3, <2>1
    <2>3. j' = j + 4 /\ location' = location + 2
      BY <1>1
    <2>4. (j + 4) \div 2 = (j \div 2) + 2 /\ (j + 4) % 4 = 0
      BY <1>8
    <2>5. j' \in 0..(Height * (2 * Width))
      BY <1>2, <1>3, <2>2, <2>3
    <2>6. location' = j' \div 2
      BY <1>2, <2>3, <2>4
    <2> QED BY <2>3, <2>4, <2>5, <2>6
  <1>12. ~overrun'
    <2> HIDE DEF x, y
    <2>1. y * Width + Width <= Height * Width /\ y * Width \in Nat /\ Height * Width \in Nat
      BY <1>3, <1>4, LineBefore
    <2>2. location \in 0..(Height * Width - 1) /\ location + 1 \in 0..(Height * Width - 1)
      BY <1>3, <1>8, <2>1
    <2>3. location \in Places /\ location + 1 \in Places
      BY <1>1, <2>2, PlacesAre
    <2>4. DOMAIN p = {location, location + 1} /\ DOMAIN out = Places
      BY DEF ImageBuffers
    <2> HIDE DEF p
    <2> QED BY <1>1, <1>2, <2>3, <2>4
  <1> QED BY <1>1, <1>2, <1>10, <1>11, <1>12 DEF TexelInv

-----------------------------------------------------------------------------
(* The loop over blocks.                                                   *)

(* Whole blocks of line y are behind the cursor, where a line but the      *)
(* first begins with its second block; this is known for a screen as wide  *)
(* as the frame.  On a narrower one the location is half of j, until the   *)
(* step to the next line goes wrong.                                       *)
BlockCursor ==
  \E y \in 0..(Height - 1), m \in 0..(Width \div Block) :
    /\ j = y * (2 * Width) + 2 * (m * Block) /\ (m = 0 => y = 0)
    /\ location = y * xres + m * Block

BlockInv ==
  way \in {Neon, NeonFilter} =>
    /\ xres < Width /\ ~overrun => 2 * location = j
    /\ colors = 4 /\ xres >= Width /\ yres >= Height => BlockCursor /\ Painted /\ ~overrun

LEMMA StrideFacts ==
  ASSUME ImageTypeOK
  PROVE  /\ Stride \in Nat /\ Stride \div 2 \in Nat /\ 2 * (Stride \div 2) = Stride
         /\ colors = 4 => Stride = 2 * Block /\ Stride \div 2 = Block
  <1>1. Block \in Nat \ {0} /\ Block % 2 = 0 /\ colors \in {2, 4}
    BY Sizes DEF ImageTypeOK
  <1>2. CASE colors = 4
    <2>1. Stride = 2 * Block
      BY <1>1, <1>2 DEF Stride
    <2> QED BY <1>1, <1>2, <2>1
  <1>3. CASE colors = 2
    <2>1. Stride = Block
      BY <1>1, <1>3 DEF Stride
    <2> QED BY <1>1, <1>3, <2>1
  <1> QED BY <1>1, <1>2, <1>3

(* At the end of a line the blank rest of the screen's line is passed, and *)
(* with it the first block of the next one.                                *)
LEMMA LineEnd ==
  ASSUME ImageTypeOK, way \in {Neon, NeonFilter}, colors = 4, xres >= Width,
         NEW y \in Nat, NEW n \in Nat,
         y * xres + Width <= n, n < y * xres + xres + Block
  PROVE  Converted(n) = Blank
  <1>1. /\ Wide = xres /\ xres \in Nat \ {0} /\ Width \in Nat \ {0} /\ Block \in Nat \ {0}
        /\ ~Rows /\ ~Packed /\ y * xres \in Nat
    BY WideFacts, Sizes
       DEF Wide, Rows, Packed, Neon, NeonFilter, ToTexture, ToFile, ToScreen, ToQt
  <1>2. CASE n < y * xres + xres
    <2>1. n - y * xres \in 0..(Wide - 1) /\ n - y * xres >= Width /\ n = y * Wide + (n - y * xres)
      BY <1>1, <1>2
    <2>2. Converted(y * Wide + (n - y * xres)) = Blank
      <3> DEFINE x == n - y * xres
      <3>1. Converted(y * Wide + x) =
              IF \/ y >= Height
                 \/ x >= Width
                 \/ ~Rows /\ ~Packed /\ y > 0 /\ x < Block
              THEN Blank ELSE <<y, IF way = NeonFilter THEN x - (x % 2) ELSE x>>
        <4>1. x \in 0..(Wide - 1)
          BY <2>1
        <4> HIDE DEF x
        <4> QED BY <4>1, PixelAt
      <3> QED BY <2>1, <3>1
    <2> QED BY <2>1, <2>2
  <1>3. CASE n >= y * xres + xres
    <2> DEFINE z == y + 1
               x == n - (y * xres + xres)
    <2>1. z \in Nat /\ z > 0 /\ z * xres = y * xres + xres
      BY <1>1
    <2>2. x \in 0..(Wide - 1) /\ x < Block /\ n = z * Wide + x
      <3>1. Block <= Width
        <4>1. Width = (Width \div Block) * Block /\ Width \div Block \in Nat \ {0}
          BY Blocks
        <4>2. PICK q \in Nat : Width \div Block = q + 1
          <5>1. (Width \div Block) - 1 \in Nat
            BY <4>1
          <5> QED BY <4>1, <5>1
        <4>3. Width = q * Block + Block /\ q * Block \in Nat
          BY <1>1, <4>1, <4>2
        <4> QED BY <1>1, <4>3
      <3>2. x \in Nat /\ x < Block
        BY <1>1, <1>3
      <3>3. n = z * xres + x
        <4>1. y * xres + xres \in Nat
          BY <1>1
        <4> QED BY <1>1, <2>1, <4>1
      <3> HIDE DEF x, z
      <3> QED BY <1>1, <3>1, <3>2, <3>3
    <2>3. Converted(z * Wide + x) =
            IF \/ z >= Height
               \/ x >= Width
               \/ ~Rows /\ ~Packed /\ z > 0 /\ x < Block
            THEN Blank ELSE <<z, IF way = NeonFilter THEN x - (x % 2) ELSE x>>
      <3> HIDE DEF x, z
      <3> QED BY <2>1, <2>2, PixelAt
    <2>4. Converted(z * Wide + x) = Blank
      <3> HIDE DEF x, z
      <3> QED BY <1>1, <2>1, <2>2, <2>3
    <2> QED BY <2>2, <2>4
  <1>4. y * xres + xres \in Nat
    BY <1>1
  <1> QED BY <1>1, <1>2, <1>3, <1>4

(* The pixels of a block.                                                  *)
LEMMA BlockPixel ==
  ASSUME ImageTypeOK, way \in {Neon, NeonFilter}, colors = 4, xres >= Width, yres >= Height,
         NEW y \in 0..(Height - 1), NEW x \in 0..(Width - 1), y = 0 \/ x >= Block
  PROVE  /\ Converted(y * xres + x) = <<y, IF way = NeonFilter THEN x - (x % 2) ELSE x>>
         /\ y * xres + x \in Places
  <1>1. /\ Wide = xres /\ xres \in Nat \ {0} /\ Width \in Nat \ {0} /\ Block \in Nat \ {0}
        /\ ~Rows /\ ~Packed /\ Height \in Nat \ {0}
    BY WideFacts, Sizes
       DEF Wide, Rows, Packed, Neon, NeonFilter, ToTexture, ToFile, ToScreen, ToQt
  <1>2. y \in Nat /\ y < Height /\ x \in 0..(Wide - 1) /\ x \in Nat /\ ~(x >= Width)
    BY <1>1
  <1>3. Converted(y * Wide + x) =
          IF \/ y >= Height
             \/ x >= Width
             \/ ~Rows /\ ~Packed /\ y > 0 /\ x < Block
          THEN Blank ELSE <<y, IF way = NeonFilter THEN x - (x % 2) ELSE x>>
    BY <1>2, PixelAt
  <1>4. ~(y > 0 /\ x < Block)
    BY <1>1, <1>2
  <1>5. y * xres \in Nat /\ Height * xres \in Nat /\ y * xres + xres <= Height * xres
    BY <1>1, <1>2, LineBefore
  <1>6. y * xres + x \in 0..(Height * xres - 1)
    BY <1>1, <1>2, <1>5
  <1>7. 0..(Height * xres - 1) \subseteq Places
    BY <1>1, PlacesAre
  <1> QED BY <1>1, <1>2, <1>3, <1>4, <1>6, <1>7
(* Where a cursor is, and whether its line is at its end.                  *)
LEMMA CursorFacts ==
  ASSUME ImageTypeOK, colors = 4, xres >= Width, j < Width * Height * 2,
         NEW y \in 0..(Height - 1), NEW m \in 0..(Width \div Block),
         j = y * (2 * Width) + 2 * (m * Block), m = 0 => y = 0
  PROVE  /\ m * Block \in Nat /\ y * xres \in Nat /\ m * Block <= Width /\ j \in Nat
         /\ m = Width \div Block =>
              m * Block = Width /\ j % (Width * 2) = 0 /\ j # 0 /\ y + 1 < Height
         /\ m # Width \div Block =>
              /\ m * Block + Block <= Width /\ ~(j % (Width * 2) = 0 /\ j # 0)
              /\ j \div (2 * Width) = y /\ j % (2 * Width) = 2 * (m * Block)
  <1>1. /\ Width \in Nat \ {0} /\ Block \in Nat \ {0} /\ Height \in Nat \ {0} /\ xres \in Nat \ {0}
        /\ Width * 2 = 2 * Width /\ 2 * Width \in Nat \ {0}
        /\ Width * Height * 2 = Height * (2 * Width)
    BY Sizes, WideFacts
  <1>2. Width \div Block \in Nat \ {0} /\ Width = (Width \div Block) * Block
    BY Blocks
  <1>3. m \in Nat /\ y \in Nat /\ y < Height
    BY <1>1, <1>2
  <1>4. m * Block \in Nat /\ y * xres \in Nat /\ y * (2 * Width) \in Nat
    BY <1>1, <1>3
  <1>5. CASE m = Width \div Block
    <2>1. m * Block = Width
      BY <1>2, <1>5
    <2>2. j = y * (2 * Width) + 2 * Width
      BY <1>1, <1>4, <2>1
    <2>3. (y + 1) * (2 * Width) = y * (2 * Width) + 2 * Width
      BY <1>1, <1>3
    <2>4. j = (y + 1) * (2 * Width)
      BY <2>2, <2>3
    <2>5. y + 1 \in Nat
      BY <1>3
    <2>6. j % (2 * Width) = 0 /\ j \div (2 * Width) = y + 1
      BY <1>1, <2>4, <2>5, LineStart
    <2>7. j # 0 /\ j \in Nat
      BY <1>1, <1>4, <2>2
    <2>8. y + 1 < Height
      BY <1>1, <2>6, <2>7, LineWithin
    <2> QED BY <1>1, <1>4, <1>5, <2>1, <2>6, <2>7, <2>8
  <1>6. CASE m # Width \div Block
    <2>1. m < Width \div Block
      BY <1>2, <1>6
    <2>2. m * Block + Block <= Width
      BY <1>1, <1>2, <1>3, <2>1, LineBefore
    <2>3. 2 * (m * Block) \in 0..(2 * Width - 1)
      BY <1>1, <1>4, <2>2
    <2>4. j \div (2 * Width) = y /\ j % (2 * Width) = 2 * (m * Block) /\ j \in Nat
      BY <1>1, <1>3, <2>3, PlaceOf
    <2>5. ASSUME j % (2 * Width) = 0 PROVE j = 0
      <3>1. m * Block = 0
        BY <1>4, <2>4, <2>5
      <3>2. m = 0
        BY <1>1, <1>3, <3>1
      <3>3. y * (2 * Width) = 0
        BY <1>1, <3>2
      <3> QED BY <3>1, <3>3
    <2> QED BY <1>1, <1>4, <1>6, <2>2, <2>4, <2>5
  <1> QED BY <1>5, <1>6

(* A block is converted.                                                   *)
LEMMA BlockStep ==
  ASSUME ImageTypeOK, ImageBuffers, way \in {Neon, NeonFilter}, colors = 4, xres >= Width,
         yres >= Height,
         BlockCursor, Painted, ~overrun, ConvertBlock
  PROVE  BlockCursor' /\ Painted' /\ ~overrun' /\ DOMAIN out' = Places'
  <1>1. /\ Stride = 2 * Block /\ Stride \div 2 = Block /\ j' = j + Stride
        /\ Settled /\ j < Width * Height * 2
    BY StrideFacts DEF ConvertBlock, Settled, Loop, Rows, Neon, NeonFilter, ToFile, ToScreen, ToQt
  <1>2. PICK y \in 0..(Height - 1), m \in 0..(Width \div Block) :
          /\ j = y * (2 * Width) + 2 * (m * Block) /\ (m = 0 => y = 0)
          /\ location = y * xres + m * Block
    BY DEF BlockCursor
  <1>3. /\ Width \in Nat \ {0} /\ Block \in Nat \ {0} /\ Height \in Nat \ {0} /\ xres \in Nat \ {0}
        /\ Width \div Block \in Nat \ {0} /\ Width * 2 = 2 * Width
        /\ y \in Nat /\ y < Height /\ m \in Nat
    BY Sizes, WideFacts, Blocks
  <1>4. /\ m * Block \in Nat /\ y * xres \in Nat /\ m * Block <= Width /\ j \in Nat
        /\ m = Width \div Block =>
             m * Block = Width /\ j % (Width * 2) = 0 /\ j # 0 /\ y + 1 < Height
        /\ m # Width \div Block =>
             /\ m * Block + Block <= Width /\ ~(j % (Width * 2) = 0 /\ j # 0)
             /\ j \div (2 * Width) = y /\ j % (2 * Width) = 2 * (m * Block)
    BY <1>1, <1>2, CursorFacts
  <1>5. location \in Nat /\ y * (2 * Width) \in Nat
    BY <1>2, <1>3, <1>4
  <1>6. CASE m = Width \div Block
    <2>1. m * Block = Width /\ j % (Width * 2) = 0 /\ j # 0 /\ y + 1 < Height
      BY <1>4, <1>6
    <2>2. /\ overrun' = (overrun \/ xres < Width) /\ out' = out
          /\ location' = location + ((xres - Width) * colors) \div 4 + Stride \div 2
      BY <2>1 DEF ConvertBlock
    <2>3. ((xres - Width) * colors) \div 4 = xres - Width
      BY <1>3
    <2>4. location = y * xres + Width /\ location' = y * xres + xres + Block
      BY <1>1, <1>2, <1>3, <1>4, <2>1, <2>2, <2>3
    <2>5. location' \in Nat /\ location <= location'
      BY <1>3, <1>4, <2>4
    <2>6. \A n \in Places : location <= n /\ n < location' => Converted(n) = Blank
      <3> SUFFICES ASSUME NEW n \in Places, location <= n, n < location' PROVE Converted(n) = Blank
        OBVIOUS
      <3>1. n \in Nat /\ y * xres + Width <= n /\ n < y * xres + xres + Block
        BY <2>4, PlacesAre
      <3> QED BY <1>3, <3>1, LineEnd
    <2>7. Painted' /\ DOMAIN out' = Places'
      BY <1>1, <1>5, <2>2, <2>5, <2>6, Passing DEF ImageBuffers
    <2>8. BlockCursor'
      <3>1. (y + 1) * xres = y * xres + xres /\ 1 * Block = Block
        BY <1>3
      <3>2. location' = (y + 1) * xres + 1 * Block
        BY <2>4, <3>1
      <3>3. (y + 1) * (2 * Width) = y * (2 * Width) + 2 * Width
        BY <1>3
      <3>4. j' = (y + 1) * (2 * Width) + 2 * (1 * Block)
        BY <1>1, <1>2, <1>3, <1>5, <2>1, <3>1, <3>3
      <3>5. y + 1 \in 0..(Height - 1) /\ 1 \in 0..(Width \div Block)
        BY <1>3, <2>1
      <3>6. xres' = xres
        BY <1>1 DEF Settled
      <3>7. \E z \in 0..(Height - 1), k \in 0..(Width \div Block) :
              /\ j' = z * (2 * Width) + 2 * (k * Block) /\ (k = 0 => z = 0)
              /\ location' = z * xres + k * Block
        <4> USE <3>5
        <4> WITNESS y + 1 \in 0..(Height - 1), 1 \in 0..(Width \div Block)
        <4> QED BY <3>2, <3>4
      <3> QED BY <3>6, <3>7 DEF BlockCursor
    <2>9. ~overrun'
      <3>1. ~(xres < Width)
        BY <1>3
      <3> QED BY <2>2, <3>1
    <2> QED BY <2>7, <2>8, <2>9
  <1>7. CASE m # Width \div Block
    <2> DEFINE Source(x) == IF way = NeonFilter THEN x - (x % 2) ELSE x
               p == [n \in location..(location + Block - 1) |->
                       <<j \div (2 * Width), Source((j % (2 * Width)) \div 2 + n - location)>>]
    <2>1. /\ m * Block + Block <= Width /\ ~(j % (Width * 2) = 0 /\ j # 0)
          /\ j \div (2 * Width) = y /\ j % (2 * Width) = 2 * (m * Block)
      BY <1>4, <1>7
    <2>2. /\ out' = Written(out, p) /\ location' = location + Stride \div 2
          /\ overrun' = (overrun \/ ~(DOMAIN p \subseteq DOMAIN out))
      BY <2>1 DEF ConvertBlock
    <2>3. location' = location + Block /\ location' \in Nat /\ location <= location'
      <3> HIDE DEF p
      <3> QED BY <1>1, <1>3, <1>5, <2>2
    <2>4. (2 * (m * Block)) \div 2 = m * Block
      BY <1>4
    <2>5. ASSUME NEW n \in location..(location + Block - 1)
          PROVE  n \in Places /\ p[n] = Converted(n)
      <3> DEFINE x == n - y * xres
      <3>1. n \in Nat /\ location <= n /\ n < location + Block
        BY <1>3, <1>5, <2>5
      <3>2. x \in 0..(Width - 1) /\ m * Block <= x /\ n = y * xres + x
        BY <1>2, <1>3, <1>4, <1>5, <2>1, <3>1
      <3>3. y = 0 \/ x >= Block
        <4>1. CASE m = 0
          BY <1>2, <4>1
        <4>2. CASE m # 0
          <5>1. PICK k \in Nat : m = k + 1
            <6>1. m - 1 \in Nat /\ m = (m - 1) + 1
              BY <1>3, <4>2
            <6> QED BY <6>1
          <5>2. m * Block = k * Block + Block /\ k * Block \in Nat
            BY <1>3, <5>1
          <5>3. Block <= m * Block
            BY <1>3, <5>2
          <5> HIDE DEF x
          <5>4. x \in Nat /\ Block \in Nat /\ m * Block \in Nat
            BY <1>3, <1>4, <3>2
          <5> QED BY <3>2, <5>3, <5>4
        <4> QED BY <4>1, <4>2
      <3>4. /\ Converted(y * xres + x) = <<y, IF way = NeonFilter THEN x - (x % 2) ELSE x>>
            /\ y * xres + x \in Places
        <4> HIDE DEF x
        <4> QED BY <3>2, <3>3, BlockPixel
      <3>5. (j % (2 * Width)) \div 2 + n - location = x
        BY <1>2, <1>3, <1>4, <1>5, <2>1, <2>4, <3>1
      <3>6. p[n] = <<y, Source((j % (2 * Width)) \div 2 + n - location)>>
        BY <2>1, <2>5
      <3>7. p[n] = <<y, IF way = NeonFilter THEN x - (x % 2) ELSE x>>
        <4> HIDE DEF x, p
        <4> QED BY <3>5, <3>6
      <3> HIDE DEF x, p
      <3> QED BY <3>2, <3>4, <3>7
    <2>6. DOMAIN p = location..(location' - 1) /\ DOMAIN p = location..(location + Block - 1)
      <3>1. location + Block - 1 = location' - 1
        BY <1>3, <1>5, <2>3
      <3> QED BY <3>1
    <2> HIDE DEF p
    <2>7. \A n \in Places : location <= n /\ n < location' => p[n] = Converted(n)
      <3> SUFFICES ASSUME NEW n \in Places, location <= n, n < location' PROVE p[n] = Converted(n)
        OBVIOUS
      <3>1. n \in Nat
        BY PlacesAre
      <3>2. n \in location..(location' - 1)
        BY <1>5, <2>3, <3>1, Between
      <3>3. n \in location..(location + Block - 1)
        BY <2>6, <3>2
      <3> QED BY <2>5, <3>3
    <2>8. Painted' /\ DOMAIN out' = Places'
      BY <1>1, <1>5, <2>2, <2>3, <2>6, <2>7, Painting DEF ImageBuffers
    <2>9. ~overrun'
      BY <2>2, <2>5, <2>6 DEF ImageBuffers
    <2>10. BlockCursor'
      <3>1. (m + 1) * Block = m * Block + Block
        BY <1>3
      <3>2. location' = y * xres + (m + 1) * Block
        BY <1>2, <1>3, <1>4, <2>3, <3>1
      <3>3. j' = y * (2 * Width) + 2 * ((m + 1) * Block)
        BY <1>1, <1>2, <1>3, <1>4, <1>5, <3>1
      <3>4. m + 1 \in 0..(Width \div Block) /\ m + 1 # 0
        BY <1>3, <1>7
      <3>5. xres' = xres
        BY <1>1 DEF Settled
      <3>6. \E z \in 0..(Height - 1), k \in 0..(Width \div Block) :
              /\ j' = z * (2 * Width) + 2 * (k * Block) /\ (k = 0 => z = 0)
              /\ location' = z * xres + k * Block
        <4> USE <3>4
        <4> WITNESS y \in 0..(Height - 1), m + 1 \in 0..(Width \div Block)
        <4> QED BY <3>2, <3>3, <3>4
      <3> QED BY <3>5, <3>6 DEF BlockCursor
    <2> QED BY <2>8, <2>9, <2>10
  <1> QED BY <1>6, <1>7

LEMMA ConvertBlockKeeps ==
  ASSUME ImageTypeOK, ImageBuffers, BlockInv, ~overrun, ConvertBlock
  PROVE  BlockInv' /\ ImageBuffers'
  <1>1. way \in {Neon, NeonFilter} /\ Settled /\ j' = j + Stride /\ file' = file
    BY DEF ConvertBlock, Settled
  <1>2. DOMAIN out' = Places'
    BY <1>1, SettledFacts DEF ConvertBlock, ImageBuffers, Written
  <1>3. ASSUME xres < Width, ~overrun' PROVE 2 * location' = j'
    <2>1. 2 * location = j /\ location \in Nat /\ j \in Nat
      BY <1>1, <1>3 DEF BlockInv, ImageTypeOK
    <2>2. location' = location + Stride \div 2
      BY <1>3 DEF ConvertBlock
    <2> QED BY <1>1, <2>1, <2>2, StrideFacts
  <1>4. ASSUME colors = 4, xres >= Width, yres >= Height PROVE BlockCursor' /\ Painted' /\ ~overrun'
    <2>1. BlockCursor /\ Painted
      BY <1>1, <1>4 DEF BlockInv
    <2> QED BY <1>1, <1>4, <2>1, BlockStep
  <1>5. BlockInv'
    BY <1>1, <1>3, <1>4 DEF BlockInv, Settled
  <1> QED BY <1>1, <1>2, <1>5 DEF ImageBuffers

-----------------------------------------------------------------------------
(* The types.                                                              *)

Cells == (0..Height) \X (0..(Width + Block))

LEMMA TypedOut ==
  ASSUME ImageTypeOK, NEW p, \A n \in DOMAIN p : p[n] \in Cells, out' = Written(out, p)
  PROVE  \A n \in DOMAIN out' : out'[n] = Blank \/ out'[n] \in Cells
  <1>1. \A n \in DOMAIN out : out[n] = Blank \/ out[n] \in Cells
    BY DEF ImageTypeOK, Cells
  <1> SUFFICES ASSUME NEW n \in DOMAIN out' PROVE out'[n] = Blank \/ out'[n] \in Cells
    OBVIOUS
  <1>2. n \in DOMAIN out /\ ((out'[n] = p[n] /\ n \in DOMAIN p) \/ out'[n] = out[n])
    BY DEF Written
  <1> QED BY <1>1, <1>2

LEMMA Typed ==
  ASSUME ImageTypeOK, Settled, line' \in Nat, j' \in Nat, location' \in Nat, count' \in Nat,
         overrun' \in BOOLEAN, \A n \in DOMAIN out' : out'[n] = Blank \/ out'[n] \in Cells
  PROVE  ImageTypeOK'
  BY DEF ImageTypeOK, Settled, Cells

LEMMA TypeParts ==
  ASSUME ImageTypeOK
  PROVE  /\ line \in Nat /\ j \in Nat /\ location \in Nat /\ count \in Nat /\ overrun \in BOOLEAN
         /\ colors \in {2, 4} /\ \A n \in DOMAIN out : out[n] = Blank \/ out[n] \in Cells
  BY DEF ImageTypeOK, Cells

LEMMA RowTypes ==
  ASSUME ImageTypeOK, ConvertPair \/ SkipRest \/ NextLine
  PROVE  ImageTypeOK'
  <1>1. /\ line \in Nat /\ j \in Nat /\ location \in Nat /\ count \in Nat /\ overrun \in BOOLEAN
        /\ colors \in {2, 4} /\ \A n \in DOMAIN out : out[n] = Blank \/ out[n] \in Cells
        /\ Width \in Nat \ {0} /\ Block \in Nat \ {0} /\ Height \in Nat \ {0}
    BY TypeParts, Sizes
  <1>2. CASE ConvertPair
    <2> DEFINE p == [n \in {location, location + 1} |-> <<line, (j \div 2) + n - location>>]
    <2>1. /\ Settled /\ line' = line /\ j' = j + colors /\ location' = location + 2
          /\ count' = count + 2 /\ out' = Written(out, p)
          /\ line < Height /\ j < Width * 2
      BY <1>2 DEF ConvertPair, Settled, Loop, Rows
    <2>2. overrun' \in BOOLEAN
      BY <1>2 DEF ConvertPair
    <2>3. ASSUME NEW n \in DOMAIN p PROVE p[n] \in Cells
      <3>1. n = location \/ n = location + 1
        OBVIOUS
      <3>2. (j \div 2) + n - location \in 0..(Width + Block)
        <4>1. j \div 2 \in Nat /\ (j \div 2) + 1 <= Width
          BY <1>1, <2>1
        <4>2. n - location \in {0, 1} /\ (j \div 2) + n - location = (j \div 2) + (n - location)
          BY <1>1, <3>1, <4>1
        <4> QED BY <1>1, <4>1, <4>2
      <3>3. p[n] = <<line, (j \div 2) + n - location>>
        BY <3>1
      <3>4. line \in 0..Height
        BY <1>1, <2>1
      <3> HIDE DEF p
      <3> QED BY <3>2, <3>3, <3>4 DEF Cells
    <2> HIDE DEF p
    <2>4. \A n \in DOMAIN out' : out'[n] = Blank \/ out'[n] \in Cells
      BY <2>1, <2>3, TypedOut
    <2>5. line' \in Nat /\ j' \in Nat /\ location' \in Nat /\ count' \in Nat
      BY <1>1, <2>1
    <2> QED BY <2>1, <2>2, <2>4, <2>5, Typed
  <1>3. CASE SkipRest
    <2>1. /\ Settled /\ line' = line /\ j' = j + colors /\ count' = count /\ out' = out
          /\ overrun' = overrun
          /\ location' = IF way = ToQt THEN location ELSE location + (colors * 2) \div 4
      BY <1>3 DEF SkipRest, Settled
    <2>2. line' \in Nat /\ j' \in Nat /\ count' \in Nat
      BY <1>1, <2>1
    <2>3. (colors * 2) \div 4 \in Nat
      BY <1>1
    <2>4. location' \in Nat
      BY <1>1, <2>1, <2>3
    <2> QED BY <1>1, <2>1, <2>2, <2>4, Typed
  <1>4. CASE NextLine
    <2>1. /\ Settled /\ line' = line + 1 /\ j' = 0 /\ count' = 0 /\ location' = location
          /\ out' = out /\ overrun' = overrun
      BY <1>4 DEF NextLine, Settled
    <2>2. line' \in Nat /\ j' \in Nat /\ count' \in Nat /\ location' \in Nat
      BY <1>1, <2>1
    <2> QED BY <1>1, <2>1, <2>2, Typed
  <1> QED BY <1>2, <1>3, <1>4

(* The line and the column of byte j of the frame.                         *)
LEMMA FrameByte ==
  ASSUME ImageTypeOK, j < Width * Height * 2
  PROVE  /\ j \div (2 * Width) \in 0..(Height - 1)
         /\ (j % (2 * Width)) \div 2 \in 0..(Width - 1)
         /\ (j % (2 * Width)) \div 2 \in Nat
  <1>1. /\ j \in Nat /\ 2 * Width \in Nat \ {0} /\ Width \in Nat \ {0} /\ Height \in Nat \ {0}
        /\ j < Height * (2 * Width)
    BY TypeParts, Sizes
  <1>2. j \div (2 * Width) \in Nat /\ j % (2 * Width) \in 0..(2 * Width - 1)
    BY <1>1, Divided
  <1>3. j \div (2 * Width) < Height
    BY <1>1, LineWithin
  <1>4. ASSUME NEW b \in 0..(2 * Width - 1) PROVE b \div 2 \in 0..(Width - 1) /\ b \div 2 \in Nat
    BY <1>1
  <1> QED BY <1>1, <1>2, <1>3, <1>4

LEMMA TexelTypes ==
  ASSUME ImageTypeOK, ConvertTexel
  PROVE  ImageTypeOK'
  <1> DEFINE y == j \div (2 * Width)
             x == (j % (2 * Width)) \div 2
             p == [n \in {location, location + 1} |-> <<y, x + n - location>>]
  <1>1. /\ line \in Nat /\ j \in Nat /\ location \in Nat /\ count \in Nat /\ overrun \in BOOLEAN
        /\ Width \in Nat \ {0} /\ Block \in Nat \ {0} /\ Height \in Nat \ {0}
    BY TypeParts, Sizes
  <1>2. /\ Settled /\ line' = line /\ j' = j + 4 /\ location' = location + 2 /\ count' = count
        /\ overrun' \in BOOLEAN /\ out' = Written(out, p) /\ j < Width * Height * 2
    BY DEF ConvertTexel, Settled, Loop, Rows, ToTexture, ToFile, ToScreen, ToQt
  <1>3. y \in 0..(Height - 1) /\ x \in 0..(Width - 1)
    BY <1>2, FrameByte
  <1>4. ASSUME NEW n \in DOMAIN p PROVE p[n] \in Cells
    <2>1. n = location \/ n = location + 1
      OBVIOUS
    <2>2. p[n] = <<y, x + n - location>>
      BY <2>1
    <2> HIDE DEF x, y, p
    <2>3. y \in 0..Height /\ x + n - location \in 0..(Width + Block)
      <3>1. x \in Nat /\ x < Width /\ location \in Nat
        BY <1>1, <1>3
      <3>2. x + n - location = x \/ x + n - location = x + 1
        BY <2>1, <3>1
      <3> QED BY <1>1, <1>3, <3>1, <3>2
    <2> QED BY <2>2, <2>3 DEF Cells
  <1> HIDE DEF x, y, p
  <1>5. \A n \in DOMAIN out' : out'[n] = Blank \/ out'[n] \in Cells
    BY <1>2, <1>4, TypedOut
  <1>6. line' \in Nat /\ j' \in Nat /\ location' \in Nat /\ count' \in Nat
    BY <1>1, <1>2
  <1> QED BY <1>1, <1>2, <1>5, <1>6, Typed

LEMMA BlockTypes ==
  ASSUME ImageTypeOK, BlockInv, ~overrun, ConvertBlock
  PROVE  ImageTypeOK'
  <1> DEFINE Source(x) == IF way = NeonFilter THEN x - (x % 2) ELSE x
             y == j \div (2 * Width)
             c == (j % (2 * Width)) \div 2
             p == [n \in location..(location + Block - 1) |-> <<y, Source(c + n - location)>>]
  <1>1. /\ line \in Nat /\ j \in Nat /\ location \in Nat /\ count \in Nat /\ overrun \in BOOLEAN
        /\ Width \in Nat \ {0} /\ Block \in Nat \ {0} /\ Height \in Nat \ {0} /\ xres \in Nat \ {0}
        /\ Stride \in Nat /\ Stride \div 2 \in Nat /\ colors \in {2, 4}
    BY TypeParts, Sizes, WideFacts, StrideFacts
  <1>2. /\ Settled /\ line' = line /\ j' = j + Stride /\ count' = count
        /\ way \in {Neon, NeonFilter} /\ j < Width * Height * 2 /\ overrun' \in BOOLEAN
    BY <1>1 DEF ConvertBlock, Settled, Loop, Rows, Neon, NeonFilter, ToFile, ToScreen, ToQt
  <1>3. line' \in Nat /\ j' \in Nat /\ count' \in Nat
    BY <1>1, <1>2
  <1>4. CASE j % (Width * 2) = 0 /\ j # 0
    <2>1. /\ location' = location + ((xres - Width) * colors) \div 4 + Stride \div 2
          /\ out' = out
      BY <1>4 DEF ConvertBlock
    <2>2. location + ((xres - Width) * colors) \div 4 \in Nat
      <3>1. CASE xres >= Width
        <4>1. ((xres - Width) * colors) \div 4 \in Nat
          BY <1>1, <3>1
        <4> QED BY <1>1, <4>1
      <3>2. CASE xres < Width
        <4>1. 2 * location = j
          BY <1>2, <3>2 DEF BlockInv
        <4>2. 2 * Width \in Nat \ {0} /\ Width * 2 = 2 * Width
          BY <1>1
        <4>3. /\ j \div (2 * Width) \in Nat
              /\ j = (j \div (2 * Width)) * (2 * Width) + (j % (2 * Width))
          BY <1>1, <4>2, Divided
        <4>4. j = (j \div (2 * Width)) * (2 * Width)
          BY <1>1, <1>4, <4>2, <4>3
        <4>5. j \div (2 * Width) # 0
          BY <1>4, <4>2, <4>4
        <4>6. PICK k \in Nat : j \div (2 * Width) = k + 1
          <5>1. (j \div (2 * Width)) - 1 \in Nat
            BY <4>3, <4>5
          <5> QED BY <4>3, <5>1
        <4>7. j = k * (2 * Width) + 2 * Width /\ k * (2 * Width) \in Nat
          BY <1>1, <4>4, <4>6
        <4>8. location >= Width
          BY <1>1, <4>1, <4>7
        <4>9. ((xres - Width) * colors) \div 4 \in Int /\ ((xres - Width) * colors) \div 4 >= -Width
          BY <1>1, <3>2
        <4> QED BY <1>1, <4>8, <4>9
      <3> QED BY <1>1, <3>1, <3>2
    <2>3. location' \in Nat
      BY <1>1, <2>1, <2>2
    <2> QED BY <1>1, <1>2, <1>3, <2>1, <2>3, TypeParts, Typed
  <1>5. CASE ~(j % (Width * 2) = 0 /\ j # 0)
    <2>1. out' = Written(out, p) /\ location' = location + Stride \div 2
      BY <1>5 DEF ConvertBlock
    <2>2. y \in 0..(Height - 1) /\ c \in 0..(Width - 1)
      BY <1>2, FrameByte
    <2>3. ASSUME NEW n \in DOMAIN p PROVE p[n] \in Cells
      <3> HIDE DEF c, y
      <3>1. n \in location..(location + Block - 1)
        OBVIOUS
      <3>2. c + n - location \in 0..(Width + Block)
        BY <1>1, <2>2, <3>1
      <3>3. p[n] = <<y, Source(c + n - location)>>
        BY <3>1
      <3>4. ASSUME NEW x \in 0..(Width + Block) PROVE Source(x) \in 0..(Width + Block)
        <4>1. x - (x % 2) \in 0..(Width + Block)
          BY <1>1
        <4> QED BY <4>1
      <3>5. y \in 0..Height
        BY <1>1, <2>2
      <3> HIDE DEF p, Source
      <3> QED BY <3>2, <3>3, <3>4, <3>5 DEF Cells
    <2>4. \A n \in DOMAIN out' : out'[n] = Blank \/ out'[n] \in Cells
      <3> HIDE DEF p
      <3> QED BY <2>1, <2>3, TypedOut
    <2>5. location' \in Nat
      <3> HIDE DEF p
      <3> QED BY <1>1, <2>1
    <2> HIDE DEF p
    <2> QED BY <1>2, <1>3, <2>4, <2>5, Typed
  <1> QED BY <1>4, <1>5
-----------------------------------------------------------------------------
(* The colours.                                                            *)

(* A colour of a pixel of brightness y and chroma part n, shifted with the *)
(* brightness or on its own.                                               *)
Combined(y, n) == clip((298 * y + n + 128) \div 256, 0, 255)
Apart(y, n) == clip(y + (n \div 256), 0, 65535) % 256
Near(s, w) == w - s \in -43..0 \/ s = 255

LEMMA Clipped ==
  ASSUME NEW a \in Int, NEW b \in Int, b >= 0 => b <= a, a < 255 => a - b <= 43
  PROVE  Near(clip(a, 0, 255), clip(b, 0, 65535) % 256)
  <1> DEFINE s == clip(a, 0, 255)
             w == clip(b, 0, 65535) % 256
  <1> SUFFICES ASSUME s # 255 PROVE w - s \in -43..0
    BY DEF Near
  <1>1. s = IF a > 255 THEN 255 ELSE IF a < 0 THEN 0 ELSE a
    BY DEF clip
  <1>2. a < 255
    BY <1>1
  <1>3. w = IF b < 0 THEN 0 ELSE b
    BY <1>2 DEF clip
  <1> QED BY <1>1, <1>2, <1>3

(* Green and red.                                                          *)
LEMMA SameChroma ==
  ASSUME NEW y \in 0..255, NEW n \in Int
  PROVE  Near(Combined(y, n), Apart(y, n))
  <1> DEFINE a == (298 * y + n + 128) \div 256
             b == y + (n \div 256)
  <1>1. a \in Int /\ b \in Int /\ b <= a /\ a - b <= 43
    OBVIOUS
  <1> HIDE DEF a, b
  <1>2. Near(clip(a, 0, 255), clip(b, 0, 65535) % 256)
    BY <1>1, Clipped
  <1> QED BY <1>2 DEF Combined, Apart, a, b

(* Blue: 512 in place of 516.                                              *)
LEMMA BlueChroma ==
  ASSUME NEW y \in 0..255, NEW d \in -128..127
  PROVE  Near(Combined(y, 516 * d), Apart(y, 512 * d))
  <1> DEFINE a == (298 * y + 516 * d + 128) \div 256
             b == y + ((512 * d) \div 256)
  <1>1. (512 * d) \div 256 = 2 * d
    OBVIOUS
  <1>2. a \in Int /\ b = y + 2 * d /\ a = b + ((42 * y + 4 * d + 128) \div 256)
    BY <1>1
  <1>3. b >= 0 => (42 * y + 4 * d + 128) \div 256 >= 0
    BY <1>2
  <1>4. a < 255 => (42 * y + 4 * d + 128) \div 256 <= 43
    BY <1>2
  <1> HIDE DEF a, b
  <1>5. b \in Int /\ (b >= 0 => b <= a) /\ (a < 255 => a - b <= 43)
    BY <1>2, <1>3, <1>4
  <1>6. Near(clip(a, 0, 255), clip(b, 0, 65535) % 256)
    BY <1>2, <1>5, Clipped
  <1> QED BY <1>6 DEF Combined, Apart, a, b

LEMMA PixelClose ==
  ASSUME NEW y \in 0..255, NEW u \in 0..255, NEW v \in 0..255, NEW c \in {"blue", "green", "red"}
  PROVE  Near(Scalar(y, u, v)[c], Vector(y, u, v)[c])
  <1> DEFINE d == u - 128
             e == v - 128
             green == -(100 * d) - 208 * e
             red == 409 * e
  <1>1. d \in -128..127 /\ e \in -128..127 /\ green \in Int /\ red \in Int
    OBVIOUS
  <1>2. /\ Scalar(y, u, v).blue = Combined(y, 516 * d)
        /\ Vector(y, u, v).blue = Apart(y, 512 * d)
        /\ Scalar(y, u, v).green = Combined(y, green) /\ Vector(y, u, v).green = Apart(y, green)
        /\ Scalar(y, u, v).red = Combined(y, red) /\ Vector(y, u, v).red = Apart(y, red)
    BY DEF Scalar, Vector, Combined, Apart
  <1> HIDE DEF d, e, green, red
  <1>3. Near(Scalar(y, u, v).blue, Vector(y, u, v).blue)
    <2>1. y \in 0..255 /\ d \in -128..127
      BY <1>1
    <2>2. Near(Combined(y, 516 * d), Apart(y, 512 * d))
      BY <2>1, BlueChroma, Zenon
    <2> QED BY <1>2, <2>2
  <1>4. Near(Scalar(y, u, v).green, Vector(y, u, v).green)
    BY <1>1, <1>2, SameChroma
  <1>5. Near(Scalar(y, u, v).red, Vector(y, u, v).red)
    BY <1>1, <1>2, SameChroma
  <1> QED BY <1>3, <1>4, <1>5

(* For each of the 256^3 pixels of a camera, and not only the levels that  *)
(* a run compares: a colour of the vector code is at most 43 below that of *)
(* the scalar code, never above it, unless this one is clipped at 255.     *)
THEOREM ColoursClose ==
  \A y, u, v \in 0..255 :
    LET s == Scalar(y, u, v)  w == Vector(y, u, v)
    IN \A c \in {"blue", "green", "red"} : w[c] - s[c] \in -43..0 \/ s[c] = 255
  <1> SUFFICES ASSUME NEW y \in 0..255, NEW u \in 0..255, NEW v \in 0..255,
                      NEW c \in {"blue", "green", "red"}
               PROVE  \/ Vector(y, u, v)[c] - Scalar(y, u, v)[c] \in -43..0
                      \/ Scalar(y, u, v)[c] = 255
    OBVIOUS
  <1>1. Near(Scalar(y, u, v)[c], Vector(y, u, v)[c])
    BY PixelClose
  <1> QED BY <1>1 DEF Near
-----------------------------------------------------------------------------
(* The invariant.                                                          *)

ImageInv == ImageTypeOK /\ ImageBuffers /\ RowInv /\ TexelInv /\ BlockInv

LEMMA ImageStart == ImageInit(Ways) => ImageInv
  <1> SUFFICES ASSUME ImageInit(Ways) PROVE ImageInv
    OBVIOUS
  <1>1. /\ way \in Ways /\ colors \in {2, 4} /\ xres \in Screens /\ yres \in Lines
        /\ line = 0 /\ j = 0 /\ location = 0 /\ count = 0 /\ overrun = FALSE
        /\ out = [n \in Places |-> Blank] /\ file = [n \in 0..(Width * Height - 1) |-> Blank]
    BY DEF ImageInit
  <1>2. /\ Width \in Nat \ {0} /\ Height \in Nat \ {0} /\ Block \in Nat \ {0}
        /\ Width \div Block \in Nat \ {0} /\ 2 * Width \in Nat \ {0} /\ Height * (2 * Width) \in Nat
    BY Sizes, Blocks
  <1>3. ImageTypeOK
    <2>1. \A n \in DOMAIN out : out[n] = Blank
      BY <1>1
    <2>2. {line, j, location, count} \subseteq Nat
      BY <1>1
    <2>3. overrun \in BOOLEAN
      BY <1>1
    <2> QED BY <1>1, <2>1, <2>2, <2>3 DEF ImageTypeOK
  <1>4. Wide \in Nat \ {0} /\ xres \in Nat \ {0}
    BY <1>3, WideFacts
  <1>5. ImageBuffers
    BY <1>1 DEF ImageBuffers
  <1>6. Painted
    <2> SUFFICES ASSUME NEW n \in Places PROVE out[n] = IF n < location THEN Converted(n) ELSE Blank
      BY DEF Painted
    <2>1. out[n] = Blank
      BY <1>1
    <2>2. n \in Nat /\ ~(n < location)
      BY <1>1, <1>3, PlacesAre
    <2> QED BY <2>1, <2>2
  <1>7. RowInv
    <2>1. Copied(j) = 0 /\ Column = 0
      BY <1>1, <1>2 DEF Copied, Column
    <2>2. 0 * Wide = 0
      BY <1>4
    <2>3. RowCursor
      BY <1>1, <1>2, <1>4, <2>1, <2>2 DEF RowCursor
    <2>4. Saved
      <3> SUFFICES ASSUME NEW y \in 0..(Height - 1), NEW x \in 0..(Width - 1)
                   PROVE  ~(y < line \/ (y = line /\ x < count))
        BY DEF Saved
      <3> QED BY <1>1, <1>2
    <2> QED BY <1>1, <1>6, <2>3, <2>4 DEF RowInv
  <1>8. TexelInv
    BY <1>1, <1>2, <1>6 DEF TexelInv
  <1>9. BlockInv
    <2>1. BlockCursor
      <3>1. 0 \in 0..(Height - 1) /\ 0 \in 0..(Width \div Block)
        BY <1>2
      <3>2. j = 0 * (2 * Width) + 2 * (0 * Block) /\ location = 0 * xres + 0 * Block
        BY <1>1, <1>2, <1>4
      <3> QED BY <3>1, <3>2 DEF BlockCursor
    <2>2. 2 * location = j
      BY <1>1
    <2> QED BY <1>1, <1>6, <2>1, <2>2 DEF BlockInv
  <1> QED BY <1>3, <1>5, <1>7, <1>8, <1>9 DEF ImageInv

(* A step of one kind of loop leaves the invariants of the others, which   *)
(* are about other programs.                                               *)
LEMMA RowLoop ==
  ASSUME ImageInv, ConvertPair \/ SkipRest \/ NextLine
  PROVE  ImageInv'
  <1>1. ImageTypeOK /\ ImageBuffers /\ RowInv
    BY DEF ImageInv
  <1>2. Rows /\ Settled /\ way' = way
    BY DEF ConvertPair, SkipRest, NextLine, Settled
  <1>3. RowInv'
    BY <1>1, ConvertPairRow, SkipRestRow, NextLineRow
  <1>4. DOMAIN out' = DOMAIN out /\ DOMAIN file' = DOMAIN file
    BY DEF ConvertPair, SkipRest, NextLine, Written
  <1>5. ImageBuffers'
    BY <1>1, <1>2, <1>4, SettledFacts DEF ImageBuffers
  <1>6. TexelInv' /\ BlockInv'
    BY <1>2 DEF Rows, TexelInv, BlockInv, Neon, NeonFilter, ToTexture, ToFile, ToScreen, ToQt
  <1> QED BY <1>1, <1>3, <1>5, <1>6, RowTypes DEF ImageInv

LEMMA ImageStep == ImageInv /\ [ImageNext]_imageVars => ImageInv'
  <1> SUFFICES ASSUME ImageInv, [ImageNext]_imageVars PROVE ImageInv'
    OBVIOUS
  <1>1. ImageTypeOK /\ ImageBuffers /\ RowInv /\ TexelInv /\ BlockInv
    BY DEF ImageInv
  <1>2. CASE ConvertPair \/ SkipRest \/ NextLine
    BY <1>2, RowLoop
  <1>3. CASE ~overrun /\ ConvertTexel
    <2>1. ImageTypeOK' /\ TexelInv'
      BY <1>1, <1>3, TexelTypes, ConvertTexelKeeps DEF TexelInv, ConvertTexel
    <2>2. /\ way' = way /\ way = ToTexture /\ Settled
          /\ DOMAIN out' = DOMAIN out /\ file' = file
      BY <1>3 DEF ConvertTexel, Settled, Written
    <2>4. ImageBuffers'
      BY <1>1, <2>2, SettledFacts DEF ImageBuffers
    <2>3. RowInv' /\ BlockInv'
      BY <2>2 DEF RowInv, Rows, BlockInv, Neon, NeonFilter, ToTexture, ToFile, ToScreen, ToQt
    <2> QED BY <2>1, <2>3, <2>4 DEF ImageInv
  <1>4. CASE ~overrun /\ ConvertBlock
    <2>1. ImageTypeOK' /\ BlockInv' /\ ImageBuffers'
      BY <1>1, <1>4, BlockTypes, ConvertBlockKeeps
    <2>2. way' = way /\ way \in {Neon, NeonFilter}
      BY <1>4 DEF ConvertBlock
    <2>3. RowInv' /\ TexelInv'
      BY <2>2 DEF RowInv, Rows, TexelInv, Neon, NeonFilter, ToTexture, ToFile, ToScreen, ToQt
    <2> QED BY <2>1, <2>3 DEF ImageInv
  <1>5. CASE UNCHANGED imageVars
    <2>1. Settled /\ line' = line /\ j' = j /\ location' = location /\ count' = count
          /\ out' = out /\ file' = file /\ overrun' = overrun
      BY <1>5 DEF imageVars, Settled
    <2>2. /\ Places' = Places /\ Wide' = Wide /\ \A n : Converted(n)' = Converted(n)
          /\ Rows' = Rows /\ way' = way /\ colors' = colors /\ xres' = xres /\ yres' = yres
          /\ Tall' = Tall
      BY <2>1, SettledFacts DEF Settled
    <2>3. ImageTypeOK'
      BY <1>1, <2>1, TypeParts, Typed
    <2>4. ImageBuffers'
      BY <1>1, <2>1, <2>2 DEF ImageBuffers
    <2>5. Painted => Painted'
      BY <2>1, <2>2 DEF Painted
    <2>6. RowInv'
      BY <1>1, <2>1, <2>2, <2>5 DEF RowInv, RowCursor, Saved, Column, Copied
    <2>7. TexelInv'
      BY <1>1, <2>1, <2>2, <2>5 DEF TexelInv
    <2>8. BlockInv'
      BY <1>1, <2>1, <2>2, <2>5 DEF BlockInv, BlockCursor
    <2> QED BY <2>3, <2>4, <2>6, <2>7, <2>8 DEF ImageInv
  <1> QED BY <1>2, <1>3, <1>4, <1>5 DEF ImageNext

-----------------------------------------------------------------------------
(* At the end.                                                             *)

(* Behind the last line of the frame there is nothing.                     *)
LEMMA BelowFrame ==
  ASSUME ImageTypeOK, NEW n \in Places, ~(n < Height * Wide)
  PROVE  Converted(n) = Blank
  <1>1. Wide \in Nat \ {0} /\ Height \in Nat \ {0} /\ n \in Nat
    BY WideFacts, Sizes, PlacesAre
  <1>2. ~(n \div Wide < Height) /\ n \div Wide \in Nat
    BY <1>1, Divided, LineWithin
  <1>3. n \div Wide >= Height
    BY <1>1, <1>2
  <1> QED BY <1>3 DEF Converted

LEMMA PaintedDone ==
  ASSUME ImageTypeOK, Painted, location = Height * Wide
  PROVE  \A n \in Places : out[n] = Converted(n)
  <1> SUFFICES ASSUME NEW n \in Places PROVE out[n] = Converted(n)
    OBVIOUS
  <1>1. out[n] = IF n < location THEN Converted(n) ELSE Blank
    BY DEF Painted
  <1>2. ~(n < location) => Converted(n) = Blank
    BY BelowFrame
  <1> QED BY <1>1, <1>2

LEMMA RowsDone ==
  ASSUME ImageInv, Rows, colors = 4, Tall, ~Loop
  PROVE  /\ \A n \in Places : out[n] = Converted(n)
         /\ way = ToFile /\ xres >= Width =>
              \A y \in 0..(Height - 1), x \in 0..(Width - 1) :
                file[(Height - 1 - y) * Width + x] = <<y, x>>
  <1>1. ImageTypeOK /\ RowCursor /\ Painted /\ Saved
    BY DEF ImageInv, RowInv
  <1>2. /\ Wide \in Nat \ {0} /\ xres \in Nat \ {0} /\ Width \in Nat \ {0} /\ Height \in Nat \ {0}
        /\ Height * Wide \in Nat
    BY <1>1, WideFacts, Sizes
  <1>3. line = Height /\ j = 0
    BY <1>1, <1>2 DEF RowCursor, Loop
  <1>4. location = Height * Wide
    <2>1. Column = 0
      BY <1>2, <1>3 DEF Column, Copied
    <2> QED BY <1>1, <1>2, <1>3, <2>1 DEF RowCursor
  <1>5. \A n \in Places : out[n] = Converted(n)
    BY <1>1, <1>4, PaintedDone
  <1>6. ASSUME way = ToFile, xres >= Width, NEW y \in 0..(Height - 1), NEW x \in 0..(Width - 1)
        PROVE  file[(Height - 1 - y) * Width + x] = <<y, x>>
    <2>1. y < line
      BY <1>2, <1>3
    <2> QED BY <1>1, <1>6, <2>1 DEF Saved
  <1> QED BY <1>5, <1>6

LEMMA TexelsDone ==
  ASSUME ImageInv, way = ToTexture, colors = 4, ~Loop
  PROVE  \A n \in Places : out[n] = Converted(n)
  <1>1. /\ ImageTypeOK /\ j \in 0..(Height * (2 * Width)) /\ location = j \div 2 /\ Painted
    BY DEF ImageInv, TexelInv
  <1>2. /\ Width \in Nat \ {0} /\ Height \in Nat \ {0} /\ Height * Width \in Nat
        /\ Width * Height * 2 = Height * (2 * Width)
        /\ Height * (2 * Width) = 2 * (Height * Width)
    BY Sizes
  <1>3. ~Rows /\ Wide = Width
    BY DEF Rows, Wide, ToTexture, ToFile, ToScreen, ToQt
  <1>4. j = 2 * (Height * Width)
    BY <1>1, <1>2, <1>3 DEF Loop
  <1>5. location = Height * Wide
    BY <1>1, <1>2, <1>3, <1>4
  <1> QED BY <1>1, <1>5, PaintedDone

LEMMA BlocksDone ==
  ASSUME ImageInv, way \in {Neon, NeonFilter}, colors = 4, xres >= Width, yres >= Height, ~Loop
  PROVE  \A n \in Places : out[n] = Converted(n)
  <1>1. ImageTypeOK /\ BlockCursor /\ Painted
    BY DEF ImageInv, BlockInv
  <1>2. /\ Width \in Nat \ {0} /\ Block \in Nat \ {0} /\ Height \in Nat \ {0} /\ xres \in Nat \ {0}
        /\ Width \div Block \in Nat \ {0} /\ Width = (Width \div Block) * Block
        /\ Width * Height * 2 = Height * (2 * Width) /\ 2 * Width \in Nat \ {0}
    BY <1>1, Sizes, WideFacts, Blocks
  <1>3. PICK y \in 0..(Height - 1), m \in 0..(Width \div Block) :
          j = y * (2 * Width) + 2 * (m * Block) /\ location = y * xres + m * Block
    BY <1>1 DEF BlockCursor
  <1>4. ~Rows /\ ~Packed /\ Wide = xres
    BY DEF Rows, Packed, Wide, Neon, NeonFilter, ToTexture, ToFile, ToScreen, ToQt
  <1>5. y \in Nat /\ m \in Nat /\ m * Block \in Nat /\ y * (2 * Width) \in Nat /\ y * xres \in Nat
    BY <1>2
  <1>6. m * Block <= Width
    <2>1. CASE m = Width \div Block
      BY <1>2, <2>1
    <2>2. CASE m < Width \div Block
      <3>1. m * Block + Block <= Width
        BY <1>2, <1>5, <2>2, LineBefore
      <3> QED BY <1>2, <1>5, <3>1
    <2> QED BY <1>2, <1>5, <2>1, <2>2
  <1>7. Height * (2 * Width) <= j
    <2>1. j \in Nat /\ Height * (2 * Width) \in Nat
      BY <1>2, <1>3, <1>5
    <2> QED BY <1>2, <1>4, <2>1 DEF Loop
  <1>8. y = Height - 1
    <2> SUFFICES ASSUME y + 1 < Height PROVE FALSE
      BY <1>2
    <2>1. (y + 1) * (2 * Width) + 2 * Width <= Height * (2 * Width)
      BY <1>2, <1>5, LineBefore
    <2>2. (y + 1) * (2 * Width) = y * (2 * Width) + 2 * Width
      BY <1>2, <1>5
    <2>3. Height * (2 * Width) \in Nat
      BY <1>2
    <2> QED BY <1>2, <1>3, <1>5, <1>6, <1>7, <2>1, <2>2, <2>3
  <1>9. Height * (2 * Width) = y * (2 * Width) + 2 * Width /\ Height * xres = y * xres + xres
    <2>1. Height = y + 1
      BY <1>2, <1>8
    <2> QED BY <1>2, <1>5, <2>1
  <1>10. location = y * xres + Width
    <2>1. m * Block = Width
      BY <1>2, <1>3, <1>5, <1>6, <1>7, <1>9
    <2> QED BY <1>3, <2>1
  <1>11. ASSUME NEW n \in Places PROVE out[n] = Converted(n)
    <2>1. n \in Nat
      BY <1>1, PlacesAre
    <2>2. CASE n < location
      BY <1>1, <2>2 DEF Painted
    <2>3. CASE ~(n < location) /\ n < Height * xres
      <3>1. y * xres + Width <= n /\ n < y * xres + xres + Block
        BY <1>2, <1>5, <1>9, <1>10, <2>1, <2>3
      <3>2. Converted(n) = Blank
        BY <1>1, <1>5, <2>1, <3>1, LineEnd
      <3>3. out[n] = Blank
        BY <1>1, <2>3 DEF Painted
      <3> QED BY <3>2, <3>3
    <2>4. CASE ~(n < location) /\ ~(n < Height * xres)
      <3>1. Converted(n) = Blank
        BY <1>1, <1>4, <2>1, <2>4, BelowFrame
      <3>2. out[n] = Blank
        BY <1>1, <2>4 DEF Painted
      <3> QED BY <3>1, <3>2
    <2> QED BY <2>2, <2>3, <2>4
  <1> QED BY <1>11

(* What the loops write is what belongs to the place, wherever the lines   *)
(* they count are those of the image.                                      *)
LEMMA ConvertedRight ==
  ASSUME ImageTypeOK, way # ToQt \/ xres >= Width, NEW n \in Places
  PROVE  Converted(n) = IF LeftOut(n) THEN Blank ELSE Pixel(n)
  <1> DEFINE y == n \div Wide
             x == n % Wide
  <1>1. /\ Wide \in Nat \ {0} /\ Width \in Nat \ {0} /\ Height \in Nat \ {0} /\ n \in Nat
        /\ y \in Nat /\ x \in Nat
    <2>1. /\ Wide \in Nat \ {0} /\ Width \in Nat \ {0} /\ Height \in Nat \ {0} /\ n \in Nat
      BY WideFacts, Sizes, PlacesAre
    <2>2. y \in Nat /\ x \in 0..(Wide - 1)
      BY <2>1, Divided
    <2> QED BY <2>1, <2>2
  <1>2. Wide = IF Packed THEN Width ELSE xres
    BY DEF Wide, Packed, ToTexture, ToQt
  <1>3. Pixel(n) = IF y < Height /\ x < Width
                     THEN <<y, IF way = NeonFilter THEN x - (x % 2) ELSE x>> ELSE Blank
    BY <1>2 DEF Pixel
  <1>4. LeftOut(n) <=> ~Rows /\ ~Packed /\ y > 0 /\ x < Block
    BY <1>2 DEF LeftOut
  <1>5. Converted(n) = IF \/ y >= Height
                          \/ x >= Width
                          \/ ~Rows /\ ~Packed /\ y > 0 /\ x < Block
                         THEN Blank ELSE <<y, IF way = NeonFilter THEN x - (x % 2) ELSE x>>
    BY DEF Converted
  <1> HIDE DEF x, y
  <1>6. (y >= Height <=> ~(y < Height)) /\ (x >= Width <=> ~(x < Width))
    BY <1>1
  <1> QED BY <1>3, <1>4, <1>5, <1>6

(* The colours at the levels of a run.                                     *)
LEMMA LevelsClose ==
  ASSUME NEW y \in Levels, NEW u \in Levels, NEW v \in Levels, NEW c \in {"blue", "green", "red"}
  PROVE  Alike(Scalar(y, u, v), Vector(y, u, v), c)
  <1>1. Levels \subseteq 0..255
    BY DEF Levels
  <1>2. Near(Scalar(y, u, v)[c], Vector(y, u, v)[c])
    BY <1>1, PixelClose
  <1> QED BY <1>2 DEF Near, Alike

(* The filter's mask follows the blue of the second pixel.                 *)
Masked(y0, y1, u, v) ==
  LET f == Filter(y0, y1, u, v)  second == Scalar(y1, u, v).blue
  IN /\ \A c \in {"blue", "green"} : Alike(Scalar(y0, u, v), f, c)
     /\ second <= 64 => f.red = 0
     /\ second \in 108..254 => f.red = 255

LEMMA MaskClose ==
  ASSUME NEW y0 \in 0..255, NEW y1 \in 0..255, NEW u \in 0..255, NEW v \in 0..255
  PROVE  Masked(y0, y1, u, v)
  <1> DEFINE f == Filter(y0, y1, u, v)
             s == Scalar(y1, u, v).blue
             w == Vector(y1, u, v).blue
  <1>1. DOMAIN Vector(y0, u, v) = {"blue", "green", "red"}
    BY DEF Vector
  <1>2. /\ f.blue = Vector(y0, u, v).blue /\ f.green = Vector(y0, u, v).green
        /\ f.red = IF w > 64 THEN 255 ELSE 0
    BY <1>1 DEF Filter
  <1>3. \A c \in {"blue", "green"} : Near(Scalar(y0, u, v)[c], Vector(y0, u, v)[c])
    BY PixelClose
  <1>4. Near(s, w)
    BY PixelClose
  <1>5. s \in Int /\ w \in Int
    <2>1. s = Combined(y1, 516 * (u - 128)) /\ w = Apart(y1, 512 * (u - 128))
      BY DEF Scalar, Vector, Combined, Apart
    <2>2. (298 * y1 + 516 * (u - 128) + 128) \div 256 \in Int
      OBVIOUS
    <2>3. y1 + ((512 * (u - 128)) \div 256) \in Int
      OBVIOUS
    <2>4. \A a \in Int : clip(a, 0, 255) \in Int /\ clip(a, 0, 65535) % 256 \in Int
      BY DEF clip
    <2> QED BY <2>1, <2>2, <2>3, <2>4 DEF Combined, Apart
  <1>6. \A c \in {"blue", "green"} : Alike(Scalar(y0, u, v), f, c)
    BY <1>2, <1>3 DEF Near, Alike
  <1> HIDE DEF f, s, w
  <1>7. (s <= 64 => ~(w > 64)) /\ (s \in 108..254 => w > 64)
    BY <1>4, <1>5 DEF Near
  <1>8. (s <= 64 => f.red = 0) /\ (s \in 108..254 => f.red = 255)
    BY <1>2, <1>7
  <1> QED BY <1>6, <1>8 DEF f, s, Masked

LEMMA MaskLevels ==
  \A y0, y1, u, v \in Levels : Masked(y0, y1, u, v)
  <1>1. \A y \in Levels : y \in 0..255
    BY DEF Levels
  <1> QED BY <1>1, MaskClose

LEMMA RightAtTheEnd == ImageInv => ImageIsRight
  <1> SUFFICES ASSUME ImageInv, Fits
               PROVE  /\ ~overrun
                      /\ ~Loop =>
                         /\ \A n \in Places : out[n] = Converted(n)
                         /\ way = ToFile /\ xres >= Width =>
                              \A y \in 0..(Height - 1), x \in 0..(Width - 1) :
                                file[(Height - 1 - y) * Width + x] = <<y, x>>
    <2>1. ImageInv => ImageTypeOK
      BY DEF ImageInv
    <2>2. ImageInv /\ (way # ToQt \/ xres >= Width) =>
            \A n \in Places : Converted(n) = IF LeftOut(n) THEN Blank ELSE Pixel(n)
      BY <2>1, ConvertedRight
    <2>3. \A y, u, v \in Levels, c \in {"blue", "green", "red"} :
            Alike(Scalar(y, u, v), Vector(y, u, v), c)
      BY LevelsClose
    <2> SUFFICES ASSUME ImageInv, Fits PROVE ImageIsRight!2
      BY DEF ImageIsRight
    <2>4. /\ ~overrun
          /\ ~Loop =>
             /\ \A n \in Places : out[n] = Converted(n)
             /\ way = ToFile /\ xres >= Width =>
                  \A y \in 0..(Height - 1), x \in 0..(Width - 1) :
                    file[(Height - 1 - y) * Width + x] = <<y, x>>
      OBVIOUS
    <2> QED BY <2>2, <2>3, <2>4, MaskLevels DEF Masked
  <1>1. way \in Ways /\ RowInv /\ TexelInv /\ BlockInv /\ colors = 4
    BY DEF ImageInv, ImageTypeOK, Fits
  <1>2. CASE Rows
    <2>1. Tall
      BY <1>2 DEF Fits, Tall
    <2>2. ~overrun
      BY <1>1, <1>2, <2>1 DEF RowInv
    <2> QED BY <1>1, <1>2, <2>1, <2>2, RowsDone
  <1>3. CASE way = ToTexture
    <2>1. ~overrun /\ way # ToFile
      BY <1>1, <1>3 DEF TexelInv, ToTexture, ToFile
    <2> QED BY <1>1, <1>3, <2>1, TexelsDone
  <1>4. CASE way \in {Neon, NeonFilter}
    <2>1. way # ToFile /\ xres >= Width /\ yres >= Height
      BY <1>4 DEF Fits, Rows, Packed, Neon, NeonFilter, ToFile, ToScreen, ToQt, ToTexture
    <2>2. ~overrun
      BY <1>1, <1>4, <2>1 DEF BlockInv
    <2> QED BY <1>1, <1>4, <2>1, <2>2, BlocksDone
  <1> QED BY <1>1, <1>2, <1>3, <1>4 DEF Ways, Rows

(* The variables of a conversion keep their types: for a frame and screens *)
(* of any even width and any height.                                       *)
THEOREM ImageTypeCorrect == ImageSpec => []ImageTypeOK
  <1>1. ImageInv => ImageTypeOK
    BY DEF ImageInv
  <1> QED BY <1>1, ImageStart, ImageStep, PTL DEF ImageSpec

(* processImage of each of the six programs, for a frame of any size and   *)
(* every screen of 32 bits that it fits: nothing is written outside of the *)
(* buffers, and when the loop ends each place holds the pixel of the frame *)
(* that belongs there, but for the blocks the NEON loops leave out.        *)
THEOREM ImageCorrect == ImageSpec => []ImageIsRight
  BY ImageStart, ImageStep, RightAtTheEnd, PTL DEF ImageSpec
=============================================================================
