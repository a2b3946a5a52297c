------------------------------ MODULE YuvImage ------------------------------
(***************************************************************************)
(* processImage: a YUYV frame becomes RGB, for the screen's memory, a BMP  *)
(* file, a Qt image or a texture.  bmpCapture.c and v4l2_framebuffer.c go  *)
(* over the width of the screen and count the place to write along,        *)
(* v4l2_framebuffer_neon.c and _filter.c convert a block of 16 pixels at a *)
(* time.  All of them convert the HEIGHT lines of the frame, whatever the  *)
(* screen has.  (draw_camera_shader.c leaves the conversion to its shader, *)
(* its loop is switched off.)  The buffers hold the pixel <<line, column>> *)
(* that was written to each place; places count pixels of four bytes       *)
(* (three in packed ones).                                                 *)
(***************************************************************************)
EXTENDS Integers

CONSTANTS Width, Height,   \* the frame
          Screens, Lines,  \* widths and heights of the screen (vinfo.xres, vinfo.yres)
          Block            \* the 16 pixels of a NEON step

ASSUME ImageAssumption ==
  /\ {Width, Height, Block} \subseteq Nat \ {0}
  /\ Width % 2 = 0 /\ Block % 2 = 0 /\ Width % Block = 0
  /\ Screens \subseteq {n \in Nat \ {0} : n % 2 = 0} /\ Lines \subseteq Nat \ {0}

VARIABLES
  way,              \* the program's processImage
  colors,           \* bytes of a screen pixel (vinfo.bits_per_pixel/8)
  xres, yres,       \* pixels of a line of the screen, and its lines
  line, j,          \* the loops: line and byte of the line; all bytes in the NEON ones
  location, count,  \* the next place on the screen or packed image, and in the file's line
  out, file,        \* the places written
  overrun           \* something was written outside of its buffer

imageVars == <<way, colors, xres, yres, line, j, location, count, out, file, overrun>>

ToFile == "file"         \* bmpCapture.c: screen and file
ToScreen == "screen"     \* v4l2_framebuffer.c
ToQt == "qt"             \* v4l2qt.cpp: packed
ToTexture == "texture"   \* draw_camera.c: packed, one loop
Neon == "neon"
NeonFilter == "filter"
Ways == {ToFile, ToScreen, ToQt, ToTexture, Neon, NeonFilter}

Blank == <<>>
Packed == way \in {ToQt, ToTexture}
Rows == way \in {ToFile, ToScreen, ToQt}
\* data, pixels, or the mapping of the screen.
Room == CASE way = ToQt -> Width * Height
          [] way = ToTexture -> (Width * Height * colors) \div 3
          [] OTHER -> (xres * yres * colors) \div 4
Places == 0..(Room - 1)
Written(buffer, places) == [n \in DOMAIN buffer |-> IF n \in DOMAIN places THEN places[n] ELSE buffer[n]]
Loop == IF Rows THEN line < Height ELSE j < Width * Height * 2

-----------------------------------------------------------------------------
\* Two pixels of the line, to the screen and, in the mirrored line, to the file.
ConvertPair ==
  /\ Rows /\ Loop /\ j < xres * 2 /\ j < Width * 2
  /\ LET places == [n \in {location, location + 1} |-> <<line, j \div 2 + n - location>>]
         row == (Height - line - 1) * Width + count
         saved == [n \in {row, row + 1} |-> <<line, j \div 2 + n - row>>]
     IN /\ out' = Written(out, places)
        /\ file' = IF way = ToFile THEN Written(file, saved) ELSE file
        /\ overrun' = (overrun \/ ~(DOMAIN places \subseteq DOMAIN out)
                       \/ (way = ToFile /\ ~(DOMAIN saved \subseteq DOMAIN file)))
  /\ location' = location + 2 /\ count' = count + 2
  /\ j' = j + colors /\ UNCHANGED <<way, colors, xres, yres, line>>

(* Mutant: the rest of the line is not skipped. *)
RestNotSkipped ==
  /\ Rows /\ Loop /\ j < xres * 2 /\ j >= Width * 2
  /\ j' = j + colors
  /\ UNCHANGED <<way, colors, xres, yres, line, location, count, out, file, overrun>>

\* What the screen is wider than the frame: colors*2 bytes of the screen are skipped.
SkipRest ==
  /\ Rows /\ Loop /\ j < xres * 2 /\ j >= Width * 2
  /\ location' = IF way = ToQt THEN location ELSE location + (colors * 2) \div 4
  /\ j' = j + colors
  /\ UNCHANGED <<way, colors, xres, yres, line, count, out, file, overrun>>

NextLine ==
  /\ Rows /\ Loop /\ j >= xres * 2
  /\ line' = line + 1 /\ j' = 0 /\ count' = 0
  /\ UNCHANGED <<way, colors, xres, yres, location, out, file, overrun>>

ConvertTexel ==
  /\ way = ToTexture /\ Loop
  /\ LET places == [n \in {location, location + 1} |->
                      <<j \div (2 * Width), (j % (2 * Width)) \div 2 + n - location>>]
     IN out' = Written(out, places) /\ overrun' = (overrun \/ ~(DOMAIN places \subseteq DOMAIN out))
  /\ location' = location + 2 /\ j' = j + 4
  /\ UNCHANGED <<way, colors, xres, yres, line, count, file>>

\* A NEON step: j goes over the frame by bits_per_pixel bytes, 2*Block at 32 bits.  At the
\* start of each line but the first the step goes to the end of the screen's line, and the
\* block is left out.  The filter gives both pixels of a pair the colour of the first.
Stride == (Block * colors) \div 2
ConvertBlock ==
  /\ way \in {Neon, NeonFilter} /\ Loop
  /\ IF j % (Width * 2) = 0 /\ j # 0
       THEN /\ overrun' = (overrun \/ xres < Width)
            /\ location' = location + ((xres - Width) * colors) \div 4 + Stride \div 2
            /\ UNCHANGED out
       ELSE LET Source(x) == IF way = NeonFilter THEN x - (x % 2) ELSE x
                places == [n \in location..(location + Block - 1) |->
                             <<j \div (2 * Width), Source((j % (2 * Width)) \div 2 + n - location)>>]
            IN /\ out' = Written(out, places) /\ location' = location + Stride \div 2
               /\ overrun' = (overrun \/ ~(DOMAIN places \subseteq DOMAIN out))
  /\ j' = j + Stride
  /\ UNCHANGED <<way, colors, xres, yres, line, count, file>>

-----------------------------------------------------------------------------
ImageInit(ways) ==
  /\ way \in ways /\ colors \in {2, 4} /\ xres \in Screens /\ yres \in Lines
  /\ line = 0 /\ j = 0 /\ location = 0 /\ count = 0
  /\ out = [n \in Places |-> Blank] /\ file = [n \in 0..(Width * Height - 1) |-> Blank]
  /\ overrun = FALSE

ImageNext == ~overrun /\ (ConvertPair \/ SkipRest \/ NextLine \/ ConvertTexel \/ ConvertBlock)
ImageSpec == ImageInit(Ways) /\ [][ImageNext]_imageVars

-----------------------------------------------------------------------------
(* The colours of one pixel.  \div rounds down, as >> does.                *)

clip(value, min, max) == IF value > max THEN max ELSE IF value < min THEN min ELSE value

Scalar(y, u, v) ==
  LET d == u - 128  e == v - 128
      C(n) == clip((298 * y + n + 128) \div 256, 0, 255)
  IN [blue |-> C(516 * d), green |-> C(-(100 * d) - 208 * e), red |-> C(409 * e)]

\* The chroma part is shifted on its own.  vqmovun_s32 clips to 16 bits, vmovn_u16 then
\* takes the lower eight of them.
Vector(y, u, v) ==
  LET d == u - 128  e == v - 128
      C(n) == clip(y + (n \div 256), 0, 65535) % 256
  IN [blue |-> C(512 * d), green |-> C(-(100 * d) - 208 * e), red |-> C(409 * e)]

\* The filter's blue and green are those of the first pixel of a pair.  Its red is a mask:
\* what the comment calls the red value is c3, the blue of the second.
Filter(y0, y1, u, v) ==
  [Vector(y0, u, v) EXCEPT !.red = IF Vector(y1, u, v).blue > 64 THEN 255 ELSE 0]

-----------------------------------------------------------------------------
(* Properties.                                                             *)

\* On a screen of 16 bits a NEON step advances by half a block, and its last one reads
\* beyond the line.
ImageTypeOK ==
  /\ way \in Ways /\ colors \in {2, 4} /\ xres \in Screens /\ yres \in Lines
  /\ {line, j, location, count} \subseteq Nat /\ overrun \in BOOLEAN
  /\ \A n \in DOMAIN out : out[n] = Blank \/ out[n] \in (0..Height) \X (0..(Width + Block))

\* Values to compare the colours at.
Levels == {32 * n : n \in 0..7} \cup {255}

\* Where a pixel belongs: on the screen in the corner of the same line and column, in a
\* packed image behind the lines before it.  The filter halves the columns.
Pixel(n) ==
  LET wide == IF Packed THEN Width ELSE xres
      y == n \div wide   x == n % wide
  IN IF y < Height /\ x < Width
       THEN <<y, IF way = NeonFilter THEN x - (x % 2) ELSE x>>
       ELSE Blank

\* The first block of every line but the first, which the NEON loops do not convert.
LeftOut(n) == ~Rows /\ ~Packed /\ n \div xres > 0 /\ n % xres < Block

\* Where the code can be right: 32 bits, the screen no lower than the frame, and for the
\* NEON loops no narrower.  The Qt image does not depend on the height.
Fits == colors = 4 /\ (Packed \/ (yres >= Height /\ (Rows \/ xres >= Width)))

Alike(s, w, c) == w[c] - s[c] \in -43..0 \/ s[c] = 255

\* Where it fits, nothing is written outside of the buffers (a lower screen is overrun:
\* the loops go over HEIGHT lines).  At the end each pixel that there is room for is at
\* its place, once, but for the NEON loops' blocks, and the file has the frame upside
\* down; of the Qt image this holds if the screen is no narrower than the frame, on a
\* narrower one its lines are cut and stick together.  The NEON colours are those of the
\* scalar code but for the factor 298/256 of the brightness, as long as these stay below
\* 255, above they wrap around instead of being clipped; the filter's blue and green are
\* those, and its red tells a second pixel with much blue from one with little.
ImageIsRight ==
  Fits =>
    /\ ~overrun
    /\ ~Loop =>
       /\ way # ToQt \/ xres >= Width =>
            \A n \in Places : out[n] = IF LeftOut(n) THEN Blank ELSE Pixel(n)
       /\ way = ToFile /\ xres >= Width =>
            \A y \in 0..(Height - 1), x \in 0..(Width - 1) : file[(Height - 1 - y) * Width + x] = <<y, x>>
       /\ way = Neon => \A y, u, v \in Levels, c \in {"blue", "green", "red"} :
                          Alike(Scalar(y, u, v), Vector(y, u, v), c)
       /\ way = NeonFilter =>
            \A y0, y1, u, v \in Levels :
              LET f == Filter(y0, y1, u, v)  second == Scalar(y1, u, v).blue
              IN /\ \A c \in {"blue", "green"} : Alike(Scalar(y0, u, v), f, c)
                 /\ second <= 64 => f.red = 0
                 /\ second \in 108..254 => f.red = 255
=============================================================================
