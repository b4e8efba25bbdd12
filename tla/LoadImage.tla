------------------------------ MODULE LoadImage ------------------------------
(***************************************************************************)
(* load_image (configure_vga.c): a program of the HAL's file calls that    *)
(* copies a bitmap from the host file system into the frame buffer, which  *)
(* the VGA controller shows.  The stream between fgetc and ALT_READ is the *)
(* C library's: each fgetc gives the next byte of the file, or EOF when    *)
(* the file is over or when a read of the host fails, which leaves the     *)
(* stream where it was.  load_image never looks for EOF.  A byte behind    *)
(* the header is known by its offset.                                      *)
(***************************************************************************)
EXTENDS HalFiles

CONSTANTS Image,     \* the name load_image opens
          ByteSpace, \* values of a byte, 2^8
          Bmp,       \* what the file may hold: a bitmap's header, and how much of the file there is
          MaxFails,  \* bound: reads of the host that fail while one picture is loaded
          Early      \* bound: load_image is called before any other file call that
                     \* leaves a trace in the table, or (FALSE) at any time

Dword == ByteSpace * ByteSpace * ByteSpace * ByteSpace
Weight == <<1, ByteSpace, ByteSpace * ByteSpace, ByteSpace * ByteSpace * ByteSpace>>

\* The header's fields: a number of four bytes at offset p, or of two.
Four(h, p) == h[p] + Weight[2] * h[p + 1] + Weight[3] * h[p + 2] + Weight[4] * h[p + 3]
Width(b) == Four(b.header, 18)
Height(b) == Four(b.header, 22)
BitCount(b) == b.header[28] + Weight[2] * b.header[29]
Colours(b) == Four(b.header, 46)

ASSUME ImageAssumption == Image \in File /\ {} \in Mode
ASSUME LoadAssumption == ByteSpace \in Nat /\ ByteSpace > 25 /\ MaxFails \in Nat /\ Early \in BOOLEAN
\* A bitmap has one plane, a picture whose bytes can be addressed, and a table
\* that fits the file; the file may be cut off anywhere.
ASSUME BmpAssumption ==
  \A b \in Bmp :
    /\ b.magic \in BOOLEAN /\ b.length \in Nat /\ (b.magic => b.length >= 2)
    /\ \A p \in 2..53 : b.header[p] \in 0..(ByteSpace - 1)
    /\ b.header[26] = 1 /\ b.header[27] = 0
    /\ Width(b) > 0 /\ Height(b) > 0 /\ Width(b) * Height(b) <= Dword \div 4
    /\ 4 * Colours(b) < Dword

VARIABLES at,    \* where load_image is
          file,  \* its descriptor
          bmp,   \* what the file holds
          byte,  \* calls of fgetc that no failed read has met
          fails, \* those that one has
          shift, \* history: fails when the header had been read
          i, j,  \* its loop variables
          width, height, bits, offset, \* from the header; bits is BitsPerPixel
          fb,    \* the bytes written to each word of the frame buffer
          good   \* history: the words written before any read had failed

header == <<width, height, bits, offset>>
load == <<at, file, bmp, byte, fails, shift, i, j, header, fb, good>>

EOF == -1
NoBmp == [magic |-> FALSE, header |-> << >>, length |-> 0]
Rest ==
  /\ at = "idle" /\ file = -1 /\ bmp = NoBmp /\ byte = 0 /\ fails = 0 /\ shift = 0
  /\ i = 0 /\ j = 0 /\ width = 0 /\ height = 0 /\ bits = 0 /\ offset = 0
  /\ fb = << >> /\ good = {}

LoadInit == Init /\ Rest

\* fopen; without the file the program exits.
LoadOpen ==
  /\ at = "idle" /\ stage = "main" /\ DOMAIN held = Std
  /\ Early => /\ \A c \in Fd : fds[c].priv = 0
              /\ \A c \in Std : fds[c].flags = held[c].access \union {"DEV"}
  /\ AltOpen(Image, {})
  /\ bmp' \in Bmp
  /\ IF held' # held THEN at' = "magic" /\ file' \in DOMAIN held' \ DOMAIN held
                     ELSE at' = "exit" /\ file' = file
  /\ UNCHANGED <<byte, fails, shift, i, j, header, fb, good>>

\* The C library fills its buffer, at any fgetc.
Reading == {"magic", "header", "table", "rows", "pixels"}
LoadRefill == at \in Reading /\ AltRead(file) /\ UNCHANGED load

\* The first two bytes.  When they are not those of a bitmap, or one of them
\* cannot be read, the file is closed and the program ends.
LoadMagic ==
  /\ at = "magic"
  /\ \/ /\ bmp.magic
        /\ at' = "header" /\ byte' = 2 /\ i' = 1 /\ UNCHANGED vars
     \/ /\ ~bmp.magic \/ MaxFails > 0
        /\ at' = "exit" /\ AltClose(file) /\ UNCHANGED <<byte, i>>
  /\ UNCHANGED <<file, bmp, fails, shift, j, header, fb, good>>

\* What a byte of the header becomes in the byte variable: EOF is its last value.
HeaderByte(p) == IF p < bmp.length THEN bmp.header[p] ELSE ByteSpace - 1
\* What case labels first, first + 1, ... add for the byte v.
Term(v, first, size) == IF i \in first..(first + size - 1) THEN Weight[i - first + 1] * v ELSE 0

LoadHeader ==
  /\ at = "header"
  /\ \E lost \in {0, 1} :
       LET v == IF lost = 1 THEN ByteSpace - 1 ELSE HeaderByte(byte) IN
       /\ fails + lost <= MaxFails
       /\ fails' = fails + lost /\ shift' = fails' /\ byte' = byte + 1 - lost
       /\ width' = width + Term(v, 17, 4) /\ height' = height + Term(v, 21, 4)
       /\ bits' = bits + Term(v, 27, 2) /\ offset' = offset + Term(v, 45, 4)
  /\ i' = i + 1 /\ at' = IF i < 52 THEN "header" ELSE "table"
  /\ UNCHANGED <<vars, file, bmp, j, fb, good>>

\* A dword as an int.
Signed(x) == IF x < Dword \div 2 THEN x ELSE x - Dword

\* Fault: one byte a colour.
TableBytesOne == offset % Dword
\* Over the colour table, four bytes a colour, to the pixels.
TableBytes == (4 * offset) % Dword
LoadTable ==
  /\ at = "table"
  /\ \E lost \in 0..(MaxFails - fails) :
       lost <= TableBytes /\ fails' = fails + lost /\ byte' = byte + TableBytes - lost
  /\ IF bits = 24 THEN at' = "rows" /\ i' = Signed((height - 1) % Dword)
                  ELSE at' = "close" /\ UNCHANGED i
  /\ UNCHANGED <<vars, file, bmp, shift, j, header, fb, good>>

\* The rows from the bottom one up.
LoadRow ==
  /\ at = "rows"
  /\ IF i >= 0 THEN at' = "pixels" /\ j' = 0 ELSE at' = "close" /\ UNCHANGED j
  /\ UNCHANGED <<vars, file, bmp, byte, fails, shift, i, header, fb, good>>

LoadRowEnd ==
  /\ at = "pixels" /\ j >= width
  /\ at' = "rows" /\ i' = i - 1
  /\ UNCHANGED <<vars, file, bmp, byte, fails, shift, j, header, fb, good>>

Fgetc(p) == IF p < bmp.length THEN p ELSE EOF
\* The word that address points to.
Address == (i * width + j) % (Dword \div 4)
\* One pixel: blue, green and red are read, and four bytes written.
LoadPixel ==
  /\ at = "pixels" /\ j < width
  /\ \E lostB, lostG, lostR \in {0, 1} :
       LET B == IF lostB = 1 THEN EOF ELSE Fgetc(byte)
           G == IF lostG = 1 THEN EOF ELSE Fgetc(byte + 1 - lostB)
           R == IF lostR = 1 THEN EOF ELSE Fgetc(byte + 2 - lostB - lostG)
           lost == lostB + lostG + lostR
       IN /\ fails + lost <= MaxFails /\ fails' = fails + lost /\ byte' = byte + 3 - lost
          /\ fb' = [a \in DOMAIN fb \union {Address} |->
                      IF a = Address THEN <<R, R, G, B>> ELSE fb[a]]
          /\ good' = IF fails' = 0 THEN good \union {Address} ELSE good
  /\ j' = j + 1
  /\ UNCHANGED <<vars, at, file, bmp, shift, i, header>>

LoadClose ==
  /\ at = "close" /\ AltClose(file)
  /\ at' = "idle" /\ file' = -1 /\ bmp' = NoBmp /\ byte' = 0 /\ fails' = 0 /\ shift' = 0
  /\ i' = 0 /\ j' = 0 /\ width' = 0 /\ height' = 0 /\ bits' = 0 /\ offset' = 0
  /\ fb' = << >> /\ good' = {}

\* exit(1)
LoadExit ==
  /\ at = "exit" /\ stage = "main" /\ stage' = "exit"
  /\ UNCHANGED <<table, reg, held, load>>

LoadNext ==
  \/ at = "idle" /\ Next /\ UNCHANGED load
  \/ LoadOpen \/ LoadRefill \/ LoadMagic \/ LoadHeader \/ LoadTable
  \/ LoadRow \/ LoadRowEnd \/ LoadPixel \/ LoadClose \/ LoadExit
  \/ at = "exit" /\ Exited /\ UNCHANGED load

LoadSpec == LoadInit /\ [][LoadNext]_<<vars, load>>

-----------------------------------------------------------------------------
(* Properties *)

\* A bitmap's rows are stored bottom first, each filled up to a multiple of
\* four bytes.
Offset(r, c) ==
  LET stride == 4 * ((3 * Width(bmp) + 3) \div 4)
  IN  54 + 4 * Colours(bmp) + (Height(bmp) - 1 - r) * stride + 3 * c

\* The four bytes of a pixel, from its own three bytes of the file
Pixel(r, c) ==
  LET p == Offset(r, c) IN <<Fgetc(p + 2), Fgetc(p + 2), Fgetc(p + 1), Fgetc(p)>>

Written == DOMAIN fb
WordAt(r, c) == r * Width(bmp) + c

\* load_image writes no word outside the file's picture, and none for a file
\* that is not of 24 bits a pixel, wherever the file ends and whichever reads
\* fail, unless four or more fail within the header: a header moved by up to
\* three bytes does not pass for one of 24 bits.
NothingOutside ==
  shift <= 3 => \A a \in Written : BitCount(bmp) = 24 /\ a < Width(bmp) * Height(bmp)

\* The picture stands upright in the frame buffer, each pixel made of its own
\* bytes of the file, if its rows have no filling (load_image skips none): all
\* of it if no read has failed, and else the pixels before the first one that
\* did, which nothing later writes over.
Upright ==
  (3 * Width(bmp)) % 4 = 0 /\ bmp.length >= 54 =>
    \A r \in 0..(Height(bmp) - 1), c \in 0..(Width(bmp) - 1) :
      /\ WordAt(r, c) \in good => fb[WordAt(r, c)] = Pixel(r, c)
      /\ at = "close" /\ fails = 0 /\ BitCount(bmp) = 24 => WordAt(r, c) \in good

\* Both, from the opening of the file to its close.
PictureStored == at \in Reading \union {"close"} => NothingOutside /\ Upright
=============================================================================
