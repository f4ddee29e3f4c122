------------------------------ MODULE JpegPath ------------------------------
(***************************************************************************)
(* The pictures of the former transport, around UdpPath: JpegEncoder hands *)
(* the planes of a camera image to TurboJPEG, JpegDecoder makes BGRA of    *)
(* the JPEG that came.  A sample is <<plane, row, column>>, and a pixel    *)
(* the three samples it is made of; what the compression loses is left out.*)
(***************************************************************************)
EXTENDS UdpPath

CONSTANT Image      \* of each frame: its size, and how its planes are laid out

ASSUME ImageAssumption ==
    /\ Image \in [Frames -> [width: Nat, height: Nat, yStride: Nat, uvStride: Nat,
                             uvStep: {1, 2}]]
    /\ \A f \in Frames : /\ Size[f] > 0      \* jpegSize > 0
                         /\ Image[f].width > 1 /\ Image[f].height > 1
                         /\ Image[f].yStride >= Image[f].width
                         /\ Image[f].uvStride >= Image[f].uvStep * (Image[f].width \div 2)

Planes == {"Y", "U", "V"}
Beyond == <<"beyond", 0, 0>>
Between == <<"between", 0, 0>>

\* android.media.Image: the bytes of a plane, which ends with its last sample.
\* The chroma planes may have the samples of the other one between theirs.
CameraPlane(image, plane) ==
    LET step == IF plane = "Y" THEN 1 ELSE image.uvStep
        stride == IF plane = "Y" THEN image.yStride ELSE image.uvStride
        width == IF plane = "Y" THEN image.width ELSE image.width \div 2
        height == IF plane = "Y" THEN image.height ELSE image.height \div 2
    IN [k \in 0 .. (height - 1) * stride + (width - 1) * step |->
           IF (k % stride) % step = 0 /\ (k % stride) \div step < width
           THEN <<plane, k \div stride, (k % stride) \div step>>
           ELSE Between]

At(buffer, k) == IF k \in DOMAIN buffer THEN buffer[k] ELSE Beyond

ChromaW(image) == image.width \div 2
ChromaH(image) == image.height \div 2

\* Mutant: the row stride is taken for the width of the image.
DeinterleaveTight(image, plane) ==
    [k \in 0 .. ChromaW(image) * ChromaH(image) - 1 |->
        At(CameraPlane(image, plane),
           (k \div ChromaW(image)) * image.width + (k % ChromaW(image)) * 2)]

Deinterleave(image, plane) ==
    [k \in 0 .. ChromaW(image) * ChromaH(image) - 1 |->
        At(CameraPlane(image, plane),
           (k \div ChromaW(image)) * image.uvStride + (k % ChromaW(image)) * 2)]

\* srcPlanes and strides of compressI420.
SrcPlane(image, plane) ==
    IF plane = "Y" \/ image.uvStep = 1
    THEN CameraPlane(image, plane) ELSE Deinterleave(image, plane)
SrcStride(image, plane) ==
    CASE plane = "Y" -> image.yStride
      [] plane # "Y" /\ image.uvStep = 1 -> image.uvStride
      [] plane # "Y" /\ image.uvStep # 1 -> ChromaW(image)

\* TurboJPEG reads the planes by their strides, with one chroma sample for two
\* by two pixels.
Compressed(image) ==
    [width |-> image.width, height |-> image.height,
     pixel |-> [p \in (0 .. image.height - 1) \X (0 .. image.width - 1) |->
        [plane \in Planes |->
            At(SrcPlane(image, plane),
               IF plane = "Y" THEN p[1] * SrcStride(image, plane) + p[2]
               ELSE (p[1] \div 2) * SrcStride(image, plane) + p[2] \div 2)]]]

\* TurboJPEG: the JPEG of a whole frame; anything else is none.
NoJpeg == [width |-> 0, height |-> 0, pixel |-> <<>>]
Jpeg(data) ==
    IF \E f \in Frames : data = Bytes(f)
    THEN Compressed(Image[CHOOSE f \in Frames : data = Bytes(f)])
    ELSE NoJpeg

\* JpegDecoder::decode: bgra_data, by pixels; <<>> when it returns false.
Decoded(data) ==
    LET jpeg == Jpeg(data)
    IN IF data = <<>> \/ jpeg.width = 0 \/ jpeg.height = 0 THEN <<>>
       ELSE [k \in 0 .. jpeg.width * jpeg.height - 1 |->
                jpeg.pixel[<<k \div jpeg.width, k % jpeg.width>>]]

-----------------------------------------------------------------------------
\* Each frame that is returned shows what the camera saw, pixel by pixel, however
\* the image's planes were padded or interleaved, for even sizes: of an odd size
\* TurboJPEG wants a chroma sample more in each row than compressI420 gives it.
CameraPixel(image, row, column) ==
    [plane \in Planes |->
        IF plane = "Y" THEN <<plane, row, column>> ELSE <<plane, row \div 2, column \div 2>>]

PictureIsCameras ==
    \A f \in Frames :
        LET image == Image[f]
        IN out = Bytes(f) /\ image.width % 2 = 0 /\ image.height % 2 = 0 =>
              \A row \in 0 .. image.height - 1, column \in 0 .. image.width - 1 :
                 Decoded(out)[row * image.width + column] = CameraPixel(image, row, column)
=============================================================================
