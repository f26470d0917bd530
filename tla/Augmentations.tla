---------------------------- MODULE Augmentations ----------------------------
(***************************************************************************)
(* include/data_augmentation, and the same steps in ImageNet100: which     *)
(* pixel of a picture every pixel of the result is taken from.  Rows and   *)
(* columns are counted from 0 and the colours of a pixel stay together;    *)
(* random numbers are any of their range.  Coordinates with a fraction are *)
(* kept as numerators over a common denominator.                           *)
(***************************************************************************)
EXTENDS ImageTensors, SequencesExt

(* The strategy: augmentations one after the other.  An index out of range *)
(* is ignored; a name may remove several.                                  *)
AddAugmentation(strategy, aug) == Append(strategy, aug)
RemoveAugmentationAt(strategy, index) ==
    IF index >= Len(strategy) THEN strategy ELSE RemoveAt(strategy, index + 1)
RemoveAugmentationNamed(strategy, name) == SelectSeq(strategy, LAMBDA a : a.name # name)

----------------------------------------------------------------------------
(* Flips: the rows or columns of the first half change places with those   *)
(* of the second.                                                          *)
FlipSource(size, x) ==
    LET half == size \div 2 IN IF x < half \/ (size - 1) - x < half THEN (size - 1) - x ELSE x

(* Cutout: the corner is drawn from a range that ends at an unsigned       *)
(* difference.                                                             *)
CutoutCorners(size, cutout) == 0..Unsigned(size - cutout)
CutoutCells(height, width, cutout, y, x) ==
    {p \in Below(height) \X Below(width) :
        p[1] \in y..(y + cutout - 1) /\ p[2] \in x..(x + cutout - 1)}

(* RandomCrop: the picture goes to the middle of a square of zeros, as     *)
(* wide as the picture and its padding, and a part of it comes back.       *)
PaddedSize(width, padding) == width + (2 * padding)
PaddedCells(height, width, padding) ==
    {((h + padding) * PaddedSize(width, padding)) + w + padding :
        h \in Below(height), w \in Below(width)}
CropCells(height, width, padding, y, x) ==
    {((y + h) * PaddedSize(width, padding)) + x + w : h \in Below(height), w \in Below(width)}
CropFits(height, width, padding) ==
    LET cells == Below(PaddedSize(width, padding) * PaddedSize(width, padding))
    IN  /\ PaddedCells(height, width, padding) \subseteq cells
        /\ \A y, x \in 0..(2 * padding) : CropCells(height, width, padding, y, x) \subseteq cells

----------------------------------------------------------------------------
(* A part of a picture of any size, and its resizing                       *)

Box(y, x, h, w) == [y |-> y, x |-> x, h |-> h, w |-> w]
BoxInside(box, height, width) ==
    box.y >= 0 /\ box.x >= 0 /\ box.h > 0 /\ box.w > 0
      /\ box.y + box.h <= height /\ box.x + box.w <= width

(* A size that was drawn is taken when it fits, at any place.              *)
DrawnBoxes(height, width) ==
    UNION {{Box(y, x, h, w) : y \in 0..(height - h), x \in 0..(width - w)} :
              h \in 1..height, w \in 1..width}

(* A third more, rounded to the nearest.                                   *)
ThirdMore(n) == ((8 * n) + 3) \div 6

(* When none of ten draws fits: the middle, at most a third longer than    *)
(* the other side.                                                         *)
MiddleBox(height, width) ==
    LET w == IF 3 * width > 4 * height THEN Lo(ThirdMore(height), width) ELSE width
        h == IF 4 * width < 3 * height THEN Lo(ThirdMore(width), height) ELSE height
    IN  Box(Hi(0, (height - h) \div 2), Hi(0, (width - w) \div 2), h, w)

(* Bilinear resizing of size pixels to out: the centre of pixel d falls on *)
(* this one (over 2 * out), between two that are kept inside.              *)
ScaledCentre(d, size, out) == (((2 * d) + 1) * size) - out
Clamp(x, size) == Hi(0, Lo(x, size - 1))
FirstTap(d, size, out)  == Clamp(ScaledCentre(d, size, out) \div (2 * out), size)
SecondTap(d, size, out) == Clamp((ScaledCentre(d, size, out) \div (2 * out)) + 1, size)
SecondWeight(d, size, out) == ScaledCentre(d, size, out) % (2 * out)

(* Resize and crop: the shorter side gets the size wanted, the other side  *)
(* the same scale, and none is smaller than the crop.                      *)
Rounded(n, by) == ((2 * n) + by) \div (2 * by)
ResizedHeight(height, width, short, crop) ==
    Hi(crop, IF height <= width THEN short ELSE Rounded(height * short, width))
ResizedWidth(height, width, short, crop) ==
    Hi(crop, IF height <= width THEN Rounded(width * short, height) ELSE short)
CropStart(resized, crop) == Hi(0, (resized - crop) \div 2)

(* The pixels of a side that reach the result.                             *)
PixelsUsed(size, resized, crop) ==
    LET kept == {CropStart(resized, crop) + d : d \in Below(crop)}
    IN  {FirstTap(d, size, resized) : d \in kept}
          \cup {SecondTap(d, size, resized) :
                   d \in {e \in kept : SecondWeight(e, size, resized) # 0}}

----------------------------------------------------------------------------
(* Rotation by an angle whose cosine and sine are c / r and s / r.  The    *)
(* corner above and left of the place a pixel comes from is turned into an *)
(* unsigned number, and compared with the size one further.  What becomes  *)
(* of a negative number there is undefined: it wraps, or is the largest of *)
(* all, or zero, as the processor has it.                                  *)

RotatedX(p, height, width, c, s, r) ==
    ((((2 * p[2]) - width) * c) - (((2 * p[1]) - height) * s) + (width * r)) \div (2 * r)
RotatedY(p, height, width, c, s, r) ==
    ((((2 * p[2]) - width) * s) + (((2 * p[1]) - height) * c) + (height * r)) \div (2 * r)

CornersOf(corner) == IF corner >= 0 THEN {corner} ELSE {corner, -1, 0}
TakenFrom(corner, size) == Unsigned(corner + 1) < size

(* The corners that may be read, by the pixel they are read for; a pixel   *)
(* without one becomes black.                                              *)
RotationReads(height, width, c, s, r) ==
    UNION {{<<p, corner>> : corner \in
               {q \in CornersOf(RotatedY(p, height, width, c, s, r))
                        \X CornersOf(RotatedX(p, height, width, c, s, r)) :
                   TakenFrom(q[1], height) /\ TakenFrom(q[2], width)}} :
              p \in Below(height) \X Below(width)}

----------------------------------------------------------------------------
(* Colours, in parts of White                                              *)

White == 100
Clipped(v) == Hi(0, Lo(v, White))
Brightened(v, by) == Clipped(v + by)
Contrasted(v, factor) == Clipped((v * factor) \div White)
GrayOf(p) == ((299 * p[1]) + (587 * p[2]) + (114 * p[3])) \div 1000
Saturated(p, factor) ==
    [i \in 1..3 |-> Clipped(GrayOf(p) + (((p[i] - GrayOf(p)) * factor) \div White))]
NormalizedBy(v, mean, std) == ((v - mean) * White) \div std

----------------------------------------------------------------------------
(* Every picture is as it was after two flips, and turned after one.       *)
ASSUME FlipsTurn ==
    \A size \in 1..7 : \A x \in Below(size) :
        /\ FlipSource(size, x) = (size - 1) - x
        /\ FlipSource(size, FlipSource(size, x)) = x

(* A square is cut out of pictures that are large enough, all of it; from  *)
(* smaller ones nothing may be cut at all.                                 *)
ASSUME CutoutsFit ==
    \A height, width \in 1..5, cutout \in 1..5 :
        IF cutout <= height /\ cutout <= width
        THEN \A y \in CutoutCorners(height, cutout), x \in CutoutCorners(width, cutout) :
                 Cardinality(CutoutCells(height, width, cutout, y, x)) = cutout * cutout
        ELSE \E y \in CutoutCorners(height, cutout), x \in CutoutCorners(width, cutout) :
                 CutoutCells(height, width, cutout, y, x) = {}

(* The square of RandomCrop holds the pictures that are not higher than    *)
(* wide.                                                                   *)
ASSUME CropsNeedWidth ==
    \A height, width \in 1..5, padding \in 0..2 :
        CropFits(height, width, padding) <=> height <= width

(* Parts of a picture lie in it; those in the middle are centred and are   *)
(* neither too long nor too wide.                                          *)
ASSUME BoxesLieInside ==
    \A height, width \in 1..14 :
        LET box == MiddleBox(height, width)
        IN  /\ BoxInside(box, height, width)
            /\ box.x \in {width - box.w - box.x, width - box.w - box.x - 1}
            /\ box.y \in {height - box.h - box.y, height - box.h - box.y - 1}
            /\ 3 * box.w <= (4 * box.h) + 2 /\ 3 * box.h <= (4 * box.w) + 2
            /\ height <= 5 /\ width <= 5 =>
                   \A drawn \in DrawnBoxes(height, width) : BoxInside(drawn, height, width)

(* Resizing reads in order, treats both ends alike, and to its own size    *)
(* changes nothing.                                                        *)
ASSUME ResizingIsEven ==
    \A size, out \in 1..8 : \A d \in Below(out) :
        /\ FirstTap(d, size, out) <= SecondTap(d, size, out)
        /\ d > 0 => FirstTap(d - 1, size, out) <= FirstTap(d, size, out)
        /\ size = out => FirstTap(d, size, out) = d /\ SecondWeight(d, size, out) = 0
        /\ SecondWeight(d, size, out) # 0 =>
               SecondTap((out - 1) - d, size, out) = (size - 1) - FirstTap(d, size, out)

(* The crop lies in the resized picture, whatever the shape.               *)
ASSUME CropsLieInside ==
    \A height, width, short, crop \in 1..7 :
        LET h == ResizedHeight(height, width, short, crop)
            w == ResizedWidth(height, width, short, crop)
        IN  /\ CropStart(h, crop) + crop <= h /\ CropStart(w, crop) + crop <= w
            /\ short >= crop => Lo(h, w) = short

(* The validation pictures of ImageNet100 are resized and cropped when     *)
(* they are read, and once more by their strategy: 13 rows and columns of  *)
(* the first result are lost at every end.                                 *)
ASSUME CroppedTwice == PixelsUsed(224, 256, 224) = 13..210

(* A rotation by nothing loses the last row and column.  Another may read  *)
(* what is stored before the first pixel of a row.                         *)
ASSUME RotationsAtTheEdges ==
    /\ RotationReads(4, 5, 1, 0, 1) = {<<p, p>> : p \in Below(3) \X Below(4)}
    /\ LET reads == RotationReads(6, 6, 4, 3, 5)
       IN  /\ \A q \in reads : q[2][1] \in -1..4 /\ q[2][2] \in -1..4
           /\ \E q \in reads : q[2][2] = -1

(* Colours stay in their range until they are normalized, and a gray pixel *)
(* stays gray.                                                             *)
ASSUME ColoursStayInRange ==
    LET values == {0, 1, 30, 99, White}
    IN  /\ \A v \in values, f \in {-20, 0, 20} : Brightened(v, f) \in 0..White
        /\ \A v \in values, f \in {80, 100, 120} : Contrasted(v, f) \in 0..White
        /\ \A p \in [1..3 -> values], f \in {90, 100, 110} :
               /\ \A i \in 1..3 : Saturated(p, f)[i] \in 0..White
               /\ p[1] = p[2] /\ p[2] = p[3] => Saturated(p, f) = p
        /\ \E v \in values : NormalizedBy(v, 48, 22) \notin 0..White

(* What is removed is gone, and the others keep their order.               *)
ASSUME StrategiesKeepOrder ==
    LET Aug(name) == [name |-> name]
        strategy == AddAugmentation(<<Aug("flip"), Aug("crop"), Aug("flip")>>, Aug("normalize"))
    IN  /\ RemoveAugmentationNamed(strategy, "flip") = <<Aug("crop"), Aug("normalize")>>
        /\ RemoveAugmentationAt(strategy, 0) = Tail(strategy)
        /\ RemoveAugmentationAt(strategy, 4) = strategy

=============================================================================
