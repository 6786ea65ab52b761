------------------------------- MODULE Tensor -------------------------------
(***************************************************************************)
(* The conversions of one classification: the guest lays the pixels of an  *)
(* image out as the bytes of a float tensor, the ONNX backend turns them   *)
(* back into floats, the scores return as bytes into a longer buffer, and  *)
(* post_process picks the class. The arithmetic never looks at a pixel's   *)
(* value, so a channel value stands for its own place in the image; the    *)
(* scores, external, may be anything, NaN included.                        *)
(***************************************************************************)
EXTENDS Integers, Sequences

CONSTANTS
    Side,      \* 224 in the code: width and height of the resized image
    Scores,    \* values of a score other than NaN, as integers
    Classes,   \* number of scores the model returns, 1000 for MobileNet
    Capacity   \* OUTPUT_BUFFER_CAPACITY

ASSUME TensorAssumption ==
    /\ Side \in Nat \ {0}
    /\ Scores \subseteq Int
    /\ Classes \in Nat \ {0} /\ Capacity \in Nat /\ Classes < Capacity

\* A score is an optional number: NaN is the one with none.
NaN == {}
Number(s) == CHOOSE v \in s : TRUE

-----------------------------------------------------------------------------
\* A float is a value; its little-endian bytes are its four quarters. Quarters of
\* two floats, or out of order, make some other float.
to_le_bytes(f) == <<<<f, 1>>, <<f, 2>>, <<f, 3>>, <<f, 4>>>>
from_le_bytes(b) == IF b = to_le_bytes(b[1][1]) THEN b[1][1] ELSE <<"mixed", b>>

\* f32_vec_to_bytes, of the guest and of the host.
f32_vec_to_bytes(floats) ==
    [n \in 1..(4 * Len(floats)) |-> to_le_bytes(floats[((n - 1) \div 4) + 1])[((n - 1) % 4) + 1]]

\* bytes_to_f32_vec: one float for each chunk of four bytes.
bytes_to_f32_vec(bytes) ==
    [n \in 1..(Len(bytes) \div 4) |->
        from_le_bytes(<<bytes[4*n - 3], bytes[4*n - 2], bytes[4*n - 1], bytes[4*n]>>)]

\* get_pixel(x, y) of an image, and its channel c after scaling and normalisation with mean[c]
\* and std[c].
Pixel(image, x, y, c) == <<image, x, y, c>>

\* Mutant of image_to_tensor: row and column swapped.
TensorTransposed(image) ==
    [n \in 1..(3 * Side * Side) |->
        LET m == n - 1
        IN  Pixel(image, (m \div Side) % Side, m % Side, m \div (Side * Side))]

\* image_to_tensor: shape (1, 3, Side, Side) in row-major order, index (_, c, j, i).
image_to_tensor(image) ==
    [n \in 1..(3 * Side * Side) |->
        LET m == n - 1
        IN  Pixel(image, m % Side, (m \div Side) % Side, m \div (Side * Side))]

\* partial_cmp(..).unwrap_or(Equal): anything compared with NaN is equal.
Greater(a, b) == a # NaN /\ b # NaN /\ Number(a) > Number(b)

\* Mutant of max_by: the first of equal elements is kept.
FirstMax(buffer) ==
    LET best[n \in 1..Len(buffer)] ==
            IF n = 1 THEN 1
            ELSE LET b == best[n - 1] IN IF Greater(buffer[n], buffer[b]) THEN n ELSE b
    IN  best[Len(buffer)]

\* Iterator::max_by with indices from 1: it keeps the later of two equal elements.
max_by(buffer) ==
    LET best[n \in 1..Len(buffer)] ==
            IF n = 1 THEN 1
            ELSE LET b == best[n - 1] IN IF Greater(buffer[b], buffer[n]) THEN b ELSE n
    IN  best[Len(buffer)]

\* The output buffer of zeros with the scores copied to its front.
Padded(floats) == floats \o [n \in 1..(Capacity - Len(floats)) |-> {0}]
=============================================================================
