--------------------------- MODULE MCQpTinyStack ---------------------------
(* Frames of QpTinyStack whose lengths lie around the end of some header. *)
EXTENDS QpTinyStack

Shape(type, id, snap, p, lens) ==
  [len: lens, typeNlen: type, identify: id, snapType: snap, proto: p]

MCFrame ==
       Shape({1501, 2054, 34525}, {43690}, {0}, {6}, {0, 13, 14, 33, 34, 53, 54})
  \cup Shape({2048}, {65535}, {0}, {1, 6, 17, 99},
             {13, 14, 33, 34, 41, 42, 53, 54})
  \cup Shape({1500}, {43690}, {2048}, {6, 17}, {21, 22, 41, 42, 49, 50, 61, 62})
  \cup Shape({1500}, {43690}, {257, 34525, 36488}, {6}, {16, 22, 41, 42, 61, 62})
  \cup Shape({46}, {65535, 0}, {2048}, {6}, {13, 14, 16, 17, 60})
============================================================================
