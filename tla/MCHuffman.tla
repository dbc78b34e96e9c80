------------------------------ MODULE MCHuffman -----------------------------
(* The compressor alone, its archive cut short at any byte.                *)
EXTENDS Huffman

MCAlphabet == {97}
MCTexts == BoundedSeq({36, 97, 98, 99}, 4)
=============================================================================
