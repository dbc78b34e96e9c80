------------------------------ MODULE Huffman ------------------------------
(***************************************************************************)
(* The Huffman compressor CSMCS26A017_Lab2_2.c.  compressFile reads the    *)
(* text twice, first to count, then to encode; it checks no write, so of   *)
(* what it says it has written any tail may be missing when decompressFile *)
(* reads it.  Characters are bytes; files are sequences of them, and the   *)
(* archive's bits come in groups of eight.                                 *)
(***************************************************************************)
EXTENDS Integers, SequencesExt, FiniteSetsExt, TLC

CONSTANTS Texts,          \* the files to compress
          Alphabet,       \* what may be added to one between the two passes
          NULL

ASSUME HuffmanAssumption ==
    /\ \A t \in Texts : t \in Seq(0..255)
    /\ Alphabet \subseteq 0..255

VARIABLES hphase,         \* "count", "encode", "archived" and "restored"
          text, counted,  \* the file, and as the first pass found it
          archive,        \* the .huf file: [header, origSize, bits]
          restored        \* what decompressFile makes of it: [status, root, out]

huffmanVars == <<hphase, text, counted, archive, restored>>

CharBits == 8
DOLLAR == 36

-----------------------------------------------------------------------------
(* The tree.  Heaps are arrays from 1; the node at i has its children at   *)
(* 2i and 2i + 1.                                                          *)

createNode(data, freq) == [data |-> data, freq |-> freq, left |-> NULL, right |-> NULL]
Join(l, r, freq) == [data |-> DOLLAR, freq |-> freq, left |-> l, right |-> r]
isLeaf(node) == node.left = NULL /\ node.right = NULL

swapNodes(heap, i, j) == [heap EXCEPT ![i] = heap[j], ![j] = heap[i]]

RECURSIVE SiftUp(_, _), minHeapify(_, _), Merge(_)
SiftUp(heap, i) ==
    IF i > 1 /\ heap[i].freq < heap[i \div 2].freq
    THEN SiftUp(swapNodes(heap, i, i \div 2), i \div 2) ELSE heap
insertMinHeap(heap, node) == SiftUp(Append(heap, node), Len(heap) + 1)

minHeapify(heap, i) ==
    LET Lighter(j, k) == IF k <= Len(heap) /\ heap[k].freq < heap[j].freq THEN k ELSE j
        smallest == Lighter(Lighter(i, 2 * i), 2 * i + 1)
    IN  IF smallest = i THEN heap ELSE minHeapify(swapNodes(heap, i, smallest), smallest)
(* extractMin: the first node, and the heap without it. *)
Others_bug(heap) == Tail(heap)
Others(heap) == IF Len(heap) = 1 THEN <<>>
              ELSE minHeapify(<<Last(heap)>> \o SubSeq(heap, 2, Len(heap) - 1), 1)

Merge(heap) ==
    IF Len(heap) = 1 THEN heap[1]
    ELSE LET left == heap[1]
             right == Others(heap)[1]
         IN  Merge(insertMinHeap(Others(Others(heap)), Join(left, right, left.freq + right.freq)))

Chars(t) == ToSet(t)
freqs(t, c) == Cardinality({i \in DOMAIN t : t[i] = c})
Leaves(t) == [i \in 1..Cardinality(Chars(t)) |->
                 LET c == SetToSortSeq(Chars(t), <)[i] IN createNode(c, freqs(t, c))]

buildHuffmanTree(t) ==
    IF Cardinality(Chars(t)) = 1 THEN Join(Leaves(t)[1], createNode(0, 0), Len(t))
    ELSE Merge(FoldLeft(insertMinHeap, <<>>, Leaves(t)))

RECURSIVE CodesUnder(_, _)
CodesUnder(node, path) ==      \* a character met twice keeps the later code
    IF isLeaf(node) THEN node.data :> (IF path = <<>> THEN <<0>> ELSE path)
    ELSE CodesUnder(node.right, Append(path, 1)) @@ CodesUnder(node.left, Append(path, 0))
generateCodes(root) == CodesUnder(root, <<>>)

-----------------------------------------------------------------------------
(* Bits to and from the archive. *)

writeBits(val) == [i \in 1..CharBits |-> (val \div 2^(CharBits - i)) % 2]
Value(bits) == FoldLeft(LAMBDA res, b : 2 * res + b, 0, bits)
bitWriterFlush_bug(bits) == SubSeq(bits, 1, Len(bits) - (Len(bits) % 8))
bitWriterFlush(bits) == bits \o [i \in 1..((-Len(bits)) % 8) |-> 0]
Drop(bits, n) == SubSeq(bits, n + 1, Len(bits))

RECURSIVE serializeTreePreorder(_), deserializeTreePreorder(_)
serializeTreePreorder(node) ==
    IF isLeaf(node) THEN <<1>> \o writeBits(node.data)
    ELSE <<0>> \o serializeTreePreorder(node.left) \o serializeTreePreorder(node.right)

(* The tree, NULL where the bits end, and the bits left over. *)
deserializeTreePreorder(bits) ==
    IF bits = <<>> THEN [tree |-> NULL, left |-> <<>>]
    ELSE IF Head(bits) = 1
    THEN IF Len(bits) <= CharBits THEN [tree |-> NULL, left |-> <<>>]
         ELSE [tree |-> createNode(Value(SubSeq(bits, 2, CharBits + 1)), 0), left |-> Drop(bits, CharBits + 1)]
    ELSE LET l == deserializeTreePreorder(Tail(bits))
             r == deserializeTreePreorder(l.left)
         IN  [tree |-> Join(l.tree, r.tree, 0), left |-> r.left]

(* Characters are read off the bits until n are found, the bits end or a   *)
(* path leaves the tree.                                                   *)
RECURSIVE Decode(_, _, _, _)
Decode(root, curr, bits, n) ==
    IF n = 0 \/ bits = <<>> THEN <<>>
    ELSE LET node == IF Head(bits) = 0 THEN curr.left ELSE curr.right
         IN  IF node = NULL THEN <<>>
             ELSE IF isLeaf(node) THEN <<node.data>> \o Decode(root, root, Tail(bits), n - 1)
             ELSE Decode(root, node, Tail(bits), n)

-----------------------------------------------------------------------------
NoArchive == [header |-> FALSE, origSize |-> 0, bits |-> <<>>]
NotRestored == [status |-> "none", root |-> NULL, out |-> <<>>]

HuffmanInit ==
    /\ hphase = "count" /\ text \in Texts /\ counted = <<>>
    /\ archive = NoArchive /\ restored = NotRestored

(* Pass 1 of compressFile. *)
Count ==
    /\ hphase = "count" /\ hphase' = "encode" /\ counted' = text
    /\ UNCHANGED <<text, archive, restored>>

(* Somebody appends to the file meanwhile. *)
Grow ==
    /\ hphase = "encode" /\ text = counted /\ counted # <<>>
    /\ \E c \in Alphabet : text' = Append(text, c)
    /\ UNCHANGED <<hphase, counted, archive, restored>>

(* Pass 2: a character the first pass has not seen has an empty code. *)
Payload(codes, t) ==
    FlattenSeq([i \in DOMAIN t |-> IF t[i] \in DOMAIN codes THEN codes[t[i]] ELSE <<>>])
Written ==
    LET root == buildHuffmanTree(counted)
    IN  [header |-> TRUE, origSize |-> Len(counted),
         bits |-> IF counted = <<>> THEN <<>>
                  ELSE bitWriterFlush(serializeTreePreorder(root) \o Payload(generateCodes(root), text))]
Encode ==
    /\ hphase = "encode" /\ hphase' = "archived" /\ archive' = Written
    /\ UNCHANGED <<text, counted, restored>>

(* The disk was full: the bytes at the end are missing, of the header too. *)
Cut ==
    /\ hphase = "archived" /\ archive = Written
    /\ archive' \in {[archive EXCEPT !.bits = SubSeq(@, 1, 8 * k)] : k \in 0..(Len(archive.bits) \div 8 - 1)}
                     \cup {NoArchive}
    /\ UNCHANGED <<hphase, text, counted, restored>>

Repeat(c, n) == [i \in 1..n |-> c]
Restored(a) ==
    IF ~a.header THEN [NotRestored EXCEPT !.status = "error"]
    ELSE IF a.origSize = 0 THEN [NotRestored EXCEPT !.status = "success"]
    ELSE LET d == deserializeTreePreorder(a.bits)
         IN  IF d.tree = NULL THEN [NotRestored EXCEPT !.status = "error"]
             ELSE [status |-> "success", root |-> d.tree,
                   out |-> IF isLeaf(d.tree) THEN Repeat(d.tree.data, a.origSize)
                           ELSE Decode(d.tree, d.tree, d.left, a.origSize)]
decompressFile ==
    /\ hphase = "archived" /\ hphase' = "restored" /\ restored' = Restored(archive)
    /\ UNCHANGED <<text, counted, archive>>

HuffmanNext == Count \/ Grow \/ Encode \/ Cut \/ decompressFile
HuffmanSpec == HuffmanInit /\ [][HuffmanNext]_huffmanVars

-----------------------------------------------------------------------------
(* What decompressFile writes is what the first pass counted, whatever is  *)
(* appended later and whatever the padding bits look like; of an archive   *)
(* that is cut short it is a prefix, unless the cut makes the tree's root  *)
(* look like a leaf.                                                       *)
RestoresPrefix ==
    hphase = "restored" =>
        /\ archive = Written => restored.status = "success" /\ restored.out = counted
        /\ restored.root = NULL \/ ~isLeaf(restored.root) => IsPrefix(restored.out, counted)

(* No prefix code of the characters is shorter in all: none whose lengths  *)
(* fit into a binary tree (Kraft).                                         *)
CodesOptimal ==
    hphase = "encode" /\ Cardinality(Chars(counted)) > 1 =>
        LET codes == generateCodes(buildHuffmanTree(counted))
            deepest == Cardinality(Chars(counted)) - 1
            Cost(len) == MapThenSumSet(LAMBDA c : freqs(counted, c) * len[c], Chars(counted))
            Kraft(len) == MapThenSumSet(LAMBDA c : 2^(deepest - len[c]), Chars(counted)) <= 2^deepest
        IN  \A len \in [Chars(counted) -> 1..deepest] :
                Kraft(len) => Cost([c \in Chars(counted) |-> Len(codes[c])]) <= Cost(len)

(* "Successfully reconstructed from preorder header": the tree is the one  *)
(* that was written.                                                       *)
TreeReconstructed ==
    restored.root # NULL =>
        serializeTreePreorder(restored.root) = serializeTreePreorder(buildHuffmanTree(counted))
=============================================================================
