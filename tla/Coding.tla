------------------------------- MODULE Coding -------------------------------
(***************************************************************************)
(* The coding programs of Exp01_Framing, Exp02_Error_Detection and         *)
(* Exp03_Error_Correction: each encodes what it is given, sends it to      *)
(* itself, may corrupt it on the way, and decodes.  Bits are 0 and 1,      *)
(* characters members of a small set with FLAG and ESC.  The programs      *)
(* corrupt one place they fix; the channel here corrupts any one.          *)
(***************************************************************************)
EXTENDS Integers, SequencesExt, FiniteSetsExt

CONSTANTS Tasks,      \* inputs: [code, data, generator], the generator for "crc" only
          Characters, \* what byte_stuffing.c may be given
          WordBits    \* the width of a word of checksum.c

ASSUME CodingAssumption ==
    /\ WordBits \in Nat \ {0} /\ {"FLAG", "ESC"} \subseteq Characters
    /\ \A t \in Tasks :
        /\ t.code \in {"bits", "bytes", "parity", "parity2d", "checksum", "crc", "hamming"}
        /\ t.code = "bits" => t.data \in Seq({0, 1})
        /\ t.code = "bytes" => t.data \in Seq(Characters)

VARIABLES task, stage,    \* what main was given; how far it is
          onLine, flipped, \* what is on the line; the places the channel has flipped
          heard           \* what the receiver makes of it: [ok, data]

codingVars == <<task, stage, onLine, flipped, heard>>

Nothing == [ok |-> FALSE, data |-> <<>>]
Upto(n) == [i \in 1..n |-> i]

-----------------------------------------------------------------------------
(* bit_stuffing.c, byte_stuffing.c *)

FLAG == <<0, 1, 1, 1, 1, 1, 1, 0>>

Unset == [out |-> <<>>, count |-> 0, skip |-> FALSE]
Put(s, b, count) == [out |-> Append(s.out, b), count |-> count, skip |-> FALSE]
Skip(s, on) == [s EXCEPT !.skip = on]

Stuffed(s, b) ==
    IF b = 0 THEN Put(s, 0, 0)
    ELSE IF s.count < 4 THEN Put(s, 1, s.count + 1)
    ELSE Put(Put(s, 1, 0), 0, 0)
bit_stuff(data) == FoldLeft(Stuffed, Unset, data).out

(* The bit after five ones is dropped if it is a zero. *)
Unstuffed(s, b, five) ==
    IF s.skip /\ b = 0 THEN Skip(s, FALSE)
    ELSE IF b = 0 THEN Put(s, 0, 0)
    ELSE IF s.count < five - 1 THEN Put(s, 1, s.count + 1)
    ELSE Skip(Put(s, 1, 0), TRUE)
bit_unstuff_bug(data) == FoldLeft(LAMBDA s, b : Unstuffed(s, b, 6), Unset, data).out
bit_unstuff(data) == FoldLeft(LAMBDA s, b : Unstuffed(s, b, 5), Unset, data).out

Escaped_bug(c) == IF c = "ESC" THEN <<"ESC", c>> ELSE <<c>>
Escaped(c) == IF c \in {"FLAG", "ESC"} THEN <<"ESC", c>> ELSE <<c>>
byte_stuff(data) == FlattenSeq([i \in DOMAIN data |-> Escaped(data[i])])

Unescaped(s, c) == IF c = "ESC" /\ ~s.skip THEN Skip(s, TRUE) ELSE Put(s, c, 0)
byte_unstuff(data) == FoldLeft(Unescaped, Unset, data).out

Enclose(flag, payload) == flag \o payload \o flag
Unframed(framed) == SubSeq(framed, 2, Len(framed) - 1)
WellFramed(framed) == Head(framed) = "FLAG" /\ Last(framed) = "FLAG"

-----------------------------------------------------------------------------
(* parity.c, checksum.c *)

count_ones(bits) == Cardinality({i \in DOMAIN bits : bits[i] = 1})
EvenParity(bits) == count_ones(bits) % 2

row_parity(matrix) == [r \in DOMAIN matrix |-> EvenParity(matrix[r])]
col_parity(matrix) ==
    [c \in DOMAIN matrix[1] |-> EvenParity([r \in DOMAIN matrix |-> matrix[r][c]])]

WordSize == 2^WordBits

(* The one's complement sum: carries are folded back in. *)
OnesSum(words) ==
    LET fold[sum \in Nat] == IF sum < WordSize THEN sum ELSE fold[(sum % WordSize) + (sum \div WordSize)]
    IN  fold[FoldLeft(+, 0, words)]
compute_checksum(words) == (WordSize - 1) - OnesSum(words)
verify_checksum(words)  == OnesSum(words) = WordSize - 1       \* the checksum is the last word

-----------------------------------------------------------------------------
(* crc.c *)

xor_op(dividend, divisor, start) ==
    [i \in DOMAIN dividend |-> IF i \in start..(start + Len(divisor) - 1)
                               THEN (dividend[i] + divisor[i - start + 1]) % 2 ELSE dividend[i]]

Divide(dividend, generator, steps) ==
    LET Step(d, i) == IF d[i] = 1 THEN xor_op(d, generator, i) ELSE d
    IN  FoldLeft(Step, dividend, Upto(steps))
LastBits(bits, n) == SubSeq(bits, Len(bits) - n + 1, Len(bits))

Remainder(data, generator, steps) ==
    LET zeros == [i \in 1..(Len(generator) - 1) |-> 0]
    IN  LastBits(Divide(data \o zeros, generator, steps), Len(generator) - 1)
compute_crc_bug(data, generator) == Remainder(data, generator, Len(data) - 1)
compute_crc(data, generator) == Remainder(data, generator, Len(data))
check_crc(codeword, generator) ==
    LET degree == Len(generator) - 1
    IN  count_ones(LastBits(Divide(codeword, generator, Len(codeword) - degree), degree)) = 0

-----------------------------------------------------------------------------
(* hamming.c.  Places are counted from 1; those of the powers of two are   *)
(* parity bits, the others hold the data.                                  *)

is_power_of_two(n) == \E i \in 0..n : n = 2^i
Holds(j, pos) == (j \div pos) % 2 = 1                          \* j & pos
calculate_r(k) == CHOOSE r \in 1..(k + 1) : 2^r >= k + r + 1 /\ \A s \in 1..(r - 1) : 2^s < k + s + 1

DataPlaces(n) == SelectSeq(Upto(n), LAMBDA i : ~is_power_of_two(i))
ParityPlaces(n) == {i \in 1..n : is_power_of_two(i)}
OnesAt(word, pos) == Cardinality({j \in DOMAIN word : Holds(j, pos) /\ word[j] = 1})

encode_hamming(data) ==
    LET n == Len(data) + calculate_r(Len(data))
        placed == [i \in 1..n |-> IF is_power_of_two(i) THEN 0
                                  ELSE data[CHOOSE d \in DOMAIN data : DataPlaces(n)[d] = i]]
    IN  [i \in 1..n |-> IF is_power_of_two(i) THEN OnesAt(placed, i) % 2 ELSE placed[i]]

decode_and_correct(received) ==
    LET n == Len(received)
        syndrome == SumSet({pos \in ParityPlaces(n) : OnesAt(received, pos) % 2 # 0})
        corrected == IF syndrome \in 1..n THEN [received EXCEPT ![syndrome] = 1 - @] ELSE received
    IN  [syndrome |-> syndrome,
         data |-> [d \in DOMAIN DataPlaces(n) |-> corrected[DataPlaces(n)[d]]]]

-----------------------------------------------------------------------------
(* The main programs: encode, let the channel flip what it may, decode.    *)

CodingInit ==
    /\ task \in Tasks /\ stage = "encode"
    /\ onLine = <<>> /\ flipped = {} /\ heard = Nothing

Send(frame) ==
    /\ stage = "encode" /\ stage' = "channel" /\ onLine' = frame
    /\ UNCHANGED <<task, flipped, heard>>

Sends(code, frame) == task.code = code /\ Send(frame)
SendBits     == Sends("bits", bit_stuff(task.data))
SendBytes    == Sends("bytes", Enclose(<<"FLAG">>, byte_stuff(task.data)))
SendParity   == Sends("parity", Append(task.data, EvenParity(task.data)))
SendMatrix   == Sends("parity2d", task.data)
SendChecksum == Sends("checksum", Append(task.data, compute_checksum(task.data)))
SendCrc      == Sends("crc", task.data \o compute_crc(task.data, task.generator))
SendHamming  == Sends("hamming", encode_hamming(task.data))
EncodeFrame ==
    SendBits \/ SendBytes \/ SendParity \/ SendMatrix \/ SendChecksum \/ SendCrc \/ SendHamming

(* The single bits on the line; at most three of the two-dimensional matrix. *)
Places ==
    CASE task.code = "parity2d" -> (DOMAIN onLine) \X (DOMAIN onLine[1])
      [] task.code = "checksum" -> (DOMAIN onLine) \X (0..(WordBits - 1))
      [] task.code \in {"parity", "crc", "hamming"} -> DOMAIN onLine
      [] OTHER -> {}
Noise == {{}} \cup IF task.code = "parity2d" THEN {{p, q, r} : p, q, r \in Places} ELSE {{p} : p \in Places}
Toggle(word, b) == IF Holds(word, 2^b) THEN word - 2^b ELSE word + 2^b
Corrupted(i, f) ==
    CASE task.code = "parity2d" -> [c \in DOMAIN onLine[i] |-> IF <<i, c>> \in f THEN 1 - onLine[i][c] ELSE onLine[i][c]]
      [] task.code = "checksum" -> IF \E b \in 0..(WordBits - 1) : <<i, b>> \in f
                                   THEN Toggle(onLine[i], CHOOSE b \in 0..(WordBits - 1) : <<i, b>> \in f)
                                   ELSE onLine[i]
      [] OTHER -> IF i \in f THEN 1 - onLine[i] ELSE onLine[i]

Channel ==
    /\ stage = "channel" /\ stage' = "decode"
    /\ \E f \in Noise : flipped' = f /\ onLine' = [i \in DOMAIN onLine |-> Corrupted(i, f)]
    /\ UNCHANGED <<task, heard>>

Hear(ok, data) ==
    /\ stage = "decode" /\ stage' = "done" /\ heard' = [ok |-> ok, data |-> data]
    /\ UNCHANGED <<task, onLine, flipped>>

Hears(code, ok, data) == task.code = code /\ Hear(ok, data)
HearBits     == Hears("bits", TRUE, bit_unstuff(onLine))
HearBytes    == Hears("bytes", WellFramed(onLine), byte_unstuff(Unframed(onLine)))
HearParity   == Hears("parity", EvenParity(onLine) = 0, Front(onLine))
HearChecksum == Hears("checksum", verify_checksum(onLine), Front(onLine))
HearCrc      == Hears("crc", check_crc(onLine, task.generator), SubSeq(onLine, 1, Len(task.data)))
HearHamming  == LET d == decode_and_correct(onLine) IN Hears("hamming", d.syndrome = 0, d.data)
DecodeFrame == HearBits \/ HearBytes \/ HearParity \/ HearChecksum \/ HearCrc \/ HearHamming

CodingNext == EncodeFrame \/ Channel \/ DecodeFrame
CodingSpec == CodingInit /\ [][CodingNext]_codingVars

-----------------------------------------------------------------------------
(* The characters that a receiver reading a frame from its start takes as  *)
(* data whatever they are: those after an ESC that is not data itself.     *)
EscapedAt(frame) ==
    LET escaped[i \in 1..Len(frame)] == i # 1 /\ frame[i - 1] = "ESC" /\ ~escaped[i - 1]
    IN  escaped

(* A framed payload comes back as it was, and the receiver cannot take a   *)
(* piece of it for a flag: the eight bits of FLAG are found at the two     *)
(* ends of a frame of bits only, and the two ends of a frame of bytes are  *)
(* its only flags that no ESC makes data.                                  *)
FramingSound ==
    /\ stage = "done" /\ task.code \in {"bits", "bytes"} => heard = [ok |-> TRUE, data |-> task.data]
    /\ stage = "channel" /\ task.code = "bits" =>
        LET framed == Enclose(FLAG, onLine)
        IN  \A i \in 1..(Len(framed) - 7) : SubSeq(framed, i, i + 7) = FLAG => i \in {1, Len(framed) - 7}
    /\ stage = "channel" /\ task.code = "bytes" =>
        {i \in DOMAIN onLine : onLine[i] = "FLAG" /\ ~EscapedAt(onLine)[i]} = {1, Len(onLine)}

(* What arrives unharmed is accepted, and one flipped bit never passes: it *)
(* is detected by parity, checksum and any CRC generator with a first and  *)
(* a last term, and located by the Hamming syndrome, which gives back the  *)
(* data.  Up to three flips change a parity of the matrix, and one changes *)
(* just the parities of its row and column.                                *)
OneErrorCaught ==
    /\ stage = "done" /\ task.code \in {"parity", "checksum", "crc", "hamming"} =>
        /\ flipped = {} => heard = [ok |-> TRUE, data |-> task.data]
        /\ flipped # {} =>
            /\ task.code # "crc" \/ (Head(task.generator) = 1 /\ Last(task.generator) = 1)
                => ~heard.ok
            /\ task.code = "hamming" => heard.data = task.data
    /\ stage = "decode" /\ task.code = "parity2d" =>
        LET rows == {r \in DOMAIN onLine : row_parity(onLine)[r] # row_parity(task.data)[r]}
            cols == {c \in DOMAIN onLine[1] : col_parity(onLine)[c] # col_parity(task.data)[c]}
        IN  /\ flipped # {} => rows # {} \/ cols # {}
            /\ Cardinality(flipped) <= 1 => rows \X cols = flipped
=============================================================================
