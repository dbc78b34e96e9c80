------------------------------ MODULE Lab_proofs ------------------------------
(***************************************************************************)
(* Proofs about four laboratory programs: the ciphers of Exp09 give back   *)
(* what they encrypted, the flow-control simulations of Exp07 implement    *)
(* SlidingWindow, the leaky bucket of Exp08 accounts for its traffic, and  *)
(* the rainfall program sorts and searches right.                          *)
(***************************************************************************)
EXTENDS Ciphers, Arq, LeakyBucket, Rainfall, DataLemmas, TLAPS

-----------------------------------------------------------------------------
(* caesar_cipher.c and substitution_cipher.c.                              *)

(* Remainders, which the provers know of.                                  *)
LEMMA ModSmall == ASSUME NEW b \in Nat \ {0}, NEW a \in 0..(b - 1) PROVE a % b = a
  OBVIOUS

(* The same, beyond the alphabet.                                          *)
LEMMA ModOnce == ASSUME NEW b \in Nat \ {0}, NEW a \in b..(b + b - 1) PROVE a % b = a - b
  OBVIOUS

(* The remainder of C lies within the divisor, on both sides of zero.      *)
LEMMA RemRange ==
    ASSUME NEW b \in Nat \ {0}, NEW a \in Int
    PROVE  Rem(a, b) \in (1 - b)..(b - 1)
<1>1. CASE a >= 0
  <2>1. a % b \in 0..(b - 1)
    OBVIOUS
  <2> QED  BY <1>1, <2>1 DEF Rem
<1>2. CASE ~(a >= 0)
  <2>1. (-a) % b \in 0..(b - 1)
    OBVIOUS
  <2> QED  BY <1>2, <2>1 DEF Rem
<1> QED  BY <1>1, <1>2

(* The remainder of what is less than twice the divisor.                   *)
LEMMA RemOnce ==
    ASSUME NEW b \in Nat \ {0}, NEW a \in 0..(b + b - 1)
    PROVE  Rem(a, b) = (IF a < b THEN a ELSE a - b)
BY ModSmall, ModOnce DEF Rem

(* The shift that is made of a key lies within the alphabet and is its own.*)
LEMMA Shift ==
    ASSUME NEW key \in Int
    PROVE  /\ Normalized(key) \in 0..(Letters - 1)
           /\ key \in 0..(Letters - 1) => Normalized(key) = key
<1>1. Letters \in Nat \ {0}
  BY CiphersAssumption
<1>2. Rem(key, Letters) \in (1 - Letters)..(Letters - 1)
  BY <1>1, RemRange
<1> DEFINE r == Rem(key, Letters)
           s == r + Letters
<1>3. s \in 0..(Letters + Letters - 1)
  BY <1>1, <1>2
<1>4. Rem(s, Letters) = IF s < Letters THEN s ELSE s - Letters
  <2> HIDE DEF s
  <2> QED  BY <1>1, <1>3, RemOnce
<1>5. Normalized(key) = Rem(s, Letters)
  BY DEF Normalized
<1>6. key \in 0..(Letters - 1) => r = key
  BY <1>1, RemOnce
<1> QED  BY <1>1, <1>2, <1>3, <1>4, <1>5, <1>6

(* What CiphersAssumption says a text consists of.                         *)
Letter == [upper : BOOLEAN, at : Int]

(* Encryption keeps the letters letters, of their case, and decryption     *)
(* brings back the text.                                                   *)
Kept(text, made) ==
    /\ DOMAIN made = DOMAIN text
    /\ \A i \in DOMAIN text : IsLetter(made[i]) = IsLetter(text[i]) /\ made[i].upper = text[i].upper

(* The shift back undoes the shift.                                        *)
LEMMA CaesarBack ==
    ASSUME NEW text \in Seq(Letter), NEW key \in Int
    PROVE  /\ encrypt_caesar(text, key) \in Seq(Letter)
           /\ Kept(text, encrypt_caesar(text, key))
           /\ decrypt_caesar(encrypt_caesar(text, key), key) = text
<1> DEFINE k == Normalized(key)
           e == encrypt_caesar(text, key)
           d == decrypt_caesar(e, key)
<1>1. Letters \in Nat \ {0} /\ k \in 0..(Letters - 1)
  BY CiphersAssumption, Shift
<1>2. ASSUME NEW a \in 0..(Letters - 1)
      PROVE  /\ Rem(a + k, Letters) \in 0..(Letters - 1)
             /\ Rem(Rem(a + k, Letters) - k + Letters, Letters) = a
  <2> DEFINE b == a + k
             c == Rem(b, Letters)
             x == c - k + Letters
  <2>r. \A y \in 0..(Letters + Letters - 1) : Rem(y, Letters) = IF y < Letters THEN y ELSE y - Letters
    BY <1>1, RemOnce
  <2>1. b \in 0..(Letters + Letters - 1)
    BY <1>1
  <2>2. c = IF b < Letters THEN b ELSE b - Letters
    <3> HIDE DEF b, k
    <3> QED  BY <2>r, <2>1
  <2>3. c \in 0..(Letters - 1) /\ x \in 0..(Letters + Letters - 1)
    <3> HIDE DEF c
    <3> QED  BY <1>1, <2>1, <2>2
  <2>4. Rem(x, Letters) = IF x < Letters THEN x ELSE x - Letters
    <3> HIDE DEF x
    <3> QED  BY <2>r, <2>3
  <2>5. Rem(x, Letters) = a
    <3> HIDE DEF c
    <3> QED  BY <1>1, <2>1, <2>2, <2>4
  <2> QED  BY <2>3, <2>5
<1>3. /\ e = [i \in DOMAIN text |-> IF IsLetter(text[i]) THEN [text[i] EXCEPT !.at = Rem(text[i].at + k, Letters)] ELSE text[i]]
      /\ d = [i \in DOMAIN e |-> IF IsLetter(e[i]) THEN [e[i] EXCEPT !.at = Rem(e[i].at - k + Letters, Letters)] ELSE e[i]]
  BY DEF encrypt_caesar, decrypt_caesar, Mapped
<1> HIDE DEF k, e, d
<1>4. ASSUME NEW i \in DOMAIN text
      PROVE  /\ e[i] \in Letter /\ IsLetter(e[i]) = IsLetter(text[i]) /\ e[i].upper = text[i].upper
             /\ d[i] = text[i]
  <2>1. text[i] \in Letter /\ i \in DOMAIN e
    BY <1>3
  <2>2. CASE IsLetter(text[i])
    <3>1. text[i].at \in 0..(Letters - 1)
      BY <2>2 DEF IsLetter
    <3>2. e[i] = [upper |-> text[i].upper, at |-> Rem(text[i].at + k, Letters)]
      BY <1>3, <2>1, <2>2 DEF Letter
    <3>3. e[i].at \in 0..(Letters - 1) /\ IsLetter(e[i])
      BY <1>2, <3>1, <3>2 DEF IsLetter
    <3>4. d[i] = [upper |-> e[i].upper, at |-> Rem(e[i].at - k + Letters, Letters)]
      BY <1>3, <2>1, <3>2, <3>3
    <3>5. d[i].at = text[i].at /\ d[i].upper = text[i].upper
      BY <1>2, <3>1, <3>2, <3>4
    <3>6. d[i] = text[i]
      BY <2>1, <3>4, <3>5 DEF Letter
    <3> QED  BY <1>1, <2>1, <2>2, <3>2, <3>3, <3>6 DEF Letter
  <2>3. CASE ~IsLetter(text[i])
    BY <1>3, <2>1, <2>3
  <2> QED  BY <2>2, <2>3
<1>5. DOMAIN e = DOMAIN text /\ DOMAIN d = DOMAIN text /\ DOMAIN text = 1..Len(text) /\ Len(text) \in Nat
  BY <1>3
<1>6. e \in Seq(Letter)
  BY <1>3, <1>4, <1>5
<1>7. d = text
  BY <1>3, <1>4, <1>5
<1> QED  BY <1>4, <1>5, <1>6, <1>7 DEF Kept, e, d

(* The reversed key undoes a key that validate_key accepts.                *)
LEMMA SubstitutionBack ==
    ASSUME NEW text \in Seq(Letter), NEW key \in Seq(Int), validate_key(key)
    PROVE  /\ Kept(text, encrypt_substitution(text, key))
           /\ decrypt_substitution(encrypt_substitution(text, key), key) = text
<1> DEFINE e == encrypt_substitution(text, key)
           d == decrypt_substitution(e, key)
<1>1. Letters \in Nat \ {0} /\ DOMAIN key = 1..Letters
  BY CiphersAssumption DEF validate_key
<1>2. ASSUME NEW a \in 0..(Letters - 1)
      PROVE  key[a + 1] \in 0..(Letters - 1) /\ reverse_key(key, key[a + 1]) = a
  <2>1. a + 1 \in DOMAIN key
    BY <1>1
  <2>2. key[a + 1] \in 0..(Letters - 1)
    BY <2>1 DEF validate_key
  <2>3. ASSUME NEW b \in 0..(Letters - 1), key[b + 1] = key[a + 1] PROVE b = a
    <3>1. a + 1 \in DOMAIN key /\ b + 1 \in DOMAIN key
      BY <1>1
    <3>2. ~(b < a)
      <4>1. b < a => b + 1 \in 1..((a + 1) - 1)
        OBVIOUS
      <4> QED  BY <2>3, <3>1, <4>1 DEF validate_key
    <3>3. ~(a < b)
      <4>1. a < b => a + 1 \in 1..((b + 1) - 1)
        OBVIOUS
      <4> QED  BY <2>3, <3>1, <4>1 DEF validate_key
    <3> QED  BY <1>1, <3>2, <3>3
  <2> QED  BY <2>2, <2>3 DEF reverse_key
<1>3. /\ e = [i \in DOMAIN text |-> IF IsLetter(text[i]) THEN [text[i] EXCEPT !.at = key[text[i].at + 1]] ELSE text[i]]
      /\ d = [i \in DOMAIN e |-> IF IsLetter(e[i]) THEN [e[i] EXCEPT !.at = reverse_key(key, e[i].at)] ELSE e[i]]
  BY DEF encrypt_substitution, decrypt_substitution, Mapped
<1> HIDE DEF e, d
<1>4. ASSUME NEW i \in DOMAIN text
      PROVE  /\ IsLetter(e[i]) = IsLetter(text[i]) /\ e[i].upper = text[i].upper
             /\ d[i] = text[i]
  <2>1. text[i] \in Letter /\ i \in DOMAIN e
    BY <1>3
  <2>2. CASE IsLetter(text[i])
    <3>1. text[i].at \in 0..(Letters - 1)
      BY <2>2 DEF IsLetter
    <3>2. e[i] = [upper |-> text[i].upper, at |-> key[text[i].at + 1]]
      BY <1>3, <2>1, <2>2 DEF Letter
    <3>3. e[i].at \in 0..(Letters - 1) /\ IsLetter(e[i])
      BY <1>2, <3>1, <3>2 DEF IsLetter
    <3>4. d[i] = [upper |-> e[i].upper, at |-> reverse_key(key, e[i].at)]
      BY <1>3, <2>1, <3>2, <3>3
    <3>5. d[i].at = text[i].at /\ d[i].upper = text[i].upper
      BY <1>2, <3>1, <3>2, <3>4
    <3>6. d[i] = text[i]
      BY <2>1, <3>4, <3>5 DEF Letter
    <3> QED  BY <2>2, <3>2, <3>3, <3>6
  <2>3. CASE ~IsLetter(text[i])
    BY <1>3, <2>1, <2>3
  <2> QED  BY <2>2, <2>3
<1>5. DOMAIN e = DOMAIN text /\ DOMAIN d = DOMAIN text /\ DOMAIN text = 1..Len(text) /\ Len(text) \in Nat
  BY <1>3
<1>6. d = text
  BY <1>3, <1>4, <1>5
<1> QED  BY <1>4, <1>5, <1>6 DEF Kept, e, d

(* The shifts the attack tries are all that move a letter.                 *)
LEMMA AttackMeetsText ==
    ASSUME NEW text \in Seq(Letter), NEW key \in Int
    PROVE  text \in brute_force_attack(encrypt_caesar(text, key)) \cup {encrypt_caesar(text, key)}
<1> DEFINE k == Normalized(key)
           e == encrypt_caesar(text, key)
<1>1. Letters \in Nat \ {0} /\ k \in 0..(Letters - 1) /\ Normalized(k) = k
  BY CiphersAssumption, Shift
<1>2. CASE k = 0
  <2>1. e = [i \in DOMAIN text |-> IF IsLetter(text[i]) THEN [text[i] EXCEPT !.at = Rem(text[i].at + k, Letters)] ELSE text[i]]
    BY DEF encrypt_caesar, Mapped
  <2>2. ASSUME NEW i \in DOMAIN text PROVE e[i] = text[i]
    <3>1. text[i] \in Letter
      OBVIOUS
    <3>2. CASE IsLetter(text[i])
      <4>1. text[i].at \in 0..(Letters - 1)
        BY <3>2 DEF IsLetter
      <4>2. text[i].at + k = text[i].at
        BY <1>2, <4>1
      <4>3. Rem(text[i].at, Letters) = text[i].at
        BY <1>1, <4>1, RemOnce
      <4> QED  BY <2>1, <3>1, <3>2, <4>2, <4>3 DEF Letter
    <3>3. CASE ~IsLetter(text[i])
      BY <2>1, <3>3
    <3> QED  BY <3>2, <3>3
  <2>3. e = text
    <3> HIDE DEF e
    <3> QED  BY <2>1, <2>2
  <2> QED  BY <2>3
<1>3. CASE k # 0
  <2>1. decrypt_caesar(e, k) = decrypt_caesar(e, key)
    BY <1>1 DEF decrypt_caesar
  <2>2. decrypt_caesar(e, key) = text
    BY CaesarBack
  <2>3. k \in 1..(Letters - 1)
    BY <1>1, <1>3
  <2> QED  BY <2>1, <2>2, <2>3 DEF brute_force_attack
<1> QED  BY <1>2, <1>3

-----------------------------------------------------------------------------
(* What a run has done with its job so far.                                *)
Encrypted(j) == IF j.cipher = "caesar" THEN encrypt_caesar(j.text, j.key) ELSE encrypt_substitution(j.text, j.key)
Decrypted(j, c) == IF j.cipher = "caesar" THEN decrypt_caesar(c, j.key) ELSE decrypt_substitution(c, j.key)
CipherInv ==
    job \in Jobs /\ (job.cipher # "rsa" =>
        /\ cstep \in {"encrypted", "done"} => Accepts(job) /\ cipher = Encrypted(job)
        /\ cstep = "done" => plain = Decrypted(job, cipher)
        /\ cstep = "refused" => job.cipher # "caesar")

(* caesar_cipher.c and substitution_cipher.c give back every text they     *)
(* encrypt, with any shift and any key validate_key lets through, for any  *)
(* size of the alphabet; the brute force meets the plain text.             *)
THEOREM CiphersCorrect == CipherSpec => []CiphersInvert
<1>1. CipherInit => CipherInv
  BY DEF CipherInit, CipherInv
<1>2. CipherInv /\ [CipherNext]_cipherVars => CipherInv'
  <2> SUFFICES ASSUME CipherInv, [CipherNext]_cipherVars PROVE CipherInv'
    OBVIOUS
  <2>1. CASE Encrypt
    <3>1. job' = job /\ cstep' = "encrypted" /\ job \in Jobs /\ Accepts(job)
      BY <2>1 DEF Encrypt, CipherInv
    <3>2. ASSUME job.cipher # "rsa" PROVE cipher' = Encrypted(job)
      BY <2>1, <3>1, <3>2, CiphersAssumption DEF Encrypt, Encrypted
    <3> QED  BY <3>1, <3>2 DEF CipherInv, Accepts
  <2>2. CASE Refuse
    BY <2>2 DEF Refuse, CipherInv, Accepts
  <2>3. CASE Decrypt
    <3>1. job' = job /\ cipher' = cipher /\ cstep' = "done" /\ cstep = "encrypted" /\ job \in Jobs
      BY <2>3 DEF Decrypt, CipherInv
    <3>2. ASSUME job.cipher # "rsa" PROVE plain' = Decrypted(job, cipher)
      BY <2>3, <3>1, <3>2, CiphersAssumption DEF Decrypt, Decrypted
    <3> QED  BY <3>1, <3>2 DEF CipherInv, Accepts
  <2>4. CASE UNCHANGED cipherVars
    BY <2>4 DEF cipherVars, CipherInv, Accepts
  <2> QED  BY <2>1, <2>2, <2>3, <2>4 DEF CipherNext
<1>3. CipherInv => CiphersInvert
  <2> SUFFICES ASSUME CipherInv, job.cipher # "rsa", cstep = "done"
               PROVE  /\ plain = job.text /\ Kept(job.text, cipher)
                      /\ job.cipher = "caesar" => job.text \in brute_force_attack(cipher) \cup {cipher}
    BY DEF CipherInv, CiphersInvert, Kept
  <2>1. job.text \in Seq(Letter) /\ Accepts(job) /\ cipher = Encrypted(job) /\ plain = Decrypted(job, cipher)
        /\ job.cipher \in {"caesar", "substitution"}
    BY CiphersAssumption DEF CipherInv, Letter
  <2>2. CASE job.cipher = "caesar"
    <3>1. job.key \in Int
      BY <2>2, CiphersAssumption DEF CipherInv
    <3> QED  BY <2>1, <2>2, <3>1, CaesarBack, AttackMeetsText DEF Encrypted, Decrypted
  <2>3. CASE job.cipher = "substitution"
    <3>1. job.key \in Seq(Int) /\ validate_key(job.key)
      BY <2>1, <2>3, CiphersAssumption DEF CipherInv, Accepts
    <3> QED  BY <2>1, <2>3, <3>1, SubstitutionBack DEF Encrypted, Decrypted
  <2> QED  BY <2>1, <2>2, <2>3
<1> QED  BY <1>1, <1>2, <1>3, PTL DEF CipherSpec

-----------------------------------------------------------------------------
(* stop_and_wait.c, go_back_n.c and selective_repeat.c.                    *)

(* The number of frames, the first n of them, and the first that S lacks.  *)
Total == sim.total
Up(n) == 0..(n - 1)
First(S, t) == CHOOSE n \in 0..t : n \notin S /\ 0..(n - 1) \subseteq S

(* h frames were transmitted, a acknowledged and u handed up: how these    *)
(* numbers go with the place in stop_and_wait.c, ...                       *)
SwAt(h, a, u) ==
    /\ a = frame
    /\ \/ phase = "send" /\ tries = 0 /\ h = frame /\ u = frame /\ frame < Total
       \/ phase = "send" /\ tries = 1 /\ h = frame + 1 /\ frame < Total
          /\ ((frame = 1 /\ u = frame) \/ (frame = 3 /\ u = frame + 1))
       \/ phase = "flight" /\ tries >= 1 /\ h = frame + 1 /\ frame < Total
          /\ u = IF SwDuplicate THEN frame + 1 ELSE frame
       \/ phase = "answer" /\ tries >= 1 /\ h = frame + 1 /\ u = frame + 1 /\ frame < Total
       \/ phase = "done" /\ h = frame /\ u = frame

(* ... in go_back_n.c, which hands up just what it acknowledges, ...       *)
GbnAt(h, a, u) ==
    /\ u = a /\ a <= h
    /\ \/ phase = "send" /\ a <= frame /\ frame <= h /\ (tries = 0 => a = 0 /\ frame = h)
       \/ phase = "discard" /\ a = 1
       \/ phase = "arrive" /\ a <= frame /\ frame <= h /\ tries # 0
       \/ phase = "done"

(* ... and in selective_repeat.c, whose buffer waits for frame 1.          *)
SrAt(h, a, u) ==
    /\ u = a
    /\ \/ phase = "send" /\ frame <= 4 /\ h = frame /\ a = 0
       \/ phase = "buffer" /\ frame \in 2..4 /\ h = 4 /\ a = 1
       \/ phase = "rest" /\ frame >= 4 /\ frame < Total /\ h = frame /\ a = frame
       \/ phase = "arrive" /\ frame >= 4 /\ frame < Total /\ h = frame + 1 /\ a = frame
       \/ phase = "done" /\ h = a

(* The three together, one of which runs.                                  *)
At(h, a, u) ==
    \/ sim.protocol = "stop_and_wait" /\ SwAt(h, a, u)
    \/ sim.protocol = "go_back_n" /\ GbnAt(h, a, u)
    \/ sim.protocol = "selective_repeat" /\ SrAt(h, a, u)

(* The frames that the numbers stand for.                                  *)
Counted(h, a, u) ==
    /\ transmitted = Up(h) /\ delivered = Sliding!Frames(u)
    /\ acked = IF phase = "buffer" THEN {0} \cup 2..(frame - 1) ELSE Up(a)

(* The inductive invariant.                                                *)
ArqInv ==
    /\ sim \in Simulations /\ frame \in Nat /\ tries \in Nat
    /\ \E h, a, u \in 0..Total : At(h, a, u) /\ Counted(h, a, u)

(* The next frame joins the first n.                                       *)
LEMMA UpGrows == ASSUME NEW n \in Nat PROVE Up(n) \cup {n} = Up(n + 1) /\ Up(0) = {}
  BY DEF Up

(* A frame that is among the first n does not.                             *)
LEMMA UpHas == ASSUME NEW n \in Nat, NEW m \in 0..(n - 1) PROVE Up(n) \cup {m} = Up(n)
  BY DEF Up

(* The least frame that is not among the first n is n.                     *)
LEMMA FirstUp ==
    ASSUME NEW t \in Nat, NEW n \in 0..t
    PROVE  First(Up(n), t) = n
<1>1. n \notin Up(n) /\ 0..(n - 1) \subseteq Up(n)
  BY DEF Up
<1>2. ASSUME NEW m \in 0..t, m \notin Up(n), 0..(m - 1) \subseteq Up(n) PROVE m = n
  <2>1. ~(m < n)
    BY <1>2 DEF Up
  <2>2. ~(m > n)
    <3>1. m > n => n \in 0..(m - 1)
      OBVIOUS
    <3> QED  BY <1>1, <1>2, <3>1
  <2> QED  BY <2>1, <2>2
<1> QED  BY <1>1, <1>2 DEF First

(* The frames in the buffer wait for frame 1.                              *)
LEMMA FirstHole ==
    ASSUME NEW t \in Nat, t >= 1, NEW m \in Int
    PROVE  First({0} \cup 2..m, t) = 1
<1> DEFINE S == {0} \cup 2..m
<1>1. 1 \notin S /\ 0..(1 - 1) \subseteq S /\ 1 \in 0..t
  OBVIOUS
<1>2. ASSUME NEW n \in 0..t, n \notin S, 0..(n - 1) \subseteq S PROVE n = 1
  <2>1. n # 0
    BY <1>2
  <2>2. ~(n > 1)
    <3>1. n > 1 => 1 \in 0..(n - 1)
      OBVIOUS
    <3> QED  BY <1>1, <1>2, <3>1
  <2> QED  BY <2>1, <2>2
<1> HIDE DEF S
<1> QED  BY <1>1, <1>2 DEF First, S

(* What the receiver has handed up grows frame by frame.                   *)
LEMMA FramesGrow ==
    /\ Sliding!Frames(0) = <<>>
    /\ \A n \in Nat : /\ Append(Sliding!Frames(n), n) = Sliding!Frames(n + 1)
                      /\ Len(Sliding!Frames(n)) = n
    /\ Sliding!Frames(1) \o <<1, 2, 3>> = Sliding!Frames(4)
<1>1. Sliding!Frames(0) = <<>>
  BY DEF Sliding!Frames
<1>2. ASSUME NEW n \in Nat
      PROVE  Append(Sliding!Frames(n), n) = Sliding!Frames(n + 1) /\ Len(Sliding!Frames(n)) = n
  BY DEF Sliding!Frames
<1>3. Sliding!Frames(1) \o <<1, 2, 3>> = Sliding!Frames(4)
  BY DEF Sliding!Frames
<1> QED  BY <1>1, <1>2, <1>3

(* What the abstract specification sees of a state.                        *)
LEMMA View ==
    ASSUME sim \in Simulations, NEW h \in 0..Total, NEW a \in 0..Total, NEW u \in 0..Total,
           At(h, a, u), Counted(h, a, u)
    PROVE  /\ Prefix(transmitted) = h /\ ack_expected = a
           /\ delivered = Sliding!Frames(u)
<1>1. Total \in Nat \ {0}
  BY ArqAssumption DEF Total
<1>2. Prefix(transmitted) = First(transmitted, Total) /\ ack_expected = First(acked, Total)
  BY DEF Prefix, First, ack_expected, Total
<1>3. First(transmitted, Total) = h
  BY <1>1, FirstUp DEF Counted
<1>4. CASE phase = "buffer"
  <2>1. a = 1 /\ frame \in 2..4
    BY <1>4 DEF At, SwAt, GbnAt, SrAt
  <2>2. First(acked, Total) = 1
    <3> DEFINE m == frame - 1
    <3>1. m \in Int /\ acked = {0} \cup 2..m
      BY <1>4, <2>1 DEF Counted
    <3> HIDE DEF m
    <3> QED  BY <1>1, <3>1, FirstHole
  <2> QED  BY <1>2, <1>3, <2>1, <2>2 DEF Counted
<1>5. CASE phase # "buffer"
  BY <1>1, <1>2, <1>3, <1>5, FirstUp DEF Counted
<1> QED  BY <1>4, <1>5

(* View, for every state of a behaviour.                                   *)
Seen ==
    \A h, a, u \in Nat :
        sim \in Simulations /\ {h, a, u} \subseteq 0..Total /\ At(h, a, u) /\ Counted(h, a, u)
        => Prefix(transmitted) = h /\ ack_expected = a /\ delivered = Sliding!Frames(u)

(* View as a formula of a state ...                                        *)
LEMMA SeenNow == Seen
  BY View DEF Seen

(* ... and of the next state.                                              *)
LEMMA SeenNext == Seen'
  BY SeenNow, PTL

(* Nothing happens, or what Transmit, Receive and Acknowledge do.          *)
Moves(h, a, u, h2, a2, u2) ==
    \/ h2 = h /\ a2 = a /\ u2 = u
    \/ h2 = h + 1 /\ h < Total /\ h < a + sim.window /\ a2 = a /\ u2 = u
    \/ h2 = h /\ u2 \in (u + 1)..h /\ a2 \in a..u2
    \/ h2 = h /\ u2 = u /\ a2 \in (a + 1)..u

(* A move of the numbers is a step of SlidingWindow, or none.              *)
LEMMA MovesSlide ==
    ASSUME sim \in Simulations, sim' = sim,
           NEW h \in 0..Total, NEW a \in 0..Total, NEW u \in 0..Total, At(h, a, u), Counted(h, a, u),
           NEW h2 \in 0..Total, NEW a2 \in 0..Total, NEW u2 \in 0..Total, At(h2, a2, u2)', Counted(h2, a2, u2)',
           Moves(h, a, u, h2, a2, u2)
    PROVE  [Sliding!SlidingNext]_(Sliding!slidingVars)
<1>1. Prefix(transmitted) = h /\ ack_expected = a /\ delivered = Sliding!Frames(u) /\ Len(delivered) = u
  <2>1. Prefix(transmitted) = h /\ ack_expected = a /\ delivered = Sliding!Frames(u)
    BY View
  <2>2. u \in Nat
    BY ArqAssumption DEF Total
  <2> QED  BY <2>1, <2>2, FramesGrow
<1>2. Prefix(transmitted)' = h2 /\ ack_expected' = a2 /\ delivered' = Sliding!Frames(u2) /\ Len(delivered') = u2
  <2>1. Total' = Total /\ Total \in Nat
    BY ArqAssumption DEF Total
  <2>2. Seen'
    BY SeenNext
  <2>3. h2 \in Nat /\ a2 \in Nat /\ u2 \in Nat /\ {h2, a2, u2} \subseteq 0..Total' /\ sim' \in Simulations
    BY <2>1
  <2>4. Prefix(transmitted)' = h2 /\ ack_expected' = a2 /\ delivered' = Sliding!Frames(u2)
    BY <2>2, <2>3 DEF Seen
  <2> QED  BY <2>3, <2>4, FramesGrow
<1>3. CASE h2 = h /\ a2 = a /\ u2 = u
  BY <1>1, <1>2, <1>3 DEF Sliding!slidingVars
<1>4. CASE h2 = h + 1 /\ h < Total /\ h < a + sim.window /\ a2 = a /\ u2 = u
  BY <1>1, <1>2, <1>4 DEF Sliding!SlidingNext, Sliding!Transmit, Total
<1>5. CASE h2 = h /\ u2 \in (u + 1)..h /\ a2 \in a..u2
  BY <1>1, <1>2, <1>5 DEF Sliding!SlidingNext, Sliding!Receive
<1>6. CASE h2 = h /\ u2 = u /\ a2 \in (a + 1)..u
  BY <1>1, <1>2, <1>6 DEF Sliding!SlidingNext, Sliding!Acknowledge
<1> QED  BY <1>3, <1>4, <1>5, <1>6 DEF Moves

(* One step of each program.                                               *)
Goes(h, a, u) ==
    /\ sim' = sim /\ frame' \in Nat /\ tries' \in Nat
    /\ \E h2, a2, u2 \in 0..Total :
          At(h2, a2, u2)' /\ Counted(h2, a2, u2)' /\ Moves(h, a, u, h2, a2, u2)

(* Every step of stop_and_wait.c moves the numbers so.                     *)
LEMMA StopAndWaitGoes ==
    ASSUME sim \in Simulations, frame \in Nat, tries \in Nat, StopAndWait,
           NEW h \in 0..Total, NEW a \in 0..Total, NEW u \in 0..Total, At(h, a, u), Counted(h, a, u)
    PROVE  Goes(h, a, u)
<1>1. Total \in Nat \ {0} /\ sim.window = 1 /\ sim' = sim /\ sim.protocol = "stop_and_wait"
  BY ArqAssumption
     DEF Total, StopAndWait, SwTransmit, SwFrameLost, SwFrameArrives, SwAckLost, SwAck, Is
<1>2. SwAt(h, a, u)
  BY <1>1 DEF At
<1>3. transmitted = Up(h) /\ delivered = Sliding!Frames(u) /\ acked = Up(a)
  BY <1>2 DEF Counted, SwAt
<1>4. ASSUME NEW h2 \in 0..Total, NEW a2 \in 0..Total, NEW u2 \in 0..Total,
             SwAt(h2, a2, u2)', frame' \in Nat, tries' \in Nat, phase' # "buffer", Moves(h, a, u, h2, a2, u2),
             transmitted' = Up(h2), delivered' = Sliding!Frames(u2), acked' = Up(a2)
      PROVE  Goes(h, a, u)
  BY <1>1, <1>4 DEF Goes, At, Counted
<1>5. CASE SwTransmit
  <2>1. /\ phase = "send" /\ phase' = "flight" /\ tries' = tries + 1 /\ frame' = frame
        /\ acked' = acked /\ delivered' = delivered /\ frame + 1 \in 0..Total /\ a = frame
    BY <1>1, <1>2, <1>5 DEF SwTransmit, Is, SwAt
  <2>2. transmitted' = Up(frame + 1)
    <3>1. h = frame \/ h = frame + 1
      BY <1>2, <2>1 DEF SwAt
    <3>2. CASE h = frame
      BY <1>3, <1>5, <3>2, UpGrows DEF SwTransmit
    <3>3. CASE h = frame + 1
      <4>1. frame \in 0..(h - 1)
        BY <3>3
      <4> QED  BY <1>3, <1>5, <3>3, <4>1, UpHas DEF SwTransmit
    <3> QED  BY <3>1, <3>2, <3>3
  <2>3. SwAt(frame + 1, a, u)'
    BY <1>1, <1>2, <2>1 DEF SwAt, SwDuplicate, Total
  <2>4. Moves(h, a, u, frame + 1, a, u)
    BY <1>1, <1>2, <2>1 DEF SwAt, Moves
  <2> QED  BY <1>3, <1>4, <2>1, <2>2, <2>3, <2>4
<1>6. CASE SwFrameLost
  <2>1. phase' = "send" /\ SwAt(h, a, u)' /\ Moves(h, a, u, h, a, u)
    BY <1>1, <1>2, <1>6 DEF SwFrameLost, Is, SwAt, SwDuplicate, Total, Moves
  <2> QED  BY <1>3, <1>4, <1>6, <2>1 DEF SwFrameLost
<1>7. CASE SwFrameArrives
  <2>1. delivered' = Sliding!Frames(frame + 1)
    <3>1. CASE SwDuplicate
      BY <1>2, <1>3, <1>7, <3>1 DEF SwFrameArrives, SwAt, Is
    <3>2. CASE ~SwDuplicate
      BY <1>2, <1>3, <1>7, <3>2, FramesGrow DEF SwFrameArrives, SwAt, Is
    <3> QED  BY <3>1, <3>2
  <2>2. /\ phase' = "answer" /\ SwAt(h, a, frame + 1)' /\ Moves(h, a, u, h, a, frame + 1)
        /\ frame + 1 \in 0..Total
    BY <1>1, <1>2, <1>7 DEF SwFrameArrives, Is, SwAt, SwDuplicate, Total, Moves
  <2> QED  BY <1>3, <1>4, <1>7, <2>1, <2>2 DEF SwFrameArrives
<1>8. CASE SwAckLost
  <2>1. phase' = "send" /\ SwAt(h, a, u)' /\ Moves(h, a, u, h, a, u)
    BY <1>1, <1>2, <1>8 DEF SwAckLost, Is, SwAt, SwDuplicate, Total, Moves
  <2> QED  BY <1>3, <1>4, <1>8, <2>1 DEF SwAckLost
<1>9. CASE SwAck
  <2>1. /\ frame' = frame + 1 /\ tries' = 0 /\ phase' = IF frame + 1 < Total THEN "send" ELSE "done"
        /\ acked' = acked \cup {frame} /\ a = frame /\ h = frame + 1 /\ u = frame + 1 /\ frame + 1 \in 0..Total
    BY <1>1, <1>2, <1>9 DEF SwAck, Is, SwAt, Continue, Total
  <2>2. acked' = Up(u)
    BY <1>3, <2>1, UpGrows
  <2>3. SwAt(h, u, u)' /\ Moves(h, a, u, h, u, u)
    BY <1>1, <2>1 DEF SwAt, Total, Moves
  <2> QED  BY <1>3, <1>4, <1>9, <2>1, <2>2, <2>3 DEF SwAck
<1> QED  BY <1>5, <1>6, <1>7, <1>8, <1>9 DEF StopAndWait

(* Handing up the next frame acknowledges it as well.                      *)
LEMMA HandsUp ==
    ASSUME NEW f \in Nat, acked = Up(f), delivered = Sliding!Frames(f), HandUp(f)
    PROVE  acked' = Up(f + 1) /\ delivered' = Sliding!Frames(f + 1)
BY UpGrows, FramesGrow DEF HandUp

(* Every step of go_back_n.c moves the numbers so.                         *)
LEMMA GoBackNGoes ==
    ASSUME sim \in Simulations, frame \in Nat, tries \in Nat, GoBackN,
           NEW h \in 0..Total, NEW a \in 0..Total, NEW u \in 0..Total, At(h, a, u), Counted(h, a, u)
    PROVE  Goes(h, a, u)
<1>1. /\ Total \in Nat \ {0} /\ sim.window \in Nat \ {0} /\ sim' = sim /\ sim.protocol = "go_back_n"
      /\ ack_expected = a
  BY View, ArqAssumption
     DEF Total, GoBackN, GbnTransmit, GbnFirstWindow, GbnRollBack, GbnWindowSent, GbnAccept, GbnWindowDone, Is
<1>2. GbnAt(h, a, u)
  BY <1>1 DEF At
<1>3. transmitted = Up(h) /\ delivered = Sliding!Frames(a) /\ acked = Up(a) /\ u = a
  BY <1>2 DEF Counted, GbnAt
<1>4. ASSUME NEW h2 \in 0..Total, NEW a2 \in 0..Total,
             GbnAt(h2, a2, a2)', frame' \in Nat, tries' \in Nat, phase' # "buffer", Moves(h, a, u, h2, a2, a2),
             transmitted' = Up(h2), delivered' = Sliding!Frames(a2), acked' = Up(a2)
      PROVE  Goes(h, a, u)
  BY <1>1, <1>4 DEF Goes, At, Counted
<1>5. CASE GbnTransmit
  <2>1. /\ phase = "send" /\ phase' = "send" /\ tries' = tries /\ frame' = frame + 1 /\ acked' = acked
        /\ delivered' = delivered /\ frame < a + sim.window /\ frame < Total
        /\ transmitted' = transmitted \cup {frame}
    BY <1>1, <1>5 DEF GbnTransmit, Is, InWindow, Total
  <2>2. CASE frame = h
    <3> PICK k \in 0..Total : k = h + 1
      BY <1>1, <2>1, <2>2
    <3>1. transmitted' = Up(k)
      BY <1>3, <2>1, <2>2, UpGrows
    <3>2. GbnAt(k, a, a)' /\ Moves(h, a, u, k, a, a)
      BY <1>1, <1>2, <2>1, <2>2 DEF GbnAt, Moves
    <3> QED  BY <1>3, <1>4, <2>1, <3>1, <3>2
  <2>3. CASE frame # h
    <3>1. frame \in 0..(h - 1) /\ tries # 0
      BY <1>2, <2>1, <2>3 DEF GbnAt
    <3>2. transmitted' = Up(h)
      BY <1>3, <2>1, <3>1, UpHas
    <3>3. GbnAt(h, a, a)' /\ Moves(h, a, u, h, a, a)
      BY <1>1, <1>2, <2>1, <3>1 DEF GbnAt, Moves
    <3> QED  BY <1>3, <1>4, <2>1, <3>2, <3>3
  <2> QED  BY <2>2, <2>3
<1>6. CASE GbnFirstWindow
  <2>1. /\ phase = "send" /\ phase' = "discard" /\ tries' = tries /\ frame' = frame /\ transmitted' = transmitted
        /\ a = 0 /\ HandUp(0) /\ tries = 0 /\ frame = h /\ ~(frame < sim.window /\ frame < Total)
    BY <1>1, <1>2, <1>6 DEF GbnFirstWindow, Is, InWindow, Total, GbnAt
  <2>2. h >= 1 /\ 1 \in 0..Total
    BY <1>1, <2>1
  <2>3. acked' = Up(1) /\ delivered' = Sliding!Frames(1)
    BY <1>3, <2>1, HandsUp
  <2>4. GbnAt(h, 1, 1)' /\ Moves(h, a, u, h, 1, 1)
    BY <1>3, <2>1, <2>2 DEF GbnAt, Moves
  <2> QED  BY <1>3, <1>4, <2>1, <2>2, <2>3, <2>4
<1>7. CASE GbnRollBack
  <2>1. /\ frame' = 1 /\ tries' = 1 /\ phase' \in {"send", "done"} /\ UNCHANGED <<transmitted, acked, delivered>>
        /\ a = 1 /\ GbnAt(h, a, a)' /\ Moves(h, a, u, h, a, a)
    BY <1>2, <1>3, <1>7 DEF GbnRollBack, Is, Continue, GbnAt, Moves
  <2> QED  BY <1>3, <1>4, <2>1
<1>8. CASE GbnWindowSent
  <2>1. phase' = "arrive" /\ GbnAt(h, a, a)' /\ Moves(h, a, u, h, a, a)
    BY <1>1, <1>2, <1>3, <1>8 DEF GbnWindowSent, Is, GbnAt, Moves
  <2> QED  BY <1>3, <1>4, <1>8, <2>1 DEF GbnWindowSent
<1>9. CASE GbnAccept
  <2>1. /\ phase = "arrive" /\ phase' = "arrive" /\ a < frame /\ frame <= h /\ HandUp(a) /\ tries # 0
        /\ UNCHANGED <<frame, tries, transmitted>>
    BY <1>1, <1>2, <1>9 DEF GbnAccept, Is, GbnAt
  <2> PICK k \in 0..Total : k = a + 1
    BY <1>1, <2>1
  <2>2. acked' = Up(k) /\ delivered' = Sliding!Frames(k)
    BY <1>3, <2>1, HandsUp
  <2>3. GbnAt(h, k, k)' /\ Moves(h, a, u, h, k, k)
    BY <1>1, <1>3, <2>1 DEF GbnAt, Moves
  <2> QED  BY <1>3, <1>4, <2>1, <2>2, <2>3
<1>10. CASE GbnWindowDone
  <2>1. phase' \in {"send", "done"} /\ GbnAt(h, a, a)' /\ Moves(h, a, u, h, a, a)
    BY <1>1, <1>2, <1>3, <1>10 DEF GbnWindowDone, Is, Continue, GbnAt, Moves
  <2> QED  BY <1>3, <1>4, <1>10, <2>1 DEF GbnWindowDone
<1> QED  BY <1>5, <1>6, <1>7, <1>8, <1>9, <1>10 DEF GoBackN

(* Every step of selective_repeat.c moves the numbers so.                  *)
LEMMA SelectiveRepeatGoes ==
    ASSUME sim \in Simulations, frame \in Nat, tries \in Nat, SelectiveRepeat,
           NEW h \in 0..Total, NEW a \in 0..Total, NEW u \in 0..Total, At(h, a, u), Counted(h, a, u)
    PROVE  Goes(h, a, u)
<1>1. Total \in Nat /\ Total >= 4 /\ sim.window = 4 /\ sim' = sim /\ sim.protocol = "selective_repeat" /\ tries' = tries
  BY ArqAssumption
     DEF Total, SelectiveRepeat, SrTransmit, SrFirst, SrBuffer, SrRepeat, SrRest, SrRestArrives, Is
<1>2. SrAt(h, a, u)
  BY <1>1 DEF At
<1>3. transmitted = Up(h) /\ delivered = Sliding!Frames(a) /\ u = a /\ (phase # "buffer" => acked = Up(a))
  BY <1>2 DEF Counted, SrAt
<1>4. ASSUME NEW h2 \in 0..Total, NEW a2 \in 0..Total,
             SrAt(h2, a2, a2)', frame' \in Nat, phase' # "buffer", Moves(h, a, u, h2, a2, a2),
             transmitted' = Up(h2), delivered' = Sliding!Frames(a2), acked' = Up(a2)
      PROVE  Goes(h, a, u)
  BY <1>1, <1>4 DEF Goes, At, Counted
<1>5. CASE SrTransmit
  <2>1. /\ phase = "send" /\ phase' = "send" /\ frame' = frame + 1 /\ acked' = acked /\ delivered' = delivered
        /\ frame < 4 /\ transmitted' = transmitted \cup {frame} /\ h = frame /\ a = 0
    BY <1>1, <1>2, <1>5 DEF SrTransmit, Is, SrAt
  <2> PICK k \in 0..Total : k = h + 1
    BY <1>1, <2>1
  <2>2. transmitted' = Up(k)
    BY <1>3, <2>1, UpGrows
  <2>3. SrAt(k, a, a)' /\ Moves(h, a, u, k, a, a)
    BY <1>1, <1>3, <2>1 DEF SrAt, Moves
  <2> QED  BY <1>3, <1>4, <2>1, <2>2, <2>3
<1>6. CASE SrFirst
  <2>1. /\ phase = "send" /\ phase' = "buffer" /\ frame' = 2 /\ transmitted' = transmitted
        /\ h = 4 /\ a = 0 /\ HandUp(0)
    BY <1>1, <1>2, <1>6 DEF SrFirst, Is, SrAt
  <2>2. acked' = Up(1) /\ delivered' = Sliding!Frames(1)
    BY <1>3, <2>1, HandsUp
  <2>3. acked' = {0} \cup 2..(frame' - 1)
    BY <2>1, <2>2 DEF Up
  <2>4. SrAt(h, 1, 1)' /\ Moves(h, a, u, h, 1, 1) /\ 1 \in 0..Total
    BY <1>1, <1>3, <2>1 DEF SrAt, Moves
  <2> QED  BY <1>1, <1>3, <2>1, <2>2, <2>3, <2>4 DEF Goes, At, Counted
<1>7. CASE SrBuffer
  <2>1. /\ phase = "buffer" /\ phase' = "buffer" /\ frame' = frame + 1 /\ UNCHANGED <<transmitted, delivered>>
        /\ acked' = acked \cup {frame} /\ frame \in 2..3 /\ acked = {0} \cup 2..(frame - 1) /\ h = 4 /\ a = 1
    BY <1>1, <1>2, <1>7 DEF SrBuffer, Is, SrAt, Counted
  <2>2. acked' = {0} \cup 2..(frame' - 1)
    BY <2>1
  <2>3. SrAt(h, a, a)' /\ Moves(h, a, u, h, a, a)
    BY <1>1, <1>3, <2>1 DEF SrAt, Moves
  <2> QED  BY <1>1, <1>3, <2>1, <2>2, <2>3 DEF Goes, At, Counted
<1>8. CASE SrRepeat
  <2>1. /\ phase' = (IF 4 < Total THEN "rest" ELSE "done") /\ frame' = 4 /\ transmitted' = transmitted
        /\ acked' = acked \cup {1} /\ delivered' = delivered \o <<1, 2, 3>>
        /\ acked = {0} \cup 2..3 /\ h = 4 /\ a = 1
    BY <1>1, <1>2, <1>8 DEF SrRepeat, Is, SrAt, Counted, Continue, Total
  <2>2. acked' = Up(4)
    BY <2>1 DEF Up
  <2>3. delivered' = Sliding!Frames(4)
    BY <1>3, <2>1, FramesGrow
  <2>4. SrAt(h, 4, 4)' /\ Moves(h, a, u, h, 4, 4) /\ 4 \in 0..Total
    BY <1>1, <1>3, <2>1 DEF SrAt, Moves, Total
  <2> QED  BY <1>3, <1>4, <2>1, <2>2, <2>3, <2>4
<1>9. CASE SrRest
  <2>1. /\ phase = "rest" /\ phase' = "arrive" /\ UNCHANGED <<frame, acked, delivered>>
        /\ transmitted' = transmitted \cup {frame} /\ h = frame /\ a = frame /\ frame >= 4 /\ frame < Total
    BY <1>2, <1>9 DEF SrRest, Is, SrAt
  <2> PICK k \in 0..Total : k = h + 1
    BY <1>1, <2>1
  <2>2. transmitted' = Up(k)
    BY <1>3, <2>1, UpGrows
  <2>3. SrAt(k, a, a)' /\ Moves(h, a, u, k, a, a)
    BY <1>1, <1>3, <2>1 DEF SrAt, Moves, Total
  <2> QED  BY <1>3, <1>4, <2>1, <2>2, <2>3
<1>10. CASE SrRestArrives
  <2>1. /\ phase = "arrive" /\ phase' = (IF frame + 1 < Total THEN "rest" ELSE "done") /\ frame' = frame + 1
        /\ transmitted' = transmitted /\ HandUp(a) /\ h = frame + 1 /\ a = frame /\ frame >= 4 /\ frame < Total
    BY <1>2, <1>10 DEF SrRestArrives, Is, SrAt, Continue, Total
  <2>2. acked' = Up(h) /\ delivered' = Sliding!Frames(h)
    BY <1>3, <2>1, HandsUp
  <2>3. SrAt(h, h, h)' /\ Moves(h, a, u, h, h, h)
    BY <1>1, <1>3, <2>1 DEF SrAt, Moves, Total
  <2> QED  BY <1>3, <1>4, <2>1, <2>2, <2>3
<1> QED  BY <1>5, <1>6, <1>7, <1>8, <1>9, <1>10 DEF SelectiveRepeat

(* The three simulations of Exp07, with any sizes they can be built with,  *)
(* do nothing a sliding window may not: whatever is lost, no frame is      *)
(* handed up twice, out of order or unsent, none is acknowledged before it *)
(* was handed up, and the sender keeps to its window.                      *)
THEOREM SimulationsSlide == ArqSpec => ArqSlides
<1>1. ArqInit => ArqInv /\ Sliding!SlidingInit
  <2> SUFFICES ASSUME ArqInit PROVE ArqInv /\ Sliding!SlidingInit
    OBVIOUS
  <2>1. /\ sim \in Simulations /\ frame = 0 /\ tries = 0 /\ phase = "send" /\ Total \in Nat \ {0} /\ sim.window > 0
        /\ sim.protocol \in {"stop_and_wait", "go_back_n", "selective_repeat"}
    BY ArqAssumption DEF ArqInit, Total
  <2>2. At(0, 0, 0)
    BY <2>1 DEF At, SwAt, GbnAt, SrAt
  <2>3. Counted(0, 0, 0)
    BY UpGrows, FramesGrow DEF ArqInit, Counted
  <2>4. 0 \in 0..Total
    BY <2>1
  <2>5. Prefix(transmitted) = 0 /\ ack_expected = 0
    BY <2>1, <2>2, <2>3, <2>4, View
  <2> QED  BY <2>1, <2>2, <2>3, <2>4, <2>5 DEF ArqInit, ArqInv, Sliding!SlidingInit, Total
<1>2. ArqInv /\ [ArqNext]_arqVars => ArqInv' /\ [Sliding!SlidingNext]_(Sliding!slidingVars)
  <2> SUFFICES ASSUME ArqInv, [ArqNext]_arqVars
               PROVE  ArqInv' /\ [Sliding!SlidingNext]_(Sliding!slidingVars)
    OBVIOUS
  <2>1. sim \in Simulations /\ frame \in Nat /\ tries \in Nat
    BY DEF ArqInv
  <2> PICK h \in 0..Total, a \in 0..Total, u \in 0..Total : At(h, a, u) /\ Counted(h, a, u)
    BY DEF ArqInv
  <2>2. CASE UNCHANGED arqVars
    <3>1. At(h, a, u)' /\ Counted(h, a, u)' /\ Total' = Total /\ ArqInv'
      BY <2>1, <2>2
         DEF arqVars, At, Counted, SwAt, GbnAt, SrAt, SwDuplicate, Total, ArqInv
    <3>2. Moves(h, a, u, h, a, u) /\ sim' = sim
      BY <2>2 DEF Moves, arqVars
    <3> QED  BY <2>1, <3>1, <3>2, MovesSlide
  <2>3. CASE ArqNext
    <3>1. Goes(h, a, u)
      BY <2>1, <2>3, StopAndWaitGoes, GoBackNGoes, SelectiveRepeatGoes DEF ArqNext
    <3>2. PICK h2 \in 0..Total, a2 \in 0..Total, u2 \in 0..Total :
              At(h2, a2, u2)' /\ Counted(h2, a2, u2)' /\ Moves(h, a, u, h2, a2, u2)
      BY <3>1 DEF Goes
    <3>3. sim' = sim /\ frame' \in Nat /\ tries' \in Nat /\ Total' = Total
      BY <3>1 DEF Goes, Total
    <3>4. ArqInv'
      BY <2>1, <3>2, <3>3 DEF ArqInv
    <3> QED  BY <2>1, <3>2, <3>3, <3>4, MovesSlide
  <2> QED  BY <2>2, <2>3
<1> QED  BY <1>1, <1>2, PTL DEF ArqSpec, ArqSlides, Sliding!SlidingSpec

-----------------------------------------------------------------------------
(* leaky_bucket.c.                                                         *)

(* What the interval from first has brought beyond what has leaked since.  *)
Excess(first) == Arrived(first, trace_idx) - LEAK_RATE * (time - trace[first].time)

(* The types of the variables.                                             *)
BucketTypes ==
    /\ trace \in Traces /\ trace_idx \in 0..Len(trace) /\ time \in Nat
    /\ bucket_content \in 0..BUCKET_CAPACITY /\ sent_total \in Nat /\ dropped_total \in Nat

(* The arrivals counted are those of the seconds past.                     *)
PastArrived ==
    \A i \in DOMAIN trace : i <= trace_idx <=> trace[i].time < time

(* While nothing was dropped, the bucket holds the greatest excess of the  *)
(* intervals up to now.                                                    *)
ExcessHeld ==
    dropped_total = 0 =>
        /\ \A first \in 1..trace_idx : Excess(first) <= bucket_content
        /\ bucket_content = 0 \/ \E first \in 1..trace_idx : bucket_content = Excess(first)

(* The inductive invariant of the bucket.                                  *)
BucketInv ==
    /\ BucketTypes /\ PastArrived /\ ExcessHeld
    /\ Arrived(1, trace_idx) = sent_total + dropped_total + bucket_content
    /\ dropped_total = 0 <=> Conforms

(* The arrivals of an interval are a difference of running totals.         *)
IsTotal(P, t) ==
    /\ P \in [0..Len(t) -> Int] /\ P[0] = 0
    /\ \A k \in 1..Len(t) : P[k] = P[k - 1] + t[k].incoming
    /\ \A a \in 1..(Len(t) + 1), b \in 0..Len(t) : a <= b + 1 => ArrivedOf(t, a, b) = P[b] - P[a - 1]

(* Every trace has such totals.                                            *)
LEMMA ArrivedTotals ==
    ASSUME NEW t \in Seq([time : Nat \ {0}, incoming : Nat])
    PROVE  \E P : IsTotal(P, t)
<1> DEFINE n == Len(t)
           f == [i \in 1..n |-> t[i].incoming]
<1>1. n \in Nat /\ \A i \in 1..n : f[i] = t[i].incoming /\ f[i] \in Int
  <2>1. n \in Nat /\ \A i \in 1..n : t[i] \in [time : Nat \ {0}, incoming : Nat]
    BY SeqTypes
  <2>2. \A i \in 1..n : t[i].incoming \in Nat
    BY <2>1
  <2> HIDE DEF n
  <2> QED  BY <2>1, <2>2
<1>2. ASSUME NEW a \in 1..(n + 1), NEW b \in 0..n
      PROVE  \E it : IsSum(it, f, a..b) /\ ArrivedOf(t, a, b) = it[a..b]
  <2> DEFINE S == a..b
             Eq(it) == it = [s \in SUBSET S |-> IF s = {} THEN 0
                             ELSE LET x == CHOOSE x \in s : TRUE IN t[x].incoming + it[s \ {x}]]
             Same == [s \in SUBSET S |-> s]
  <2>1. IsFiniteSet(S) /\ \A x \in S : f[x] = t[x].incoming /\ f[x] \in Int
    <3>1. IsFiniteSet(S)
      BY FS_Interval
    <3>2. S \in SUBSET (1..n)
      BY <1>1
    <3> HIDE DEF S, f, n
    <3> QED  BY <1>1, <3>1, <3>2
  <2>2. ArrivedOf(t, a, b) = (CHOOSE it : Eq(it))[S]
    BY DEF ArrivedOf, MapThenSumSet, MapThenFoldSet
  <2> HIDE DEF S, f, n
  <2>3. ASSUME NEW it PROVE Eq(it) <=> IsSum(it, f, S)
    <3>1. ASSUME NEW s \in SUBSET S, s # {}
          PROVE  f[CHOOSE x \in s : TRUE] = t[CHOOSE x \in s : TRUE].incoming
      <4>1. (CHOOSE x \in s : TRUE) \in s
        BY <3>1
      <4> QED  BY <2>1, <4>1
    <3> DEFINE one(s) == IF s = {} THEN 0
                         ELSE LET x == CHOOSE x \in s : TRUE IN t[x].incoming + it[s \ {x}]
               two(s) == IF s = {} THEN 0
                         ELSE LET x == CHOOSE x \in s : TRUE IN f[x] + it[s \ {x}]
    <3>2. \A s \in SUBSET S : one(s) = two(s)
      BY <3>1
    <3> HIDE DEF one, two
    <3>3. [s \in SUBSET S |-> one(s)] = [s \in SUBSET S |-> two(s)]
      BY <3>2
    <3> QED  BY <3>3 DEF IsSum, one, two
  <2> HIDE DEF Eq
  <2>4. \E it : Eq(it)
    BY <2>1, <2>3, SumExists
  <2> DEFINE it == CHOOSE it : Eq(it)
  <2>5. Eq(it)
    BY <2>4
  <2> HIDE DEF it
  <2>6. IsSum(it, f, S)
    BY <2>3, <2>5
  <2> QED  BY <2>2, <2>6 DEF it, S
<1> HIDE DEF f
<1>3. PICK P : AreTotals(P, f, n)
  <2> HIDE DEF n
  <2> QED  BY <1>1, RunningTotals
<1>4. ASSUME NEW a \in 1..(n + 1), NEW b \in 0..n, a <= b + 1
      PROVE  ArrivedOf(t, a, b) = P[b] - P[a - 1]
  <2>1. PICK it : IsSum(it, f, a..b) /\ ArrivedOf(t, a, b) = it[a..b]
    BY <1>2
  <2> HIDE DEF n
  <2> QED  BY <1>3, <1>4, <2>1 DEF AreTotals
<1>5. \A k \in 1..n : P[k] = P[k - 1] + t[k].incoming
  BY <1>1, <1>3 DEF AreTotals
<1> QED  BY <1>3, <1>4, <1>5 DEF IsTotal, AreTotals

(* A second more, or a later first arrival, in what has leaked.            *)
LEMMA LeakedMore ==
    ASSUME NEW u \in Int, NEW v \in Int
    PROVE  /\ LEAK_RATE * (u - v) \in Int
           /\ LEAK_RATE * ((u + 1) - v) = LEAK_RATE * (u - v) + LEAK_RATE
           /\ LEAK_RATE * (u - u) = 0
<1>1. LEAK_RATE \in Int /\ u - v \in Int /\ (u + 1) - v = (u - v) + 1 /\ u - u = 0
  BY BucketAssumption
<1>2. \A r, x \in Int : r * x \in Int /\ r * (x + 1) = r * x + r /\ r * 0 = 0
  OBVIOUS
<1> QED  BY <1>1, <1>2

(* What is known of a trace.                                               *)
LEMMA TraceTypes ==
    ASSUME NEW t \in Traces
    PROVE  /\ t \in Seq([time : Nat \ {0}, incoming : Nat])
           /\ Len(t) \in Nat /\ DOMAIN t = 1..Len(t)
           /\ \A i \in 1..Len(t) : t[i].time \in Nat \ {0} /\ t[i].incoming \in Nat
           /\ \A i, j \in 1..Len(t) : i < j => t[i].time < t[j].time
<1> DEFINE V == [time : Nat \ {0}, incoming : Nat]
<1>1. t \in Seq(V) /\ \A i, j \in DOMAIN t : i < j => t[i].time < t[j].time
  BY BucketAssumption
<1>2. \A v \in V : v.time \in Nat \ {0} /\ v.incoming \in Nat
  OBVIOUS
<1> HIDE DEF V
<1>3. Len(t) \in Nat /\ DOMAIN t = 1..Len(t) /\ \A i \in 1..Len(t) : t[i] \in V
  BY <1>1, SeqTypes
<1> QED  BY <1>1, <1>2, <1>3 DEF V

(* Nothing has arrived and nothing was dropped.                            *)
LEMMA BucketStarts == BucketInit => BucketInv
<1> SUFFICES ASSUME BucketInit PROVE BucketInv
  OBVIOUS
<1>1. BucketTypes
  BY BucketAssumption, TraceTypes DEF BucketInit, BucketTypes
<1>2. PastArrived
  BY TraceTypes DEF BucketInit, PastArrived
<1>3. Arrived(1, trace_idx) = 0
  <2>1. PICK P : IsTotal(P, trace)
    BY ArrivedTotals, TraceTypes DEF BucketInit
  <2>2. Arrived(1, 0) = P[0] - P[1 - 1] /\ P[0] = 0
    <3>1. Len(trace) \in Nat
      BY TraceTypes DEF BucketInit
    <3>2. Arrived(1, 0) = ArrivedOf(trace, 1, 0)
      BY DEF Arrived
    <3> QED  BY <2>1, <3>1, <3>2 DEF IsTotal
  <2> QED  BY <2>2 DEF BucketInit
<1>4. ExcessHeld /\ (dropped_total = 0 <=> Conforms)
  BY DEF BucketInit, ExcessHeld, Conforms
<1> QED  BY <1>1, <1>2, <1>3, <1>4 DEF BucketInit, BucketInv

(* One second, the trace and its totals P being given.                     *)
LEMMA BucketSecond == BucketInv /\ BucketSlot => BucketInv'
<1> SUFFICES ASSUME BucketInv, BucketSlot PROVE BucketInv'
  OBVIOUS
<1> DEFINE n == Len(trace)
           m == incoming
           x == IF Overflows(incoming) THEN BUCKET_CAPACITY ELSE bucket_content + m
<1>1. /\ BucketRuns /\ trace' = trace /\ time' = time + 1
      /\ trace_idx' = IF DueNow THEN trace_idx + 1 ELSE trace_idx
      /\ dropped_total' = dropped_total + ((bucket_content + m) - x)
      /\ sent_total' = sent_total + Leak(x) /\ bucket_content' = x - Leak(x)
  BY DEF BucketSlot
<1>2. /\ trace \in Traces /\ trace_idx \in 0..n /\ time \in Nat
      /\ bucket_content \in 0..BUCKET_CAPACITY /\ sent_total \in Nat /\ dropped_total \in Nat
      /\ BUCKET_CAPACITY \in Nat /\ LEAK_RATE \in Nat \ {0}
  BY BucketAssumption DEF BucketInv, BucketTypes
<1>3. /\ n \in Nat /\ DOMAIN trace = 1..n
      /\ \A i \in 1..n : trace[i].time \in Nat \ {0} /\ trace[i].incoming \in Nat
      /\ \A i, j \in 1..n : i < j => trace[i].time < trace[j].time
  BY <1>2, TraceTypes
<1>4. PICK P : IsTotal(P, trace)
  BY <1>2, TraceTypes, ArrivedTotals
<1>5. /\ P \in [0..n -> Int] /\ P[0] = 0 /\ \A k \in 1..n : P[k] = P[k - 1] + trace[k].incoming
      /\ \A a \in 1..(n + 1), b \in 0..n : a <= b + 1 =>
            Arrived(a, b) = P[b] - P[a - 1] /\ Arrived(a, b)' = P[b] - P[a - 1]
  <2>1. \A a, b : Arrived(a, b) = ArrivedOf(trace, a, b) /\ Arrived(a, b)' = ArrivedOf(trace, a, b)
    <3>1. \A a, b : Arrived(a, b) = ArrivedOf(trace, a, b) /\ Arrived(a, b)' = ArrivedOf(trace', a, b)
      BY DEF Arrived
    <3> QED  BY <1>1, <3>1
  <2> QED  BY <1>4, <2>1 DEF IsTotal
<1>6. /\ DueNow => trace_idx + 1 \in 1..n /\ trace[trace_idx + 1].time = time /\ m = trace[trace_idx + 1].incoming
      /\ ~DueNow => m = 0
      /\ m \in Nat
  BY <1>2, <1>3 DEF DueNow, incoming
<1> HIDE DEF n, m
<1>7. /\ x \in 0..BUCKET_CAPACITY /\ x <= bucket_content + m
      /\ (x = bucket_content + m <=> bucket_content + m <= BUCKET_CAPACITY)
  BY <1>2, <1>6 DEF Overflows, m
<1> HIDE DEF x
<1>8. /\ Leak(x) \in 0..x /\ bucket_content' >= x - LEAK_RATE
      /\ bucket_content' = 0 \/ bucket_content' = x - LEAK_RATE
  BY <1>1, <1>2, <1>7 DEF Leak
<1>9. BucketTypes'
  <2>1. trace_idx' \in 0..n
    BY <1>1, <1>2, <1>3, <1>6
  <2>2. bucket_content' \in 0..BUCKET_CAPACITY /\ sent_total' \in Nat /\ dropped_total' \in Nat
    BY <1>1, <1>2, <1>6, <1>7, <1>8
  <2> QED  BY <1>1, <1>2, <2>1, <2>2 DEF BucketTypes, n
<1>10. PastArrived'
  <2>1. SUFFICES ASSUME NEW i \in 1..n PROVE i <= trace_idx' <=> trace[i].time < time + 1
    BY <1>1, <1>3 DEF PastArrived
  <2>2. i <= trace_idx <=> trace[i].time < time
    BY <1>3 DEF BucketInv, PastArrived
  <2>3. trace[i].time \in Nat
    BY <1>3
  <2>4. CASE DueNow
    <3>1. trace_idx' = trace_idx + 1 /\ trace[trace_idx + 1].time = time /\ trace_idx + 1 \in 1..n
      BY <1>1, <1>6, <2>4
    <3>2. i < trace_idx + 1 => trace[i].time < time
      BY <1>3, <3>1
    <3>3. trace_idx + 1 < i => time < trace[i].time
      BY <1>3, <3>1
    <3>4. trace_idx + 1 = i => time = trace[i].time
      BY <3>1
    <3> QED  BY <1>2, <2>3, <3>1, <3>2, <3>3, <3>4
  <2>5. CASE ~DueNow
    <3>1. trace_idx' = trace_idx
      BY <1>1, <2>5
    <3>2. ASSUME trace[i].time = time PROVE FALSE
      <4>1. i > trace_idx /\ trace_idx + 1 \in 1..n /\ trace_idx < n
        BY <1>2, <1>3, <2>2, <3>2
      <4>2. ~(trace[trace_idx + 1].time < time)
        BY <1>3, <4>1, <1>2 DEF BucketInv, PastArrived
      <4>3. trace_idx + 1 # i
        BY <2>5, <3>2, <4>1 DEF DueNow, n
      <4>4. trace[trace_idx + 1].time < trace[i].time
        BY <1>2, <1>3, <4>1, <4>3
      <4> QED  BY <3>2, <4>2, <4>4
    <3> QED  BY <1>2, <2>2, <2>3, <3>1, <3>2
  <2> QED  BY <2>4, <2>5
<1>i. PICK idx : idx = trace_idx'
  OBVIOUS
<1>11. /\ Arrived(1, trace_idx)' = P[idx] /\ P[idx] = P[trace_idx] + m
       /\ Arrived(1, trace_idx) = P[trace_idx] /\ P[trace_idx] \in Int
       /\ idx \in 0..n /\ idx = trace_idx'
  <2>1. idx \in 0..n /\ 1 \in 1..(n + 1) /\ 1 - 1 = 0
    BY <1>1, <1>2, <1>3, <1>6, <1>i
  <2>2. P[trace_idx] \in Int
    BY <1>2, <1>5
  <2>3. Arrived(1, trace_idx) = P[trace_idx]
    BY <1>2, <1>3, <1>5, <2>1, <2>2
  <2>4. P[idx] = P[trace_idx] + m
    BY <1>1, <1>2, <1>5, <1>6, <1>i, <2>2
  <2>5. Arrived(1, trace_idx)' = P[idx]
    BY <1>2, <1>3, <1>5, <1>i, <2>1, <2>2, <2>4
  <2> QED  BY <1>i, <2>1, <2>2, <2>3, <2>4, <2>5
<1>12. (Arrived(1, trace_idx) = sent_total + dropped_total + bucket_content)'
  <2>1. P[trace_idx] = sent_total + dropped_total + bucket_content
    BY <1>11 DEF BucketInv
  <2> QED  BY <1>1, <1>2, <1>6, <1>7, <1>8, <1>11, <2>1
<1>13. /\ dropped_total' = 0 <=> dropped_total = 0 /\ bucket_content + m <= BUCKET_CAPACITY
       /\ dropped_total' = 0 => x = bucket_content + m
  BY <1>1, <1>2, <1>6, <1>7
(* What an excess becomes, and that of the arrivals of this second.        *)
<1>14. ASSUME NEW first \in 1..idx
       PROVE  /\ trace[first].time \in Nat /\ trace[first].time <= time /\ Excess(first)' \in Int
              /\ first <= trace_idx => Excess(first) \in Int /\ Excess(first)' = Excess(first) + m - LEAK_RATE
              /\ first > trace_idx =>
                    DueNow /\ first = idx /\ trace[first].time = time /\ Excess(first)' = m - LEAK_RATE
              /\ Arrived(first, idx) = Excess(first)' + LEAK_RATE + LEAK_RATE * (time - trace[first].time)
  <2> DEFINE t == trace[first].time
  <2>1. /\ first \in 1..n /\ first \in 1..(n + 1) /\ first <= idx + 1 /\ trace_idx \in 0..n
        /\ idx \in 0..n /\ time \in Int /\ LEAK_RATE \in Int /\ m \in Int /\ first - 1 \in 0..n
    <3>1. idx \in 0..n /\ n \in Nat /\ trace_idx \in 0..n
      BY <1>2, <1>3, <1>11
    <3>2. time \in Int /\ LEAK_RATE \in Int /\ m \in Int
      BY <1>2, <1>6
    <3> QED  BY <3>1, <3>2
  <2>2. t \in Nat /\ t <= time
    <3>1. t < time + 1
      <4>1. \A i \in 1..n : i <= idx <=> trace[i].time < time + 1
        BY <1>1, <1>3, <1>10, <1>11 DEF PastArrived
      <4>2. first <= idx
        BY <1>3, <1>11
      <4> QED  BY <2>1, <4>1, <4>2
    <3> QED  BY <1>2, <1>3, <2>1, <3>1
  <2>3. /\ LEAK_RATE * (time - t) \in Int
        /\ LEAK_RATE * ((time + 1) - t) = LEAK_RATE * (time - t) + LEAK_RATE
        /\ LEAK_RATE * (time - time) = 0
    <3>1. t \in Int /\ time \in Int
      BY <1>2, <2>2
    <3> HIDE DEF t
    <3> QED  BY <3>1, LeakedMore
  <2>4. P[first - 1] \in Int /\ P[idx] \in Int /\ P[trace_idx] \in Int
    BY <1>5, <2>1
  <2>5. Arrived(first, idx) = P[idx] - P[first - 1]
    BY <1>5, <2>1
  <2>6. Excess(first)' = (P[idx] - P[first - 1]) - (LEAK_RATE * (time - t) + LEAK_RATE)
    <3>1. Arrived(first, trace_idx)' = P[idx] - P[first - 1]
      BY <1>5, <2>1, <1>11
    <3> QED  BY <1>1, <2>3, <3>1 DEF Excess
  <2>7. ASSUME first <= trace_idx
        PROVE  Excess(first) = (P[trace_idx] - P[first - 1]) - LEAK_RATE * (time - t)
    <3>1. Arrived(first, trace_idx) = P[trace_idx] - P[first - 1]
      BY <1>5, <2>1, <2>7
    <3> QED  BY <3>1 DEF Excess
  <2>8. ASSUME first > trace_idx
        PROVE  DueNow /\ first = idx /\ t = time /\ first - 1 = trace_idx
    <3>1. DueNow /\ idx = trace_idx + 1
      BY <1>1, <1>2, <1>3, <1>11, <2>1, <2>8
    <3>2. first = idx /\ first - 1 = trace_idx
      BY <1>2, <1>3, <2>1, <2>8, <3>1
    <3>3. t = time
      BY <1>6, <3>1, <3>2
    <3> HIDE DEF t
    <3> QED  BY <3>1, <3>2, <3>3
  <2> DEFINE Old == Excess(first)
             New == Excess(first)'
             ET == LEAK_RATE * (time - t)
  <2>9. P[idx] = P[trace_idx] + m /\ ET \in Int
    BY <1>11, <2>3
  <2>10. New = (P[idx] - P[first - 1]) - (ET + LEAK_RATE)
    BY <2>6
  <2>11. first <= trace_idx => Old = (P[trace_idx] - P[first - 1]) - ET
    BY <2>7
  <2>12. t = time => ET = 0
    BY <2>3
  <2> HIDE DEF Old, New, ET
  <2>13. New \in Int /\ P[idx] - P[first - 1] = New + LEAK_RATE + ET
    BY <2>1, <2>4, <2>9, <2>10
  <2>14. first <= trace_idx => Old \in Int /\ New = Old + m - LEAK_RATE
    BY <2>1, <2>4, <2>9, <2>10, <2>11
  <2>15. first > trace_idx => New = m - LEAK_RATE
    BY <2>1, <2>4, <2>8, <2>9, <2>10, <2>12
  <2> HIDE DEF t
  <2> QED  BY <2>2, <2>5, <2>8, <2>13, <2>14, <2>15 DEF Old, New, ET, t
<1>15. ExcessHeld'
  <2> SUFFICES ASSUME dropped_total' = 0
               PROVE  /\ \A first \in 1..idx : Excess(first)' <= bucket_content'
                      /\ bucket_content' = 0 \/ \E first \in 1..idx : bucket_content' = Excess(first)'
    BY <1>11 DEF ExcessHeld
  <2>1. dropped_total = 0 /\ x = bucket_content + m /\ x \in Nat
    BY <1>7, <1>13
  <2>2. /\ \A first \in 1..trace_idx : Excess(first) <= bucket_content
        /\ bucket_content = 0 \/ \E first \in 1..trace_idx : bucket_content = Excess(first)
    BY <2>1 DEF BucketInv, ExcessHeld
  <2>3. bucket_content' \in Nat /\ bucket_content \in Nat /\ m \in Nat /\ LEAK_RATE \in Nat \ {0}
    BY <1>2, <1>6, <1>9 DEF BucketTypes
  <2>4. idx \in Nat /\ trace_idx \in Nat /\ trace_idx <= idx
    BY <1>1, <1>2, <1>3, <1>11
  <2>5. ASSUME NEW first \in 1..idx PROVE Excess(first)' <= bucket_content'
    <3>1. CASE first <= trace_idx
      <4>1. Excess(first) <= bucket_content /\ Excess(first) \in Int /\ Excess(first)' = Excess(first) + m - LEAK_RATE
        BY <1>14, <2>2, <2>4, <3>1
      <4> QED  BY <1>8, <2>1, <2>3, <4>1
    <3>2. CASE first > trace_idx
      <4>1. Excess(first)' = m - LEAK_RATE
        BY <1>14, <3>2
      <4> QED  BY <1>8, <2>1, <2>3, <4>1
    <3> QED  BY <2>4, <3>1, <3>2
  <2>6. ASSUME bucket_content' # 0 PROVE \E first \in 1..idx : bucket_content' = Excess(first)'
    <3>1. bucket_content' = bucket_content + m - LEAK_RATE
      BY <1>8, <2>1, <2>3, <2>6
    <3>2. CASE bucket_content = 0
      <4>1. DueNow
        BY <1>6, <2>3, <3>1, <3>2
      <4>2. idx = trace_idx + 1 /\ idx \in 1..idx
        BY <1>1, <2>4, <4>1, <1>11
      <4>3. Excess(idx)' = m - LEAK_RATE
        BY <1>14, <2>4, <4>2
      <4> QED  BY <2>3, <3>1, <3>2, <4>2, <4>3
    <3>3. CASE bucket_content # 0
      <4>1. PICK first \in 1..trace_idx : bucket_content = Excess(first)
        BY <2>2, <3>3
      <4>2. first \in 1..idx /\ first <= trace_idx
        BY <2>4
      <4>3. Excess(first)' = Excess(first) + m - LEAK_RATE
        BY <1>14, <4>2
      <4> QED  BY <3>1, <4>1, <4>2, <4>3
    <3> QED  BY <3>2, <3>3
  <2> QED  BY <2>5, <2>6
<1>16. ASSUME NEW first \in 1..trace_idx, NEW last \in 1..trace_idx, first <= last
       PROVE  /\ first \in 1..idx /\ last \in 1..idx
              /\ Arrived(first, last)' = Arrived(first, last)
  <2>1. first \in 1..(n + 1) /\ last \in 0..n /\ first <= last + 1
    BY <1>2, <1>3, <1>16
  <2> QED  BY <1>1, <1>2, <1>3, <1>5, <2>1, <1>11
<1>17. (dropped_total = 0 <=> Conforms)'
  <2>1. ASSUME dropped_total' = 0, NEW first \in 1..idx, NEW last \in 1..idx, first <= last
        PROVE  Arrived(first, last)' <= BUCKET_CAPACITY + LEAK_RATE * (trace[last].time - trace[first].time)
    <3>1. CASE last <= trace_idx
      <4>1. first \in 1..trace_idx /\ last \in 1..trace_idx
        BY <1>2, <1>11, <2>1, <3>1
      <4>2. Conforms
        BY <1>13, <2>1 DEF BucketInv
      <4> QED  BY <1>16, <2>1, <4>1, <4>2 DEF Conforms
    <3>2. CASE last > trace_idx
      <4>1. last = idx /\ trace[last].time = time
        BY <1>14, <3>2
      <4>2. Arrived(first, idx) = Excess(first)' + LEAK_RATE + LEAK_RATE * (time - trace[first].time)
        BY <1>14
      <4>3. Arrived(first, last)' = Arrived(first, idx)
        <5>1. first \in 1..(n + 1) /\ idx \in 0..n /\ first <= idx + 1
          <6>1. idx \in 0..n /\ n \in Nat
            BY <1>3, <1>11
          <6> QED  BY <6>1
        <5> QED  BY <1>5, <4>1, <5>1
      <4>4. Excess(first)' <= bucket_content' /\ Excess(first)' \in Int
        BY <1>14, <1>15, <2>1, <1>11 DEF ExcessHeld
      <4>5. Excess(first)' + LEAK_RATE <= BUCKET_CAPACITY
        <5>1. dropped_total = 0 /\ x = bucket_content + m
          BY <1>13, <2>1
        <5>2. CASE first <= trace_idx
          <6>1. Excess(first) <= bucket_content
            BY <1>2, <5>1, <5>2 DEF BucketInv, ExcessHeld
          <6> QED  BY <1>2, <1>6, <1>7, <1>14, <5>1, <5>2, <6>1
        <5>3. CASE first > trace_idx
          BY <1>2, <1>6, <1>7, <1>14, <5>1, <5>3
        <5> QED  BY <1>2, <5>2, <5>3
      <4>6. LEAK_RATE * (time - trace[first].time) \in Int
        BY <1>2, <1>14, LeakedMore
      <4> HIDE DEF n, m, x
      <4> QED  BY <1>2, <4>1, <4>2, <4>3, <4>4, <4>5, <4>6
    <3> QED  BY <1>2, <1>11, <3>1, <3>2
  <2>2. ASSUME Conforms' PROVE dropped_total' = 0
    <3>1. ASSUME NEW first \in 1..idx, NEW last \in 1..idx, first <= last
          PROVE  Arrived(first, last)' <= BUCKET_CAPACITY + LEAK_RATE * (trace[last].time - trace[first].time)
      BY <1>1, <2>2, <3>1, <1>11 DEF Conforms
    <3>2. Conforms
      BY <1>16, <3>1 DEF Conforms
    <3>3. dropped_total = 0
      BY <3>2 DEF BucketInv
    <3>4. ASSUME bucket_content + m > BUCKET_CAPACITY PROVE FALSE
      <4>1. DueNow /\ idx = trace_idx + 1 /\ idx \in 1..n
        BY <1>1, <1>2, <1>6, <3>4, <1>11
      <4>2. trace[idx].time = time
        BY <1>6, <4>1
      <4>3. ASSUME NEW first \in 1..idx
            PROVE  Excess(first)' + LEAK_RATE <= BUCKET_CAPACITY
        <5>1. first <= idx /\ idx \in 1..idx
          BY <1>3, <4>1
        <5>2. Arrived(first, idx)' <= BUCKET_CAPACITY + LEAK_RATE * (time - trace[first].time)
          BY <3>1, <4>2, <5>1
        <5>3. Arrived(first, idx) = Excess(first)' + LEAK_RATE + LEAK_RATE * (time - trace[first].time)
          BY <1>14
        <5>4. Arrived(first, idx)' = Arrived(first, idx)
          <6>1. first \in 1..(n + 1) /\ idx \in 0..n /\ first <= idx + 1
            BY <1>3, <4>1, <5>1
          <6> QED  BY <1>5, <6>1
        <5>5. LEAK_RATE * (time - trace[first].time) \in Int /\ Excess(first)' \in Int
          BY <1>2, <1>14, LeakedMore
        <5> QED  BY <1>2, <5>2, <5>3, <5>4, <5>5
      <4>4. CASE bucket_content = 0
        <5>1. idx \in 1..idx /\ idx > trace_idx
          BY <1>2, <1>3, <4>1
        <5>2. Excess(idx)' = m - LEAK_RATE
          BY <1>14, <5>1
        <5>3. m <= BUCKET_CAPACITY
          BY <1>2, <1>6, <4>3, <5>1, <5>2
        <5> QED  BY <1>2, <1>6, <3>4, <4>4, <5>3
      <4>5. CASE bucket_content # 0
        <5>1. PICK first \in 1..trace_idx : bucket_content = Excess(first)
          BY <3>3, <4>5 DEF BucketInv, ExcessHeld
        <5>2. first \in 1..idx /\ first <= trace_idx
          BY <1>2, <4>1
        <5>3. Excess(first)' = bucket_content + m - LEAK_RATE
          BY <1>14, <5>1, <5>2
        <5> QED  BY <1>2, <1>6, <3>4, <4>3, <5>2, <5>3
      <4> QED  BY <4>4, <4>5
    <3> QED  BY <1>2, <1>6, <1>13, <3>3, <3>4
  <2>3. dropped_total' = 0 => Conforms'
    BY <1>1, <2>1, <1>11 DEF Conforms
  <2> QED  BY <2>2, <2>3
<1> QED  BY <1>9, <1>10, <1>12, <1>15, <1>17 DEF BucketInv

(* The traffic is accounted for, of every trace.                           *)
THEOREM BucketAccounts == BucketSpec => []TrafficAccounted
<1>1. BucketInv /\ UNCHANGED bucketVars => BucketInv'
  <2> SUFFICES ASSUME BucketInv, UNCHANGED bucketVars PROVE BucketInv'
    OBVIOUS
  <2> QED  BY DEF BucketInv, BucketTypes, PastArrived, ExcessHeld, Excess, Conforms, Arrived, bucketVars
<1>2. BucketInv => TrafficAccounted
  BY DEF BucketInv, BucketTypes, TrafficAccounted
<1> QED  BY <1>1, <1>2, BucketStarts, BucketSecond, PTL DEF BucketSpec

-----------------------------------------------------------------------------
(* The rainfall program.                                                   *)

(* What the program keeps of a row.                                        *)
Rec == [year : Nat, month : Amounts, annual : Nat]

(* Amounts are numbers, so are the ones of a record.                       *)
LEMMA RecTypes ==
    ASSUME NEW r \in Rec
    PROVE  r.annual \in Nat /\ r.month \in Nat /\ r.month \in Amounts
BY RainfallAssumption DEF Rec

-----------------------------------------------------------------------------
(* Rearrangements.                                                         *)

(* q moves the places low..high of an array of n about, and no others.     *)
Permutes(q, n, low, high) ==
    /\ q \in [1..n -> 1..n]
    /\ \A x, y \in 1..n : q[x] = q[y] => x = y
    /\ \A z \in 1..n : \E x \in 1..n : q[x] = z
    /\ \A x \in 1..n : x \notin low..high => q[x] = x

(* Array a is array b with the elements of low..high in another order.     *)
Rearranged(a, b, low, high) ==
    \E q : Permutes(q, Len(b), low, high) /\ \A x \in 1..Len(b) : a[x] = b[q[x]]

(* Places within the range stay within it.                                 *)
LEMMA PermutesWithin ==
    ASSUME NEW n \in Nat, NEW low \in Int, NEW high \in Int, NEW q, Permutes(q, n, low, high),
           NEW x \in 1..n, x \in low..high
    PROVE  q[x] \in low..high /\ q[x] \in 1..n
<1>1. q[x] \in 1..n
  BY DEF Permutes
<1>2. CASE q[x] \notin low..high
  <2>1. q[q[x]] = q[x]
    BY <1>1, <1>2 DEF Permutes
  <2>2. q[x] = x
    BY <1>1, <2>1 DEF Permutes
  <2> QED  BY <1>2, <2>2
<1> QED  BY <1>1, <1>2

(* An array is a rearrangement of itself.                                  *)
LEMMA RearrangedSelf ==
    ASSUME NEW b \in Seq(Rec), NEW low, NEW high
    PROVE  Rearranged(b, b, low, high)
<1> DEFINE q == [x \in 1..Len(b) |-> x]
<1>1. Permutes(q, Len(b), low, high)
  BY DEF Permutes
<1>2. \A x \in 1..Len(b) : b[x] = b[q[x]]
  OBVIOUS
<1> QED  BY <1>1, <1>2 DEF Rearranged

(* A rearrangement of a rearrangement, within a wider range.               *)
LEMMA RearrangedTwice ==
    ASSUME NEW b \in Seq(Rec), NEW a, Len(a) = Len(b), NEW c,
           NEW low \in 1..(Len(b) + 1), NEW high \in 0..Len(b),
           Rearranged(a, b, 1, Len(b)), Rearranged(c, a, low, high)
    PROVE  Rearranged(c, b, 1, Len(b))
<1> DEFINE n == Len(b)
<1>1. PICK q : Permutes(q, n, 1, n) /\ \A x \in 1..n : a[x] = b[q[x]]
  BY DEF Rearranged
<1>2. PICK p : Permutes(p, n, low, high) /\ \A x \in 1..n : c[x] = a[p[x]]
  BY DEF Rearranged
<1> DEFINE r == [x \in 1..n |-> q[p[x]]]
<1>3. \A x \in 1..n : p[x] \in 1..n /\ q[p[x]] \in 1..n /\ r[x] = q[p[x]]
  BY <1>1, <1>2 DEF Permutes
<1> HIDE DEF n
<1>4. r \in [1..n -> 1..n]
  BY <1>3
<1>5. ASSUME NEW x \in 1..n, NEW y \in 1..n, r[x] = r[y] PROVE x = y
  <2>1. p[x] = p[y]
    BY <1>1, <1>3, <1>5 DEF Permutes
  <2> QED  BY <1>2, <2>1 DEF Permutes
<1>6. ASSUME NEW z \in 1..n PROVE \E x \in 1..n : r[x] = z
  <2>1. PICK y \in 1..n : q[y] = z
    BY <1>1 DEF Permutes
  <2>2. PICK x \in 1..n : p[x] = y
    BY <1>2 DEF Permutes
  <2> QED  BY <2>1, <2>2
<1>7. ASSUME NEW x \in 1..n PROVE c[x] = b[r[x]]
  BY <1>1, <1>2, <1>3
<1> HIDE DEF r
<1>8. Permutes(r, n, 1, n)
  BY <1>4, <1>5, <1>6 DEF Permutes
<1> QED  BY <1>7, <1>8 DEF Rearranged, n

(* The array c is a with i and j swapped, and with it b's low..high moved. *)
Swapped(c, a, b, low, high, i, j) ==
    /\ Rearranged(c, b, low, high) /\ c \in [1..Len(b) -> Rec]
    /\ c[i] = a[j] /\ c[j] = a[i]
    /\ \A x \in 1..Len(b) : x # i /\ x # j => c[x] = a[x]

(* Two swapped places of the range.                                        *)
LEMMA RearrangedSwap ==
    ASSUME NEW b \in Seq(Rec), NEW a \in [1..Len(b) -> Rec],
           NEW low \in 1..Len(b), NEW high \in 1..Len(b), NEW i \in low..high, NEW j \in low..high,
           Rearranged(a, b, low, high)
    PROVE  Swapped(swapRecords(a, i, j), a, b, low, high, i, j)
<1> DEFINE n == Len(b)
           c == swapRecords(a, i, j)
<1>1. i \in 1..n /\ j \in 1..n /\ n \in Nat
  OBVIOUS
<1>2. c = [x \in 1..n |-> IF x = j THEN a[i] ELSE IF x = i THEN a[j] ELSE a[x]]
  <2> HIDE DEF n
  <2>1. a \in [1..n -> Rec]
    BY DEF n
  <2> QED  BY <1>1, <2>1 DEF swapRecords
<1>3. PICK q : Permutes(q, n, low, high) /\ \A x \in 1..n : a[x] = b[q[x]]
  BY DEF Rearranged
<1> DEFINE r == [x \in 1..n |-> IF x = j THEN q[i] ELSE IF x = i THEN q[j] ELSE q[x]]
<1>4. q \in [1..n -> 1..n]
  BY <1>3 DEF Permutes
<1> HIDE DEF n, c
<1>5. r \in [1..n -> 1..n]
  BY <1>1, <1>4
<1>6. ASSUME NEW x \in 1..n, NEW y \in 1..n, r[x] = r[y] PROVE x = y
  BY <1>1, <1>3, <1>6 DEF Permutes
<1>7. ASSUME NEW z \in 1..n PROVE \E x \in 1..n : r[x] = z
  <2>1. PICK y \in 1..n : q[y] = z
    BY <1>3 DEF Permutes
  <2>2. CASE y = i
    BY <1>1, <2>1, <2>2
  <2>3. CASE y = j
    BY <1>1, <2>1, <2>3
  <2>4. CASE y # i /\ y # j
    BY <2>1, <2>4
  <2> QED  BY <2>2, <2>3, <2>4
<1>8. ASSUME NEW x \in 1..n, x \notin low..high PROVE r[x] = x
  BY <1>3, <1>8 DEF Permutes
<1>9. ASSUME NEW x \in 1..n PROVE c[x] = b[r[x]]
  BY <1>1, <1>2, <1>3
<1>10. /\ c \in [1..n -> Rec] /\ c[i] = a[j] /\ c[j] = a[i]
       /\ \A x \in 1..n : x # i /\ x # j => c[x] = a[x]
  <2>1. a \in [1..n -> Rec]
    BY DEF n
  <2> QED  BY <1>1, <1>2, <2>1
<1> HIDE DEF r
<1>11. Permutes(r, n, low, high)
  BY <1>5, <1>6, <1>7, <1>8 DEF Permutes
<1>12. Rearranged(c, b, low, high)
  BY <1>9, <1>11 DEF Rearranged, n
<1> QED  BY <1>10, <1>12 DEF n, c, Swapped

(* What is listed through a one-to-one map of places has the same records. *)
LEMMA SameByPlaces ==
    ASSUME NEW b \in Seq(Rec), NEW a \in Seq(Rec), NEW q \in [1..Len(a) -> 1..Len(b)],
           \A x, y \in 1..Len(a) : q[x] = q[y] => x = y,
           \A z \in 1..Len(b) : \E x \in 1..Len(a) : q[x] = z,
           \A x \in 1..Len(a) : a[x] = b[q[x]]
    PROVE  SameRecords(a, b)
<1> DEFINE A == 1..Len(a)
           B == 1..Len(b)
<1>1. Len(a) \in Nat /\ Len(b) \in Nat /\ DOMAIN a = A /\ DOMAIN b = B
  OBVIOUS
<1>2. IsFiniteSet(A) /\ IsFiniteSet(B) /\ Cardinality(A) = Len(a) /\ Cardinality(B) = Len(b)
  <2>1. ASSUME NEW n \in Nat PROVE IsFiniteSet(1..n) /\ Cardinality(1..n) = n
    <3>1. IsFiniteSet(1..n) /\ Cardinality(1..n) = IF 1 > n THEN 0 ELSE n - 1 + 1
      BY FS_Interval
    <3> QED  BY <3>1
  <2> QED  BY <1>1, <2>1
<1> HIDE DEF A, B
<1>3. /\ q \in [A -> B] /\ \A x, y \in A : q[x] = q[y] => x = y
      /\ \A z \in B : \E x \in A : q[x] = z
      /\ \A x \in A : a[x] = b[q[x]]
  BY DEF A, B
<1>4. Len(a) = Len(b)
  <2>1. q \in Bijection(A, B)
    BY <1>3 DEF Bijection, Injection, Surjection, IsInjective
  <2>2. ExistsBijection(A, B)
    BY <2>1 DEF ExistsBijection
  <2> QED  BY <1>2, <2>2, FS_Bijection
<1>5. ASSUME NEW r PROVE CountIn(a, r) = CountIn(b, r)
  <2> DEFINE S == {x \in A : a[x] = r}
             T == {x \in B : b[x] = r}
             p == [x \in S |-> q[x]]
  <2>1. p \in [S -> T]
    BY <1>3
  <2>2. \A x, y \in S : p[x] = p[y] => x = y
    BY <1>3
  <2>3. \A z \in T : \E x \in S : p[x] = z
    BY <1>3
  <2>4. IsFiniteSet(S)
    BY <1>2, FS_Subset
  <2> HIDE DEF S, T, p
  <2>5. p \in Bijection(S, T)
    BY <2>1, <2>2, <2>3 DEF Bijection, Injection, Surjection, IsInjective
  <2>6. ExistsBijection(S, T)
    BY <2>5 DEF ExistsBijection
  <2>7. Cardinality(S) = Cardinality(T)
    BY <2>4, <2>6, FS_Bijection
  <2> QED  BY <1>1, <2>7 DEF CountIn, S, T
<1> QED  BY <1>4, <1>5 DEF SameRecords

(* A rearranged array has the same records.                                *)
LEMMA SameRearranged ==
    ASSUME NEW b \in Seq(Rec), NEW a \in Seq(Rec), Len(a) = Len(b), Rearranged(a, b, 1, Len(b))
    PROVE  SameRecords(a, b)
<1>1. PICK q : Permutes(q, Len(b), 1, Len(b)) /\ \A x \in 1..Len(b) : a[x] = b[q[x]]
  BY DEF Rearranged
<1>2. /\ q \in [1..Len(a) -> 1..Len(b)]
      /\ \A x, y \in 1..Len(a) : q[x] = q[y] => x = y
      /\ \A z \in 1..Len(b) : \E x \in 1..Len(a) : q[x] = z
      /\ \A x \in 1..Len(a) : a[x] = b[q[x]]
  BY <1>1 DEF Permutes
<1> QED  BY <1>2, SameByPlaces

-----------------------------------------------------------------------------
(* quickSortRec: one call of partition.                                    *)

(* The state of the loop in partition when the places low..(j - 1) of the  *)
(* range have been seen: those up to s.i are not above the pivot, which    *)
(* lies at high, the others are.                                           *)
Parted(s, arr, low, high, j, pivot) ==
    /\ s.arr \in [1..Len(arr) -> Rec] /\ s.i \in (low - 1)..(j - 1)
    /\ Rearranged(s.arr, arr, low, high)
    /\ \A x \in low..s.i : s.arr[x].annual <= pivot
    /\ \A x \in (s.i + 1)..(j - 1) : s.arr[x].annual > pivot
    /\ s.arr[high].annual = pivot

(* A round of the loop.                                                    *)
LEMMA PartedNext ==
    ASSUME NEW arr \in Seq(Rec), NEW low \in 1..Len(arr), NEW high \in 1..Len(arr), NEW pivot \in Nat,
           NEW j \in low..(high - 1), NEW s, Parted(s, arr, low, high, j, pivot)
    PROVE  Parted(PartitionStep(s, j, pivot), arr, low, high, j + 1, pivot)
<1> DEFINE n == Len(arr)
           i == s.i + 1
           c == swapRecords(s.arr, i, j)
<1>0. n \in Nat /\ low \in 1..n /\ high \in 1..n /\ j \in 1..n
  OBVIOUS
<1>1. /\ s.arr \in [1..n -> Rec] /\ s.i \in (low - 1)..(j - 1)
      /\ Rearranged(s.arr, arr, low, high)
      /\ \A x \in low..s.i : s.arr[x].annual <= pivot
      /\ \A x \in (s.i + 1)..(j - 1) : s.arr[x].annual > pivot
      /\ s.arr[high].annual = pivot
  BY DEF Parted
<1>2. i \in low..high /\ j \in low..high /\ i <= j
  BY <1>0, <1>1
<1>3. /\ Rearranged(c, arr, low, high) /\ c \in [1..n -> Rec]
      /\ c[i] = s.arr[j] /\ c[j] = s.arr[i]
      /\ \A x \in 1..n : x # i /\ x # j => c[x] = s.arr[x]
  <2>1. s.arr \in [1..Len(arr) -> Rec] /\ Rearranged(s.arr, arr, low, high)
    BY <1>1
  <2> HIDE DEF i
  <2>2. Swapped(swapRecords(s.arr, i, j), s.arr, arr, low, high, i, j)
    BY <1>2, <2>1, RearrangedSwap
  <2> QED  BY <2>2 DEF Swapped
<1> HIDE DEF c, n
<1>4. s.arr[j].annual \in Nat
  <2>1. s.arr[j] \in Rec
    BY <1>0, <1>1
  <2> QED  BY <2>1, RecTypes
<1>5. CASE s.arr[j].annual <= pivot
  <2> DEFINE t == [arr |-> c, i |-> i]
  <2>1. PartitionStep(s, j, pivot) = t
    BY <1>5 DEF PartitionStep, c
  <2>2. t.arr = c /\ t.i = i /\ t.i - 1 = s.i /\ t.i \in (low - 1)..((j + 1) - 1)
    BY <1>0, <1>1, <1>2
  <2> HIDE DEF t
  <2>3. ASSUME NEW x \in low..i PROVE c[x].annual <= pivot
    <3>1. CASE x = i
      BY <1>3, <1>5, <3>1
    <3>2. CASE x # i
      <4>1. x \in low..s.i /\ x \in 1..n /\ x # j
        BY <1>0, <1>1, <1>2, <3>2
      <4> QED  BY <1>1, <1>3, <3>2, <4>1
    <3> QED  BY <3>1, <3>2
  <2>4. ASSUME NEW x \in (i + 1)..((j + 1) - 1) PROVE c[x].annual > pivot
    <3>1. CASE x = j
      <4>1. i \in (s.i + 1)..(j - 1)
        BY <1>0, <1>1, <1>2, <3>1
      <4>2. s.arr[i].annual > pivot
        BY <1>1, <4>1
      <4>3. c[x] = s.arr[i]
        BY <1>3, <3>1
      <4> QED  BY <4>2, <4>3
    <3>2. CASE x # j
      <4>1. x \in (s.i + 1)..(j - 1) /\ x \in 1..n /\ x # i
        <5>1. s.i \in Int /\ low \in Nat /\ s.i >= low - 1 /\ low >= 1 /\ j \in Nat /\ j <= n
          BY <1>0, <1>1
        <5>2. x \in Int /\ x > s.i + 1 /\ x < j
          BY <3>2, <5>1
        <5> QED  BY <1>0, <5>1, <5>2
      <4> QED  BY <1>1, <1>3, <3>2, <4>1
    <3> QED  BY <3>1, <3>2
  <2>5. c[high].annual = pivot
    <3>1. high # i /\ high # j
      BY <1>0, <1>2
    <3> QED  BY <1>0, <1>1, <1>3, <3>1
  <2> HIDE DEF i
  <2>6. Parted(t, arr, low, high, j + 1, pivot)
    BY <1>3, <2>2, <2>3, <2>4, <2>5 DEF Parted, n
  <2> QED  BY <2>1, <2>6
<1>6. CASE ~(s.arr[j].annual <= pivot)
  <2>1. PartitionStep(s, j, pivot) = s
    BY <1>6 DEF PartitionStep
  <2>2. \A x \in (s.i + 1)..((j + 1) - 1) : s.arr[x].annual > pivot
    <3> SUFFICES ASSUME NEW x \in (s.i + 1)..((j + 1) - 1) PROVE s.arr[x].annual > pivot
      OBVIOUS
    <3>1. x = j \/ x \in (s.i + 1)..(j - 1)
      BY <1>0, <1>1
    <3> QED  BY <1>1, <1>4, <1>6, <3>1
  <2>3. s.i \in (low - 1)..((j + 1) - 1)
    BY <1>0, <1>1
  <2>4. Parted(s, arr, low, high, j + 1, pivot)
    BY <1>1, <2>2, <2>3 DEF Parted, n
  <2> QED  BY <2>1, <2>4
<1> QED  BY <1>5, <1>6

(* A state in which the loop has done k rounds, or fewer.                  *)
Rounds(arr, low, k) == {v \in [arr : [1..Len(arr) -> Rec], i : Int] : v.i \in (low - 1)..(low - 1 + k)}

(* A further round.                                                        *)
LEMMA OneRound ==
    ASSUME NEW arr \in Seq(Rec), NEW low \in 1..Len(arr), NEW high \in 1..Len(arr), NEW pivot \in Nat,
           NEW k \in 1..(high - low), NEW v \in Rounds(arr, low, k - 1)
    PROVE  PartitionStep(v, low + k - 1, pivot) \in Rounds(arr, low, k)
<1> DEFINE A == [1..Len(arr) -> Rec]
           i == v.i + 1
           j == low + k - 1
           c == swapRecords(v.arr, i, j)
<1>1. v \in [arr : A, i : Int] /\ v.i \in (low - 1)..(low - 1 + (k - 1))
  BY DEF Rounds
<1>2. v.arr \in A /\ i \in 1..Len(arr) /\ j \in 1..Len(arr)
  BY <1>1
<1>3. c \in A
  <2> HIDE DEF i, j
  <2> QED  BY <1>2 DEF swapRecords
<1>4. v.i \in (low - 1)..(low - 1 + k) /\ i \in (low - 1)..(low - 1 + k) /\ i \in Int
  BY <1>1
<1>5. [arr |-> c, i |-> i] \in Rounds(arr, low, k)
  <2> DEFINE t == [arr |-> c, i |-> i]
  <2> HIDE DEF c, i
  <2>1. t \in [arr : A, i : Int] /\ t.i = i
    BY <1>3, <1>4
  <2> HIDE DEF t
  <2>2. t \in Rounds(arr, low, k)
    BY <1>4, <2>1 DEF Rounds
  <2> QED  BY <2>2 DEF t
<1>6. v \in Rounds(arr, low, k)
  BY <1>1, <1>4 DEF Rounds
<1>7. PartitionStep(v, low + k - 1, pivot) = [arr |-> c, i |-> i] \/ PartitionStep(v, low + k - 1, pivot) = v
  BY DEF PartitionStep
<1> HIDE DEF c, i, j
<1> QED  BY <1>5, <1>6, <1>7

(* The array out is arr with low..high parted about the element now at at. *)
IsParted(out, at, arr, low, high) ==
    /\ at \in low..high /\ out \in [1..Len(arr) -> Rec]
    /\ Rearranged(out, arr, low, high)
    /\ \A x \in low..(at - 1) : out[x].annual <= out[at].annual
    /\ \A x \in (at + 1)..high : out[x].annual > out[at].annual

(* What partition returns.                                                 *)
LEMMA PartitionParts ==
    ASSUME NEW arr \in Seq(Rec), NEW low \in 1..Len(arr), NEW high \in 1..Len(arr), low < high,
           NEW randIdx \in low..high, NEW p, p = partition(arr, low, high, randIdx)
    PROVE  IsParted(p.arr, p.at, arr, low, high)
<1> DEFINE m == high - low
           A == [1..Len(arr) -> Rec]
           start == swapRecords(arr, randIdx, high)
           pivot == start[high].annual
           base == [arr |-> start, i |-> low - 1]
           V == [arr : A, i : Int]
           seq == [n \in 1..(high - low) |-> low + n - 1]
           does(v, k) == PartitionStep(v, seq[k], pivot)
           next == [q \in V \X (1..m) |-> IF does(q[1], q[2]) \in V THEN does(q[1], q[2]) ELSE q[1]]
           G == [k \in 0..m |-> Rounds(arr, low, k)]
           Eq(it) == it = [s \in SUBSET (1..m) |-> IF s = {} THEN base
                           ELSE LET x == Max(s) IN does(it[s \ {x}], x)]
           end == (CHOOSE it : Eq(it))[1..m]
<1>1. p = [arr |-> swapRecords(end.arr, end.i + 1, high), at |-> end.i + 1]
  <2>1. DOMAIN seq = 1..m
    OBVIOUS
  <2>2. p = LET e == FoldLeft(LAMBDA s, j : PartitionStep(s, j, pivot), base, seq)
            IN  [arr |-> swapRecords(e.arr, e.i + 1, high), at |-> e.i + 1]
    BY DEF partition
  <2> HIDE DEF start, seq, m, base, pivot
  <2>3. FoldLeft(LAMBDA s, j : PartitionStep(s, j, pivot), base, seq)
          = (CHOOSE it : it = [s \in SUBSET (DOMAIN seq) |-> IF s = {} THEN base
               ELSE LET x == Max(s) IN PartitionStep(it[s \ {x}], seq[x], pivot)])[DOMAIN seq]
    BY DEF FoldLeft, MapThenFoldSet
  <2>4. FoldLeft(LAMBDA s, j : PartitionStep(s, j, pivot), base, seq) = end
    BY <2>1, <2>3
  <2> HIDE DEF end
  <2> QED  BY <2>2, <2>4
<1>2. /\ m \in Nat /\ low \in Nat /\ high \in Nat /\ low <= high
      /\ \A k \in 1..m : seq[k] = low + k - 1 /\ low + k - 1 \in low..(high - 1)
  OBVIOUS
<1>3. start \in A /\ Rearranged(start, arr, low, high)
  <2>1. arr \in A /\ high \in low..high
    OBVIOUS
  <2>2. Rearranged(arr, arr, low, high)
    BY RearrangedSelf
  <2> QED  BY <2>1, <2>2, RearrangedSwap DEF Swapped
<1> HIDE DEF start
<1>4. pivot \in Nat
  <2>1. start[high] \in Rec
    BY <1>3
  <2> QED  BY <2>1, RecTypes
<1>5. base \in V /\ base.arr = start /\ base.i = low - 1
  BY <1>2, <1>3
<1>6. pivot = start[high].annual
  OBVIOUS
<1> HIDE DEF pivot, base, seq
<1>7. Parted(base, arr, low, high, low, pivot)
  <2>1. \A x \in low..(low - 1) : FALSE
    BY <1>2
  <2>2. \A x \in ((low - 1) + 1)..(low - 1) : FALSE
    BY <1>2
  <2>3. low - 1 \in (low - 1)..(low - 1)
    BY <1>2
  <2> QED  BY <1>3, <1>5, <1>6, <2>1, <2>2, <2>3 DEF Parted
<1> HIDE DEF m
<1>8. \A k \in 0..m : G[k] = Rounds(arr, low, k) /\ G[k] \subseteq V
  BY DEF Rounds
<1>9. ASSUME NEW k \in 1..m, NEW v \in G[k - 1]
      PROVE  /\ does(v, k) \in G[k] /\ next[<<v, k>>] = does(v, k)
  <2>1. k \in 0..m /\ k - 1 \in 0..m
    BY <1>2
  <2>2. v \in Rounds(arr, low, k - 1) /\ v \in V
    <3> HIDE DEF G, V
    <3> QED  BY <1>8, <1>9, <2>1
  <2>3. does(v, k) \in Rounds(arr, low, k)
    <3>1. PartitionStep(v, low + k - 1, pivot) \in Rounds(arr, low, k)
      BY <1>4, <2>2, OneRound DEF m
    <3> QED  BY <1>2, <3>1
  <2>4. does(v, k) \in G[k] /\ does(v, k) \in V
    <3> HIDE DEF does, G, V
    <3> QED  BY <1>8, <2>1, <2>3
  <2>5. <<v, k>> \in V \X (1..m)
    BY <2>2
  <2> HIDE DEF does, G, V
  <2> QED  BY <2>4, <2>5
<1>10. next \in [V \X (1..m) -> V]
  <2>1. \A q \in V \X (1..m) : q[1] \in V
    OBVIOUS
  <2> HIDE DEF does, V
  <2> QED  BY <2>1
<1>11. /\ G \in [0..m -> SUBSET V] /\ base \in G[0]
       /\ \A k \in 1..m : G[k - 1] \subseteq G[k] /\ \A v \in G[k - 1] : next[<<v, k>>] \in G[k]
  <2>1. G \in [0..m -> SUBSET V]
    <3> HIDE DEF V
    <3> QED  BY <1>8
  <2>2. base \in G[0]
    <3>1. 0 \in 0..m /\ low - 1 \in (low - 1)..(low - 1 + 0)
      BY <1>2
    <3> QED  BY <1>5, <1>8, <3>1 DEF Rounds
  <2>3. ASSUME NEW k \in 1..m PROVE G[k - 1] \subseteq G[k]
    <3>1. k \in 0..m /\ k - 1 \in 0..m
      BY <1>2
    <3>2. Rounds(arr, low, k - 1) \subseteq Rounds(arr, low, k)
      <4>1. \A i \in (low - 1)..(low - 1 + (k - 1)) : i \in (low - 1)..(low - 1 + k)
        BY <1>2
      <4> QED  BY <4>1 DEF Rounds
    <3> HIDE DEF G
    <3> QED  BY <1>8, <3>1, <3>2
  <2> HIDE DEF G, next, V, does
  <2> QED  BY <1>9, <2>1, <2>2, <2>3
<1> HIDE DEF G
<1>12. \E it : Eq(it)
  <2>1. PICK it \in [SUBSET (1..m) -> V] : IsFold(it, m, base, next)
    <3> HIDE DEF V, next
    <3> QED  BY <1>2, <1>5, <1>10, FoldExists
  <2>2. \A s \in SUBSET (1..m) : s # {} => it[s \ {Max(s)}] \in G[Max(s) - 1]
    <3> HIDE DEF V, next
    <3> QED  BY <1>2, <1>5, <1>10, <1>11, <2>1, FoldWithin
  <2> DEFINE one(s) == IF s = {} THEN base ELSE LET x == Max(s) IN next[<<it[s \ {x}], x>>]
             two(s) == IF s = {} THEN base ELSE LET x == Max(s) IN does(it[s \ {x}], x)
  <2>3. ASSUME NEW s \in SUBSET (1..m) PROVE one(s) = two(s)
    <3>1. CASE s # {}
      <4>1. Max(s) \in 1..m /\ it[s \ {Max(s)}] \in G[Max(s) - 1]
        BY <1>2, <2>2, <3>1, MaxIn
      <4> HIDE DEF next, does
      <4> QED  BY <1>9, <3>1, <4>1
    <3> QED  BY <3>1
  <2>4. it = [s \in SUBSET (1..m) |-> one(s)]
    BY <2>1 DEF IsFold
  <2> HIDE DEF one, two
  <2>5. it = [s \in SUBSET (1..m) |-> two(s)]
    BY <2>3, <2>4
  <2> QED  BY <2>5 DEF two
<1> DEFINE it == CHOOSE it : Eq(it)
<1>13. Eq(it)
  <2> HIDE DEF Eq
  <2> QED  BY <1>12
<1>14. \A s \in SUBSET (1..m) : it[s] = IF s = {} THEN base ELSE does(it[s \ {Max(s)}], Max(s))
  <2> HIDE DEF it, does
  <2> QED  BY <1>13
<1>15. end = it[1..m]
  OBVIOUS
<1> HIDE DEF it, Eq, end, G, next
<1> DEFINE S == {k \in Nat : k <= m => Parted(it[1..k], arr, low, high, low + k, pivot)}
<1>16. 0 \in S
  <2>1. 1..0 = {} /\ low + 0 = low
    BY <1>2
  <2>2. it[1..0] = base
    BY <1>14, <2>1
  <2> QED  BY <1>7, <2>1, <2>2
<1>17. ASSUME NEW k \in Nat, k \in S PROVE k + 1 \in S
  <2> SUFFICES ASSUME k + 1 <= m PROVE Parted(it[1..(k + 1)], arr, low, high, low + (k + 1), pivot)
    OBVIOUS
  <2> DEFINE j == low + (k + 1) - 1
  <2>1. k + 1 \in 1..m /\ (k + 1) - 1 = k /\ k <= m /\ j = low + k /\ j + 1 = low + (k + 1)
    BY <1>2
  <2>2. Parted(it[1..k], arr, low, high, j, pivot)
    BY <1>17, <2>1
  <2>3. /\ Max(1..(k + 1)) = k + 1 /\ (1..(k + 1)) \ {k + 1} = 1..k
        /\ 1..(k + 1) \in SUBSET (1..m) /\ 1..(k + 1) # {}
    <3> HIDE DEF j
    <3> QED  BY <1>2, <2>1, MaxUpto
  <2>4. it[1..(k + 1)] = does(it[1..k], k + 1)
    <3> HIDE DEF does
    <3> QED  BY <1>14, <2>3
  <2>5. seq[k + 1] = j /\ j \in low..(high - 1)
    BY <1>2, <2>1
  <2>6. it[1..(k + 1)] = PartitionStep(it[1..k], j, pivot)
    BY <2>4, <2>5
  <2> HIDE DEF j
  <2>7. Parted(it[1..(k + 1)], arr, low, high, j + 1, pivot)
    BY <1>4, <2>2, <2>5, <2>6, PartedNext
  <2> QED  BY <2>1, <2>7
<1>18. S = Nat
  <2>1. S \in SUBSET Nat
    OBVIOUS
  <2> HIDE DEF S
  <2> QED  BY <1>16, <1>17, <2>1, NatInduct
<1>19. Parted(end, arr, low, high, high, pivot)
  <2>1. m <= m /\ low + m = high
    BY <1>2 DEF m
  <2>2. m \in S
    <3> HIDE DEF S
    <3> QED  BY <1>2, <1>18
  <2> QED  BY <1>15, <2>1, <2>2
<1> DEFINE i == end.i + 1
           c == swapRecords(end.arr, i, high)
<1>20. p.arr = c /\ p.at = i
  BY <1>1
<1>21. /\ end.arr \in A /\ end.i \in (low - 1)..(high - 1)
       /\ Rearranged(end.arr, arr, low, high)
       /\ \A x \in low..end.i : end.arr[x].annual <= pivot
       /\ \A x \in (end.i + 1)..(high - 1) : end.arr[x].annual > pivot
       /\ end.arr[high].annual = pivot
  BY <1>19 DEF Parted
<1>22. i \in low..high /\ high \in low..high
  BY <1>2, <1>21
<1>23. /\ Rearranged(c, arr, low, high) /\ c \in A
       /\ c[i] = end.arr[high] /\ c[high] = end.arr[i]
       /\ \A x \in 1..Len(arr) : x # i /\ x # high => c[x] = end.arr[x]
  <2>1. end.arr \in [1..Len(arr) -> Rec] /\ Rearranged(end.arr, arr, low, high)
    BY <1>21
  <2>2. c = swapRecords(end.arr, i, high)
    OBVIOUS
  <2> HIDE DEF i, c
  <2>3. Swapped(swapRecords(end.arr, i, high), end.arr, arr, low, high, i, high)
    <3> HIDE DEF A, end
    <3> QED  BY <1>22, <2>1, RearrangedSwap
  <2> QED  BY <2>1, <2>2, <2>3 DEF Swapped
<1> HIDE DEF c
<1>24. ASSUME NEW x \in low..(i - 1) PROVE c[x].annual <= c[i].annual
  <2>1. x \in low..end.i /\ x \in 1..Len(arr) /\ x # i /\ x # high
    BY <1>2, <1>21, <1>22
  <2> QED  BY <1>21, <1>23, <2>1
<1>25. ASSUME NEW x \in (i + 1)..high PROVE c[x].annual > c[i].annual
  <2>1. CASE x = high
    <3>1. i \in (end.i + 1)..(high - 1)
      BY <1>2, <1>21, <1>22, <2>1
    <3> QED  BY <1>21, <1>23, <2>1, <3>1
  <2>2. CASE x # high
    <3>1. x \in (end.i + 1)..(high - 1) /\ x \in 1..Len(arr) /\ x # i
      <4>1. low \in Nat /\ high \in Nat /\ end.i \in Int /\ end.i >= low - 1
        BY <1>2, <1>21
      <4>2. x \in Int /\ x > end.i + 1 /\ x < high
        BY <2>2, <4>1
      <4> QED  BY <4>1, <4>2
    <3> QED  BY <1>21, <1>23, <2>2, <3>1
  <2> QED  BY <2>1, <2>2
<1> HIDE DEF i
<1> QED  BY <1>20, <1>22, <1>23, <1>24, <1>25 DEF IsParted

-----------------------------------------------------------------------------
(* Quick sort: its array holds the records, the pending ranges come one    *)
(* after the other, and whatever is still out of order lies within one.    *)
QuickHolds(arr, rs, recs) ==
    /\ arr \in Seq(Rec) /\ Len(arr) = Len(recs) /\ Rearranged(arr, recs, 1, Len(recs))
    /\ rs \in Seq((1..(Len(recs) + 1)) \X (0..Len(recs)))
    /\ \A k, l \in 1..Len(rs) : k < l => rs[k][2] < rs[l][1]
    /\ \A i, j \in 1..Len(recs) : i < j /\ arr[i].annual > arr[j].annual =>
         \E k \in 1..Len(rs) : rs[k][1] <= i /\ j <= rs[k][2]

(* It starts from the whole array.                                         *)
LEMMA QuickStarts ==
    ASSUME NEW recs \in Seq(Rec)
    PROVE  QuickHolds(recs, <<<<1, Len(recs)>>>>, recs)
<1> DEFINE n == Len(recs)
           rs == <<<<1, n>>>>
<1>1. n \in Nat /\ Rearranged(recs, recs, 1, n)
  BY RearrangedSelf
<1>2. rs \in Seq((1..(n + 1)) \X (0..n)) /\ Len(rs) = 1 /\ rs[1][1] = 1 /\ rs[1][2] = n
  BY <1>1
<1>3. \A k, l \in 1..Len(rs) : ~(k < l)
  BY <1>2
<1>4. ASSUME NEW i \in 1..n, NEW j \in 1..n PROVE \E k \in 1..Len(rs) : rs[k][1] <= i /\ j <= rs[k][2]
  <2>1. 1 \in 1..Len(rs) /\ rs[1][1] <= i /\ j <= rs[1][2]
    BY <1>2
  <2> HIDE DEF rs
  <2> QED  BY <2>1
<1> HIDE DEF rs
<1> QED  BY <1>1, <1>2, <1>3, <1>4 DEF QuickHolds, rs

(* It ends in order.                                                       *)
LEMMA QuickEnds ==
    ASSUME NEW recs \in Seq(Rec), NEW arr, QuickHolds(arr, <<>>, recs)
    PROVE  InOrder(arr)
<1>1. /\ arr \in Seq(Rec) /\ Len(arr) = Len(recs)
      /\ \A i, j \in 1..Len(recs) : i < j => ~(arr[i].annual > arr[j].annual)
  BY DEF QuickHolds
<1>2. \A i \in 1..Len(recs) : arr[i].annual \in Nat
  BY <1>1, SeqTypes, RecTypes
<1>3. DOMAIN arr = 1..Len(recs)
  BY <1>1
<1>4. ASSUME NEW i \in 1..Len(recs), NEW j \in 1..Len(recs), i <= j PROVE arr[i].annual <= arr[j].annual
  <2>1. CASE i = j
    BY <1>2, <2>1
  <2>2. CASE i < j
    BY <1>1, <1>2, <2>2
  <2> QED  BY <1>4, <2>1, <2>2
<1> QED  BY <1>3, <1>4 DEF InOrder

(* A range of at most one record is done.                                  *)
LEMMA QuickDrops ==
    ASSUME NEW recs \in Seq(Rec), NEW arr, NEW rs, rs # <<>>, QuickHolds(arr, rs, recs),
           ~(rs[1][1] < rs[1][2])
    PROVE  QuickHolds(arr, Tail(rs), recs)
<1> DEFINE n == Len(recs)
           R == (1..(n + 1)) \X (0..n)
           ts == Tail(rs)
<1>1. /\ arr \in Seq(Rec) /\ Len(arr) = n /\ Rearranged(arr, recs, 1, n)
      /\ rs \in Seq(R)
      /\ \A k, l \in 1..Len(rs) : k < l => rs[k][2] < rs[l][1]
      /\ \A i, j \in 1..n : i < j /\ arr[i].annual > arr[j].annual =>
           \E k \in 1..Len(rs) : rs[k][1] <= i /\ j <= rs[k][2]
  BY DEF QuickHolds
<1>2. n \in Nat
  OBVIOUS
<1> HIDE DEF n
<1>3. /\ Len(rs) \in Nat /\ Len(rs) >= 1 /\ Len(ts) = Len(rs) - 1 /\ ts \in Seq(R)
      /\ \A k \in 1..Len(ts) : ts[k] = rs[k + 1]
  <2> HIDE DEF R
  <2> QED  BY <1>1
<1> HIDE DEF ts
<1>4. ASSUME NEW k \in 1..Len(ts), NEW l \in 1..Len(ts), k < l PROVE ts[k][2] < ts[l][1]
  <2>1. k + 1 \in 1..Len(rs) /\ l + 1 \in 1..Len(rs) /\ k + 1 < l + 1
    BY <1>3, <1>4
  <2> QED  BY <1>1, <1>3, <2>1
<1>5. ASSUME NEW i \in 1..n, NEW j \in 1..n, i < j, arr[i].annual > arr[j].annual
      PROVE  \E k \in 1..Len(ts) : ts[k][1] <= i /\ j <= ts[k][2]
  <2>1. PICK k \in 1..Len(rs) : rs[k][1] <= i /\ j <= rs[k][2]
    BY <1>1, <1>5
  <2>2. rs[1] \in R
    <3> HIDE DEF R
    <3> QED  BY <1>1, <1>3
  <2>3. rs[1][1] \in Int /\ rs[1][2] \in Int
    BY <1>2, <2>2
  <2>4. k # 1
    BY <1>2, <1>5, <2>1, <2>3
  <2>5. k - 1 \in 1..Len(ts) /\ (k - 1) + 1 = k
    BY <1>3, <2>4
  <2> QED  BY <1>3, <2>1, <2>5
<1> QED  BY <1>1, <1>3, <1>4, <1>5 DEF QuickHolds, n, ts

(* A sequence put before another.                                          *)
LEMMA Chained ==
    ASSUME NEW R, NEW s \in Seq(R), NEW t \in Seq(R)
    PROVE  /\ s \o t \in Seq(R) /\ Len(s \o t) = Len(s) + Len(t)
           /\ \A k \in 1..Len(s) : (s \o t)[k] = s[k]
           /\ \A k \in 1..Len(t) : (s \o t)[k + Len(s)] = t[k]
<1>1. s \o t \in Seq(R) /\ Len(s \o t) = Len(s) + Len(t)
  OBVIOUS
<1>2. Len(s) \in Nat /\ Len(t) \in Nat
  OBVIOUS
<1>3. \A k \in 1..(Len(s) + Len(t)) : (s \o t)[k] = IF k <= Len(s) THEN s[k] ELSE t[k - Len(s)]
  OBVIOUS
<1>4. ASSUME NEW k \in 1..Len(s) PROVE (s \o t)[k] = s[k]
  <2>1. k \in 1..(Len(s) + Len(t)) /\ k <= Len(s)
    BY <1>2
  <2> QED  BY <1>3, <2>1
<1>5. ASSUME NEW k \in 1..Len(t) PROVE (s \o t)[k + Len(s)] = t[k]
  <2>1. k + Len(s) \in 1..(Len(s) + Len(t)) /\ ~(k + Len(s) <= Len(s)) /\ (k + Len(s)) - Len(s) = k
    BY <1>2
  <2> QED  BY <1>3, <2>1
<1> QED  BY <1>1, <1>4, <1>5

(* Two ranges put before a sequence of ranges.                             *)
LEMMA TwoBefore ==
    ASSUME NEW R, NEW u \in R, NEW v \in R, NEW ts \in Seq(R), NEW us, us = <<u, v>> \o ts
    PROVE  /\ us \in Seq(R) /\ Len(us) = Len(ts) + 2 /\ us[1] = u /\ us[2] = v
           /\ \A k \in 1..Len(ts) : us[k + 2] = ts[k]
<1>1. <<u, v>> \in Seq(R) /\ Len(<<u, v>>) = 2 /\ <<u, v>>[1] = u /\ <<u, v>>[2] = v
  OBVIOUS
<1> DEFINE s == <<u, v>>
<1> HIDE DEF s
<1>2. s \in Seq(R) /\ Len(s) = 2 /\ s[1] = u /\ s[2] = v /\ us = s \o ts
  BY <1>1 DEF s
<1>3. /\ us \in Seq(R) /\ Len(us) = 2 + Len(ts)
      /\ \A k \in 1..2 : us[k] = s[k]
      /\ \A k \in 1..Len(ts) : us[k + 2] = ts[k]
  BY <1>2, Chained
<1>4. Len(us) = Len(ts) + 2 /\ 1 \in 1..2 /\ 2 \in 1..2
  BY <1>3
<1> QED  BY <1>2, <1>3, <1>4

(* The first of the ranges.                                                *)
FirstRange(rs, low, high) == low = rs[1][1] /\ high = rs[1][2]

(* A longer range is split about the pivot.                                *)
LEMMA QuickSplits ==
    ASSUME NEW recs \in Seq(Rec), NEW arr, NEW rs, rs # <<>>, QuickHolds(arr, rs, recs),
           NEW low, NEW high, FirstRange(rs, low, high), low < high,
           NEW out, NEW at, IsParted(out, at, arr, low, high)
    PROVE  QuickHolds(out, <<<<low, at - 1>>, <<at + 1, high>>>> \o Tail(rs), recs)
<1> DEFINE n == Len(recs)
           R == (1..(n + 1)) \X (0..n)
           ts == Tail(rs)
           u == <<low, at - 1>>
           v == <<at + 1, high>>
           us == <<u, v>> \o ts
<1>1. /\ arr \in Seq(Rec) /\ Len(arr) = n /\ Rearranged(arr, recs, 1, n)
      /\ rs \in Seq(R)
      /\ \A k, l \in 1..Len(rs) : k < l => rs[k][2] < rs[l][1]
      /\ \A i, j \in 1..n : i < j /\ arr[i].annual > arr[j].annual =>
           \E k \in 1..Len(rs) : rs[k][1] <= i /\ j <= rs[k][2]
  BY DEF QuickHolds
<1>2. n \in Nat
  OBVIOUS
<1> HIDE DEF n
<1>3. /\ Len(rs) \in Nat /\ Len(rs) >= 1 /\ Len(ts) = Len(rs) - 1 /\ ts \in Seq(R)
      /\ \A k \in 1..Len(ts) : ts[k] = rs[k + 1]
  <2> HIDE DEF R
  <2> QED  BY <1>1
<1>4. \A k \in 1..Len(rs) : rs[k] \in R
  <2> HIDE DEF R
  <2> QED  BY <1>1
<1>5. low \in 1..n /\ high \in 1..n
  <2>1. rs[1] \in R
    BY <1>3, <1>4
  <2>2. low \in 1..(n + 1) /\ high \in 0..n
    BY <2>1 DEF FirstRange
  <2> QED  BY <1>2, <2>2
<1>6. /\ at \in low..high /\ out \in [1..n -> Rec] /\ Rearranged(out, arr, low, high)
      /\ \A x \in low..(at - 1) : out[x].annual <= out[at].annual
      /\ \A x \in (at + 1)..high : out[x].annual > out[at].annual
  BY <1>1 DEF IsParted
<1>7. out \in Seq(Rec) /\ Len(out) = n
  BY <1>2, <1>6
<1>8. Rearranged(out, recs, 1, n)
  <2>1. low \in 1..(n + 1) /\ high \in 0..n
    BY <1>2, <1>5
  <2> QED  BY <1>1, <1>6, <2>1, RearrangedTwice DEF n
<1>9. u \in R /\ v \in R /\ u[1] = low /\ u[2] = at - 1 /\ v[1] = at + 1 /\ v[2] = high
  <2>1. at \in Int /\ low <= at /\ at <= high /\ low \in Int /\ high \in Int
    BY <1>2, <1>5, <1>6
  <2>2. at - 1 \in 0..n /\ at + 1 \in 1..(n + 1) /\ low \in 1..(n + 1) /\ high \in 0..n
    BY <1>2, <1>5, <2>1
  <2> QED  BY <2>2
<1> HIDE DEF u, v, ts, R
<1>10. /\ us \in Seq(R) /\ Len(us) = Len(ts) + 2 /\ us[1] = u /\ us[2] = v
       /\ \A k \in 1..Len(ts) : us[k + 2] = ts[k]
  BY <1>3, <1>9, TwoBefore
<1> HIDE DEF us
<1>11. \A k \in 1..Len(us) : k = 1 \/ k = 2 \/ (k >= 3 /\ k - 1 \in 2..Len(rs) /\ us[k] = rs[k - 1])
  <2> SUFFICES ASSUME NEW k \in 1..Len(us), k # 1, k # 2
               PROVE  k >= 3 /\ k - 1 \in 2..Len(rs) /\ us[k] = rs[k - 1]
    OBVIOUS
  <2>1. k - 2 \in 1..Len(ts) /\ (k - 2) + 2 = k /\ (k - 2) + 1 = k - 1 /\ k >= 3 /\ k - 1 \in 2..Len(rs)
    BY <1>3, <1>10
  <2> QED  BY <1>3, <1>10, <2>1
<1>12. \A k \in 2..Len(rs) : high < rs[k][1]
  <2> SUFFICES ASSUME NEW k \in 2..Len(rs) PROVE high < rs[k][1]
    OBVIOUS
  <2>1. 1 \in 1..Len(rs) /\ k \in 1..Len(rs) /\ 1 < k
    BY <1>3
  <2>2. high = rs[1][2]
    BY DEF FirstRange
  <2> QED  BY <1>1, <2>1, <2>2
<1>13. ASSUME NEW k \in 1..Len(us), NEW l \in 1..Len(us), k < l PROVE us[k][2] < us[l][1]
  <2>1. CASE k = 1 /\ l = 2
    BY <1>5, <1>6, <1>9, <1>10, <2>1
  <2>2. CASE k \in {1, 2} /\ l >= 3
    <3>1. l - 1 \in 2..Len(rs) /\ us[l] = rs[l - 1]
      BY <1>11, <2>2
    <3>2. high < us[l][1] /\ rs[l - 1] \in R
      BY <1>4, <1>12, <3>1
    <3>3. us[l][1] \in Int
      BY <1>2, <3>1, <3>2 DEF R
    <3>4. us[k][2] = at - 1 \/ us[k][2] = high
      BY <1>9, <1>10, <2>2
    <3> HIDE DEF R
    <3> QED  BY <1>5, <1>6, <3>2, <3>3, <3>4
  <2>3. CASE k >= 3
    <3>1. k - 1 \in 1..Len(rs) /\ l - 1 \in 1..Len(rs) /\ k - 1 < l - 1
          /\ us[k] = rs[k - 1] /\ us[l] = rs[l - 1]
      BY <1>11, <1>13, <2>3
    <3> QED  BY <1>1, <3>1
  <2> QED  BY <1>13, <2>1, <2>2, <2>3
<1>14. PICK q : Permutes(q, n, low, high) /\ \A x \in 1..n : out[x] = arr[q[x]]
  BY <1>1, <1>6 DEF Rearranged
<1>15. \A x \in 1..n : /\ q[x] \in 1..n
                       /\ (x \in low..high => q[x] \in low..high)
                       /\ (x \notin low..high => q[x] = x)
  <2>1. \A x \in 1..n : q[x] \in 1..n /\ (x \notin low..high => q[x] = x)
    BY <1>14 DEF Permutes
  <2>2. low \in Int /\ high \in Int
    BY <1>5
  <2>3. ASSUME NEW x \in 1..n, x \in low..high PROVE q[x] \in low..high
    BY <1>2, <1>14, <2>2, <2>3, PermutesWithin
  <2> QED  BY <2>1, <2>3
<1>16. \A x \in 1..n : out[x].annual \in Nat
  <2>1. \A x \in 1..n : out[x] \in Rec
    BY <1>6
  <2> QED  BY <2>1, RecTypes
<1>17. ASSUME NEW i \in 1..n, NEW j \in 1..n, i < j, out[i].annual > out[j].annual
       PROVE  \E k \in 1..Len(us) : us[k][1] <= i /\ j <= us[k][2]
  <2>1. CASE i \in low..high /\ j \in low..high
    <3>1. CASE j < at
      <4>1. 1 \in 1..Len(us) /\ us[1][1] <= i /\ j <= us[1][2]
        <5>1. us[1][1] = low /\ us[1][2] = at - 1 /\ Len(us) \in Nat /\ Len(us) >= 1
          BY <1>3, <1>9, <1>10
        <5>2. low <= i /\ j <= at - 1
          BY <1>5, <1>6, <2>1, <3>1
        <5> QED  BY <5>1, <5>2
      <4> QED  BY <4>1
    <3>2. CASE i > at
      <4>1. 2 \in 1..Len(us) /\ us[2][1] <= i /\ j <= us[2][2]
        <5>1. us[2][1] = at + 1 /\ us[2][2] = high /\ Len(us) \in Nat /\ Len(us) >= 2
          BY <1>3, <1>9, <1>10
        <5>2. at + 1 <= i /\ j <= high
          BY <1>5, <1>6, <2>1, <3>2
        <5> QED  BY <5>1, <5>2
      <4> QED  BY <4>1
    <3>3. CASE i <= at /\ at <= j
      <4>1. out[i].annual <= out[at].annual
        <5>1. CASE i = at
          BY <1>16, <5>1
        <5>2. CASE i # at
          <6>1. i \in low..(at - 1)
            BY <1>6, <2>1, <3>3, <5>2
          <6> QED  BY <1>6, <6>1
        <5> QED  BY <5>1, <5>2
      <4>2. out[at].annual <= out[j].annual
        <5>1. CASE j = at
          BY <1>16, <5>1
        <5>2. CASE j # at
          <6>1. j \in (at + 1)..high /\ at \in 1..n
            BY <1>2, <1>5, <1>6, <2>1, <3>3, <5>2
          <6> QED  BY <1>6, <1>16, <6>1
        <5> QED  BY <5>1, <5>2
      <4>3. at \in 1..n
        BY <1>2, <1>5, <1>6
      <4> QED  BY <1>16, <1>17, <4>1, <4>2, <4>3
    <3> QED  BY <1>6, <2>1, <3>1, <3>2, <3>3
  <2>2. CASE ~(i \in low..high /\ j \in low..high)
    <3>1. /\ q[i] \in 1..n /\ q[j] \in 1..n /\ q[i] < q[j]
          /\ arr[q[i]].annual > arr[q[j]].annual
      <4>1. q[i] \in 1..n /\ q[j] \in 1..n
        BY <1>15
      <4>2. arr[q[i]].annual > arr[q[j]].annual
        BY <1>14, <1>17
      <4>3. q[i] < q[j]
        <5>1. CASE i \in low..high
          <6>1. q[i] \in low..high /\ q[j] = j /\ j > high
            BY <1>2, <1>5, <1>15, <1>17, <2>2, <5>1
          <6> QED  BY <1>2, <1>5, <6>1
        <5>2. CASE i \notin low..high
          <6>1. q[i] = i /\ (q[j] = j \/ (q[j] \in low..high /\ i < low))
            BY <1>2, <1>5, <1>15, <1>17, <5>2
          <6> QED  BY <1>2, <1>5, <1>17, <6>1
        <5> QED  BY <5>1, <5>2
      <4> QED  BY <4>1, <4>2, <4>3
    <3>2. PICK k \in 1..Len(rs) : rs[k][1] <= q[i] /\ q[j] <= rs[k][2]
      BY <1>1, <3>1
    <3>3. rs[k][1] \in Int /\ rs[k][2] \in Int
      <4>1. rs[k] \in R
        BY <1>4
      <4> QED  BY <1>2, <4>1 DEF R
    <3>4. k # 1
      <4> SUFFICES ASSUME k = 1 PROVE FALSE
        OBVIOUS
      <4>1. q[i] \in low..high /\ q[j] \in low..high
        <5>1. low <= q[i] /\ q[j] <= high
          BY <3>2 DEF FirstRange
        <5> QED  BY <1>5, <3>1, <5>1
      <4>2. i \in low..high /\ j \in low..high
        BY <1>15, <4>1
      <4> QED  BY <2>2, <4>2
    <3>5. k + 1 \in 1..Len(us) /\ us[k + 1] = rs[k]
      <4>1. k + 1 \in 1..Len(us) /\ k + 1 # 1 /\ k + 1 # 2 /\ (k + 1) - 1 = k
        BY <1>3, <1>10, <3>4
      <4> QED  BY <1>11, <4>1
    <3>6. high < rs[k][1]
      <4>1. k \in 2..Len(rs)
        BY <1>3, <3>4
      <4> QED  BY <1>12, <4>1
    <3>7. q[i] = i /\ q[j] = j
      <4>1. q[i] \notin low..high /\ q[j] \notin low..high
        BY <1>5, <3>1, <3>2, <3>3, <3>6
      <4> QED  BY <1>15, <4>1
    <3> QED  BY <3>2, <3>5, <3>7
  <2> QED  BY <2>1, <2>2
<1>18. QuickHolds(out, us, recs)
  BY <1>7, <1>8, <1>10, <1>13, <1>17 DEF QuickHolds, n, R
<1> QED  BY <1>18 DEF us, u, v, ts

-----------------------------------------------------------------------------
(* Merge sort.                                                             *)

(* Place x of the array comes before place y when it is sorted.            *)
Earlier(arr, x, y) == arr[x].annual < arr[y].annual \/ (arr[x].annual = arr[y].annual /\ x < y)

(* The sequence t lists the elements at the places in Q, sorted.           *)
ListsBy(q, arr, t, Q) ==
    /\ q \in [1..Len(t) -> Q] /\ \A z \in Q : \E x \in 1..Len(t) : q[x] = z
    /\ \A x \in 1..Len(t) : t[x] = arr[q[x]]
    /\ \A x, y \in 1..Len(t) : x < y => Earlier(arr, q[x], q[y])
Lists(arr, t, Q) == \E q : ListsBy(q, arr, t, Q)

(* The order goes on from step to step, and never comes back.              *)
LEMMA EarlierOn ==
    ASSUME NEW arr \in Seq(Rec), NEW x \in 1..Len(arr), NEW y \in 1..Len(arr)
    PROVE  /\ ~(Earlier(arr, x, y) /\ Earlier(arr, y, x)) /\ ~Earlier(arr, x, x)
           /\ \A z \in 1..Len(arr) : Earlier(arr, x, y) /\ Earlier(arr, y, z) => Earlier(arr, x, z)
<1>1. \A z \in 1..Len(arr) : arr[z].annual \in Nat /\ z \in Nat
  BY SeqTypes, RecTypes
<1> QED  BY <1>1 DEF Earlier

(* One element put before a sequence.                                      *)
LEMMA OneBefore ==
    ASSUME NEW R, NEW u \in R, NEW ts \in Seq(R), NEW us, us = <<u>> \o ts
    PROVE  /\ us \in Seq(R) /\ Len(us) = Len(ts) + 1 /\ us[1] = u
           /\ \A k \in 1..Len(ts) : us[k + 1] = ts[k]
<1> DEFINE s == <<u>>
<1>1. s \in Seq(R) /\ Len(s) = 1 /\ s[1] = u
  OBVIOUS
<1> HIDE DEF s
<1>2. s \in Seq(R) /\ Len(s) = 1 /\ s[1] = u /\ us = s \o ts
  BY <1>1 DEF s
<1>3. /\ us \in Seq(R) /\ Len(us) = 1 + Len(ts)
      /\ \A k \in 1..1 : us[k] = s[k]
      /\ \A k \in 1..Len(ts) : us[k + 1] = ts[k]
  BY <1>2, Chained
<1>4. Len(us) = Len(ts) + 1 /\ 1 \in 1..1
  BY <1>3
<1> QED  BY <1>2, <1>3, <1>4

(* An element before all the others of a list.                             *)
LEMMA ListsMore ==
    ASSUME NEW arr \in Seq(Rec), NEW t \in Seq(Rec), NEW Q \in SUBSET (1..Len(arr)), NEW p, ListsBy(p, arr, t, Q),
           NEW z \in 1..Len(arr), \A y \in Q : Earlier(arr, z, y), NEW e, e = arr[z]
    PROVE  Lists(arr, <<e>> \o t, {z} \cup Q) /\ <<e>> \o t \in Seq(Rec)
<1> DEFINE s == <<e>> \o t
           n == Len(t)
           q == [x \in 1..(n + 1) |-> IF x = 1 THEN z ELSE p[x - 1]]
<1>1. e \in Rec /\ n \in Nat
  BY SeqTypes
<1>2. s \in Seq(Rec) /\ Len(s) = n + 1 /\ s[1] = e /\ \A x \in 1..n : s[x + 1] = t[x]
  <2> HIDE DEF q
  <2> QED  BY <1>1, OneBefore
<1>3. /\ p \in [1..n -> Q] /\ \A y \in Q : \E x \in 1..n : p[x] = y
      /\ \A x \in 1..n : t[x] = arr[p[x]]
      /\ \A x, y \in 1..n : x < y => Earlier(arr, p[x], p[y])
  BY DEF ListsBy
<1> HIDE DEF s, n
<1>4. \A x \in 2..(n + 1) : x - 1 \in 1..n /\ (x - 1) + 1 = x /\ x # 1 /\ x \in 1..(n + 1)
  BY <1>1
<1>5. 1 \in 1..(n + 1) /\ \A x \in 1..(n + 1) : x = 1 \/ x \in 2..(n + 1)
  BY <1>1
<1>6. q[1] = z /\ \A x \in 2..(n + 1) : q[x] = p[x - 1] /\ q[x] \in Q
  BY <1>3, <1>4, <1>5
<1>7. q \in [1..(n + 1) -> {z} \cup Q]
  BY <1>3, <1>4, <1>5
<1> HIDE DEF q
<1>8. ASSUME NEW y \in {z} \cup Q PROVE \E x \in 1..(n + 1) : q[x] = y
  <2>1. CASE y = z
    BY <1>5, <1>6, <2>1
  <2>2. CASE y \in Q
    <3>1. PICK x \in 1..n : p[x] = y
      BY <1>3, <2>2
    <3>2. x + 1 \in 2..(n + 1) /\ (x + 1) - 1 = x
      BY <1>1
    <3>3. q[x + 1] = y /\ x + 1 \in 1..(n + 1)
      BY <1>4, <1>6, <3>1, <3>2
    <3> QED  BY <3>3
  <2> QED  BY <2>1, <2>2
<1>9. ASSUME NEW x \in 1..(n + 1) PROVE s[x] = arr[q[x]]
  <2>1. CASE x = 1
    BY <1>2, <1>6, <2>1
  <2>2. CASE x \in 2..(n + 1)
    <3>1. s[x] = t[x - 1]
      BY <1>2, <1>4, <2>2
    <3> QED  BY <1>3, <1>4, <1>6, <2>2, <3>1
  <2> QED  BY <1>5, <2>1, <2>2
<1>10. ASSUME NEW x \in 1..(n + 1), NEW y \in 1..(n + 1), x < y PROVE Earlier(arr, q[x], q[y])
  <2>1. y \in 2..(n + 1)
    BY <1>1, <1>10
  <2>2. CASE x = 1
    BY <1>6, <2>1, <2>2
  <2>3. CASE x \in 2..(n + 1)
    <3>1. x - 1 \in 1..n /\ y - 1 \in 1..n /\ x - 1 < y - 1
      BY <1>4, <1>10, <2>1, <2>3
    <3> QED  BY <1>3, <1>6, <2>1, <2>3, <3>1
  <2> QED  BY <1>5, <2>2, <2>3
<1>11. ListsBy(q, arr, s, {z} \cup Q)
  BY <1>2, <1>7, <1>8, <1>9, <1>10 DEF ListsBy
<1> QED  BY <1>2, <1>11 DEF Lists, s

(* What is left of a list from its place j on.                             *)
LEMMA ListsRest ==
    ASSUME NEW arr \in Seq(Rec), NEW b \in Seq(Rec), NEW Q, NEW q, ListsBy(q, arr, b, Q),
           NEW j \in 1..(Len(b) + 1)
    PROVE  Lists(arr, SubSeq(b, j, Len(b)), {q[y] : y \in j..Len(b)}) /\ SubSeq(b, j, Len(b)) \in Seq(Rec)
<1> DEFINE n == Len(b)
           s == SubSeq(b, j, n)
           m == n + 1 - j
           T == {q[y] : y \in j..n}
           p == [x \in 1..m |-> q[x + j - 1]]
<1>1. n \in Nat /\ m \in Nat /\ j \in Nat
  OBVIOUS
<1>2. s \in Seq(Rec) /\ Len(s) = m /\ \A x \in 1..m : s[x] = b[x + j - 1]
  <2>1. \A x \in j..n : b[x] \in Rec
    OBVIOUS
  <2> HIDE DEF n
  <2>2. s = [x \in 1..m |-> b[j + x - 1]]
    BY <1>1
  <2>3. \A x \in 1..m : j + x - 1 \in j..n /\ j + x - 1 = x + j - 1
    BY <1>1
  <2> HIDE DEF s, m
  <2>4. s \in [1..m -> Rec]
    BY <2>1, <2>2, <2>3
  <2>5. s \in Seq(Rec) /\ Len(s) = m
    BY <1>1, <2>4
  <2> QED  BY <2>2, <2>3, <2>5
<1>3. /\ \A x \in 1..n : b[x] = arr[q[x]]
      /\ \A x, y \in 1..n : x < y => Earlier(arr, q[x], q[y])
  BY DEF ListsBy
<1>4. \A x \in 1..m : x + j - 1 \in j..n /\ x + j - 1 \in 1..n
  BY <1>1
<1>5. \A y \in j..n : y + 1 - j \in 1..m /\ (y + 1 - j) + j - 1 = y
  BY <1>1
<1>6. \A x, y \in 1..m : x < y => x + j - 1 < y + j - 1
  BY <1>1
<1> HIDE DEF s, n, m
<1>7. p \in [1..m -> T] /\ \A x \in 1..m : p[x] = q[x + j - 1]
  BY <1>4
<1> HIDE DEF p
<1>8. ASSUME NEW z \in T PROVE \E x \in 1..m : p[x] = z
  <2>1. PICK y \in j..n : z = q[y]
    OBVIOUS
  <2>2. y + 1 - j \in 1..m /\ (y + 1 - j) + j - 1 = y
    BY <1>5
  <2>3. p[y + 1 - j] = z
    BY <1>7, <2>1, <2>2
  <2> QED  BY <2>2, <2>3
<1>9. ASSUME NEW x \in 1..m PROVE s[x] = arr[p[x]]
  BY <1>2, <1>3, <1>4, <1>7
<1>10. ASSUME NEW x \in 1..m, NEW y \in 1..m, x < y PROVE Earlier(arr, p[x], p[y])
  BY <1>3, <1>4, <1>6, <1>7, <1>10
<1> HIDE DEF T
<1>11. ListsBy(p, arr, s, T)
  BY <1>2, <1>7, <1>8, <1>9, <1>10 DEF ListsBy
<1> QED  BY <1>2, <1>11 DEF Lists, s, T, n

(* How the rest of a merge is made of a smaller one.                       *)
Merging(a, b, from, p) ==
    IF p[1] > Len(a) THEN SubSeq(b, p[2], Len(b))
    ELSE IF p[2] > Len(b) THEN SubSeq(a, p[1], Len(a))
    ELSE IF a[p[1]].annual <= b[p[2]].annual THEN <<a[p[1]]>> \o from[<<p[1] + 1, p[2]>>]
    ELSE <<b[p[2]]>> \o from[<<p[1], p[2] + 1>>]

(* The places in the two runs, and how much a pair of them leaves to merge.*)
MergePlaces(a, b) == (1..(Len(a) + 1)) \X (1..(Len(b) + 1))
MergeLeft(a, b) == [p \in MergePlaces(a, b) |-> (Len(a) + 1 - p[1]) + (Len(b) + 1 - p[2])]

(* Pairs of places and what is left at them.                               *)
LEMMA MergePairs ==
    ASSUME NEW a \in Seq(Rec), NEW b \in Seq(Rec)
    PROVE  /\ MergeLeft(a, b) \in [MergePlaces(a, b) -> Nat] /\ <<1, 1>> \in MergePlaces(a, b)
           /\ \A p \in MergePlaces(a, b) :
               /\ p[1] \in 1..(Len(a) + 1) /\ p[2] \in 1..(Len(b) + 1)
               /\ (p[1] <= Len(a) => /\ <<p[1] + 1, p[2]>> \in MergePlaces(a, b)
                                     /\ MergeLeft(a, b)[<<p[1] + 1, p[2]>>] < MergeLeft(a, b)[p])
               /\ (p[2] <= Len(b) => /\ <<p[1], p[2] + 1>> \in MergePlaces(a, b)
                                     /\ MergeLeft(a, b)[<<p[1], p[2] + 1>>] < MergeLeft(a, b)[p])
<1> DEFINE D == MergePlaces(a, b)
           m == MergeLeft(a, b)
<1>1. Len(a) \in Nat /\ Len(b) \in Nat
  OBVIOUS
<1>2. \A p \in D : p[1] \in 1..(Len(a) + 1) /\ p[2] \in 1..(Len(b) + 1)
  BY DEF MergePlaces
<1>3. <<1, 1>> \in D
  BY <1>1 DEF MergePlaces
<1>4. ASSUME NEW p \in D PROVE m[p] = (Len(a) + 1 - p[1]) + (Len(b) + 1 - p[2])
  BY DEF MergeLeft
<1>5. ASSUME NEW p \in D, p[1] <= Len(a)
      PROVE  <<p[1] + 1, p[2]>> \in D /\ m[<<p[1] + 1, p[2]>>] < m[p]
  <2> DEFINE r == <<p[1] + 1, p[2]>>
  <2>1. p[1] + 1 \in 1..(Len(a) + 1) /\ p[2] \in 1..(Len(b) + 1)
    BY <1>1, <1>2, <1>5
  <2>2. r \in D
    BY <2>1 DEF MergePlaces
  <2>3. r[1] = p[1] + 1 /\ r[2] = p[2]
    OBVIOUS
  <2> HIDE DEF r, D, m
  <2>4. m[r] = (Len(a) + 1 - r[1]) + (Len(b) + 1 - r[2]) /\ m[p] = (Len(a) + 1 - p[1]) + (Len(b) + 1 - p[2])
    BY <1>4, <2>2
  <2>5. m[r] < m[p]
    BY <1>1, <1>2, <2>3, <2>4
  <2> QED  BY <2>2, <2>5 DEF r
<1>6. ASSUME NEW p \in D, p[2] <= Len(b)
      PROVE  <<p[1], p[2] + 1>> \in D /\ m[<<p[1], p[2] + 1>>] < m[p]
  <2> DEFINE r == <<p[1], p[2] + 1>>
  <2>1. p[1] \in 1..(Len(a) + 1) /\ p[2] + 1 \in 1..(Len(b) + 1)
    BY <1>1, <1>2, <1>6
  <2>2. r \in D
    BY <2>1 DEF MergePlaces
  <2>3. r[1] = p[1] /\ r[2] = p[2] + 1
    OBVIOUS
  <2> HIDE DEF r, D, m
  <2>4. m[r] = (Len(a) + 1 - r[1]) + (Len(b) + 1 - r[2]) /\ m[p] = (Len(a) + 1 - p[1]) + (Len(b) + 1 - p[2])
    BY <1>4, <2>2
  <2>5. m[r] < m[p]
    BY <1>1, <1>2, <2>3, <2>4
  <2> QED  BY <2>2, <2>5 DEF r
<1>7. m \in [D -> Nat]
  <2>1. \A p \in D : (Len(a) + 1 - p[1]) + (Len(b) + 1 - p[2]) \in Nat
    BY <1>1, <1>2
  <2> QED  BY <2>1 DEF MergeLeft
<1> QED  BY <1>2, <1>3, <1>5, <1>6, <1>7

(* What merge computes.                                                    *)
LEMMA MergeIs ==
    ASSUME NEW a \in Seq(Rec), NEW b \in Seq(Rec)
    PROVE  \E from \in [MergePlaces(a, b) -> Seq(Rec)] :
              /\ merge(a, b) = from[<<1, 1>>]
              /\ \A p \in MergePlaces(a, b) : from[p] = Merging(a, b, from, p)
<1> DEFINE D == MergePlaces(a, b)
           m == MergeLeft(a, b)
           V == Seq(Rec)
           step == [x \in D \X [D -> V] |-> Merging(a, b, x[2], x[1])]
           Eq(from) == from = [p \in D |-> Merging(a, b, from, p)]
<1>1. /\ m \in [D -> Nat] /\ <<1, 1>> \in D
      /\ \A p \in D :
          /\ p[1] \in 1..(Len(a) + 1) /\ p[2] \in 1..(Len(b) + 1)
          /\ (p[1] <= Len(a) => <<p[1] + 1, p[2]>> \in D /\ m[<<p[1] + 1, p[2]>>] < m[p])
          /\ (p[2] <= Len(b) => <<p[1], p[2] + 1>> \in D /\ m[<<p[1], p[2] + 1>>] < m[p])
  BY MergePairs
<1>2. merge(a, b) = (CHOOSE from : Eq(from))[<<1, 1>>]
  BY DEF merge, Merging, MergePlaces
<1>3. Len(a) \in Nat /\ Len(b) \in Nat
  OBVIOUS
<1> HIDE DEF D, m
<1>4. \A p \in D : p[1] \in Int /\ p[2] \in Int
  <2> HIDE DEF V, step, Eq
  <2>1. ASSUME NEW p \in D PROVE p[1] \in 1..(Len(a) + 1) /\ p[2] \in 1..(Len(b) + 1)
    BY <1>1
  <2>2. \A i \in 1..(Len(a) + 1) : i \in Int
    BY <1>3
  <2>3. \A i \in 1..(Len(b) + 1) : i \in Int
    BY <1>3
  <2> QED  BY <2>1, <2>2, <2>3
<1>5. ASSUME NEW p \in D, NEW g \in [D -> V]
      PROVE  Merging(a, b, g, p) \in V /\ step[<<p, g>>] = Merging(a, b, g, p)
  <2> DEFINE i == p[1]
             j == p[2]
  <2>1. i \in 1..(Len(a) + 1) /\ j \in 1..(Len(b) + 1)
    BY <1>1
  <2>2. SubSeq(b, j, Len(b)) \in V /\ SubSeq(a, i, Len(a)) \in V
    <3> HIDE DEF i, j
    <3> QED  BY <1>3, <2>1
  <2>3. ASSUME i <= Len(a) PROVE <<a[i]>> \o g[<<i + 1, j>>] \in V
    <3>1. a[i] \in Rec
      BY <1>3, <2>1, <2>3
    <3>2. g[<<i + 1, j>>] \in V
      BY <1>1, <2>3
    <3> HIDE DEF i, j
    <3> QED  BY <3>1, <3>2, OneBefore
  <2>4. ASSUME j <= Len(b) PROVE <<b[j]>> \o g[<<i, j + 1>>] \in V
    <3>1. b[j] \in Rec
      BY <1>3, <2>1, <2>4
    <3>2. g[<<i, j + 1>>] \in V
      BY <1>1, <2>4
    <3> HIDE DEF i, j
    <3> QED  BY <3>1, <3>2, OneBefore
  <2>5. /\ i \in Int /\ j \in Int
        /\ Merging(a, b, g, p) = IF i > Len(a) THEN SubSeq(b, j, Len(b))
                                 ELSE IF j > Len(b) THEN SubSeq(a, i, Len(a))
                                 ELSE IF a[i].annual <= b[j].annual THEN <<a[i]>> \o g[<<i + 1, j>>]
                                 ELSE <<b[j]>> \o g[<<i, j + 1>>]
    BY <2>1 DEF Merging
  <2> HIDE DEF i, j, V
  <2>6. Merging(a, b, g, p) \in V
    BY <1>3, <2>2, <2>3, <2>4, <2>5
  <2>7. <<p, g>> \in D \X [D -> V]
    OBVIOUS
  <2> QED  BY <2>6, <2>7
<1>6. step \in [D \X [D -> V] -> V]
  <2>1. \A x \in D \X [D -> V] : Merging(a, b, x[2], x[1]) \in V
    BY <1>5
  <2> HIDE DEF V
  <2> QED  BY <2>1
<1>7. IsRecursion(D, m, V, step)
  <2>1. ASSUME NEW p \in D, NEW g \in [D -> V], NEW h \in [D -> V],
               \A y \in D : m[y] < m[p] => g[y] = h[y]
        PROVE  step[<<p, g>>] = step[<<p, h>>]
    <3>1. p[1] <= Len(a) => g[<<p[1] + 1, p[2]>>] = h[<<p[1] + 1, p[2]>>]
      BY <1>1, <2>1
    <3>2. p[2] <= Len(b) => g[<<p[1], p[2] + 1>>] = h[<<p[1], p[2] + 1>>]
      BY <1>1, <2>1
    <3>3. p[1] \in Int /\ p[2] \in Int
      BY <1>4
    <3> HIDE DEF V, step
    <3>4. Merging(a, b, g, p) = Merging(a, b, h, p)
      BY <1>3, <3>1, <3>2, <3>3 DEF Merging
    <3> QED  BY <1>5, <3>4
  <2>2. V # {}
    <3>1. a \in V
      OBVIOUS
    <3> QED  BY <3>1
  <2> HIDE DEF V, step
  <2> QED  BY <1>1, <1>6, <2>1, <2>2 DEF IsRecursion
<1>8. \E from : Eq(from)
  <2>1. PICK from : Solves(from, D, V, step)
    <3> HIDE DEF V, step
    <3> QED  BY <1>7, Recursion
  <2>2. from \in [D -> V] /\ \A p \in D : from[p] = Merging(a, b, from, p)
    <3> HIDE DEF V, step
    <3> QED  BY <1>5, <2>1 DEF Solves
  <2>3. from = [p \in D |-> Merging(a, b, from, p)]
    <3> HIDE DEF V
    <3> QED  BY <2>2
  <2> QED  BY <2>3
<1> DEFINE from == CHOOSE from : Eq(from)
<1>9. Eq(from)
  <2> HIDE DEF Eq
  <2> QED  BY <1>8
<1>10. merge(a, b) = from[<<1, 1>>]
  BY <1>2
<1>11. \A p \in D : from[p] = Merging(a, b, from, p)
  <2> HIDE DEF from
  <2> QED  BY <1>9
<1>12. from = [p \in D |-> from[p]]
  <2> HIDE DEF from
  <2>1. from = [p \in D |-> Merging(a, b, from, p)]
    BY <1>9
  <2> QED  BY <1>11, <2>1
<1> HIDE DEF from, Eq
<1>13. ASSUME NEW p \in D, NEW g \in [D -> V], \A y \in D : m[y] < m[p] => g[y] = from[y]
       PROVE  from[p] = step[<<p, g>>]
  <2>1. p[1] <= Len(a) => g[<<p[1] + 1, p[2]>>] = from[<<p[1] + 1, p[2]>>]
    BY <1>1, <1>13
  <2>2. p[2] <= Len(b) => g[<<p[1], p[2] + 1>>] = from[<<p[1], p[2] + 1>>]
    BY <1>1, <1>13
  <2>3. p[1] \in Int /\ p[2] \in Int
    BY <1>4
  <2> HIDE DEF V, step
  <2>4. Merging(a, b, g, p) = Merging(a, b, from, p)
    BY <1>3, <2>1, <2>2, <2>3 DEF Merging
  <2> QED  BY <1>5, <1>11, <2>4
<1>14. from \in [D -> V]
  <2> HIDE DEF V, step
  <2> QED  BY <1>7, <1>12, <1>13, RecursionTypes
<1> QED  BY <1>10, <1>11, <1>14 DEF D, V

(* Two runs, one of the places before those of the other, are merged into  *)
(* a sorted list of both.                                                  *)
LEMMA MergeLists ==
    ASSUME NEW arr \in Seq(Rec), NEW lo \in 1..Len(arr), NEW hi \in 1..Len(arr), NEW mid \in lo..(hi - 1),
           NEW a \in Seq(Rec), Lists(arr, a, lo..mid), NEW b \in Seq(Rec), Lists(arr, b, (mid + 1)..hi)
    PROVE  Lists(arr, merge(a, b), lo..hi)
<1>1. PICK qa : ListsBy(qa, arr, a, lo..mid)
  BY DEF Lists
<1>2. PICK qb : ListsBy(qb, arr, b, (mid + 1)..hi)
  BY DEF Lists
<1> DEFINE n == Len(arr)
           la == Len(a)
           lb == Len(b)
           D == MergePlaces(a, b)
           m == MergeLeft(a, b)
<1>3. n \in Nat /\ la \in Nat /\ lb \in Nat /\ lo \in 1..n /\ hi \in 1..n /\ mid \in lo..(hi - 1) /\ mid \in 1..n
  OBVIOUS
<1>4. /\ qa \in [1..la -> lo..mid] /\ \A z \in lo..mid : \E x \in 1..la : qa[x] = z
      /\ \A x \in 1..la : a[x] = arr[qa[x]]
      /\ \A x, y \in 1..la : x < y => Earlier(arr, qa[x], qa[y])
  BY <1>1 DEF ListsBy
<1>5. /\ qb \in [1..lb -> (mid + 1)..hi] /\ \A z \in (mid + 1)..hi : \E x \in 1..lb : qb[x] = z
      /\ \A x \in 1..lb : b[x] = arr[qb[x]]
      /\ \A x, y \in 1..lb : x < y => Earlier(arr, qb[x], qb[y])
  BY <1>2 DEF ListsBy
<1>6. PICK from \in [D -> Seq(Rec)] :
        merge(a, b) = from[<<1, 1>>] /\ \A p \in D : from[p] = Merging(a, b, from, p)
  BY MergeIs
<1>7. /\ m \in [D -> Nat] /\ <<1, 1>> \in D
      /\ \A p \in D :
          /\ p[1] \in 1..(la + 1) /\ p[2] \in 1..(lb + 1)
          /\ (p[1] <= la => <<p[1] + 1, p[2]>> \in D /\ m[<<p[1] + 1, p[2]>>] < m[p])
          /\ (p[2] <= lb => <<p[1], p[2] + 1>> \in D /\ m[<<p[1], p[2] + 1>>] < m[p])
  BY MergePairs
<1> HIDE DEF n, D, m, la, lb
<1>8. /\ \A x \in 1..la : qa[x] \in 1..n /\ qa[x] \in Nat /\ qa[x] <= mid
      /\ \A x \in 1..lb : qb[x] \in 1..n /\ qb[x] \in Nat /\ qb[x] > mid
  <2>1. ASSUME NEW x \in 1..la PROVE qa[x] \in 1..n /\ qa[x] \in Nat /\ qa[x] <= mid
    <3>1. qa[x] \in lo..mid
      BY <1>4
    <3> QED  BY <1>3, <3>1
  <2>2. ASSUME NEW x \in 1..lb PROVE qb[x] \in 1..n /\ qb[x] \in Nat /\ qb[x] > mid
    <3>1. qb[x] \in (mid + 1)..hi
      BY <1>5
    <3> QED  BY <1>3, <3>1
  <2> QED  BY <2>1, <2>2
<1>9. \A x \in 1..n : arr[x].annual \in Nat
  BY SeqTypes, RecTypes DEF n
<1> DEFINE A(i) == {qa[x] : x \in i..la}
           B(j) == {qb[x] : x \in j..lb}
           S == {p \in D : Lists(arr, from[p], A(p[1]) \cup B(p[2]))}
<1>10. ASSUME NEW i \in 1..(la + 1), NEW j \in 1..(lb + 1)
       PROVE  /\ A(i) \in SUBSET (1..n) /\ B(j) \in SUBSET (1..n)
              /\ i \in Nat /\ j \in Nat
              /\ (i > la => A(i) = {}) /\ (j > lb => B(j) = {})
              /\ (i <= la => i \in 1..la /\ A(i) = {qa[i]} \cup A(i + 1) /\ \A y \in A(i + 1) : Earlier(arr, qa[i], y))
              /\ (j <= lb => j \in 1..lb /\ B(j) = {qb[j]} \cup B(j + 1) /\ \A y \in B(j + 1) : Earlier(arr, qb[j], y))
  <2>1. A(i) \in SUBSET (1..n) /\ B(j) \in SUBSET (1..n)
    <3>1. \A x \in i..la : x \in 1..la
      BY <1>3
    <3>2. \A x \in j..lb : x \in 1..lb
      BY <1>3
    <3> QED  BY <1>8, <3>1, <3>2
  <2>2. (i > la => i..la = {}) /\ (j > lb => j..lb = {}) /\ i \in Nat /\ j \in Nat
    BY <1>3
  <2>3. ASSUME i <= la
        PROVE  i \in 1..la /\ A(i) = {qa[i]} \cup A(i + 1) /\ \A y \in A(i + 1) : Earlier(arr, qa[i], y)
    <3>1. i..la = {i} \cup ((i + 1)..la) /\ i \in 1..la /\ \A x \in (i + 1)..la : x \in 1..la /\ i < x
      BY <1>3, <2>3
    <3> QED  BY <1>4, <3>1
  <2>4. ASSUME j <= lb
        PROVE  j \in 1..lb /\ B(j) = {qb[j]} \cup B(j + 1) /\ \A y \in B(j + 1) : Earlier(arr, qb[j], y)
    <3>1. j..lb = {j} \cup ((j + 1)..lb) /\ j \in 1..lb /\ \A x \in (j + 1)..lb : x \in 1..lb /\ j < x
      BY <1>3, <2>4
    <3> QED  BY <1>5, <3>1
  <2> QED  BY <2>1, <2>2, <2>3, <2>4
<1>ra. \A i \in 1..(la + 1) : Lists(arr, SubSeq(a, i, la), A(i))
  <2> SUFFICES ASSUME NEW i \in 1..(Len(a) + 1)
               PROVE  Lists(arr, SubSeq(a, i, Len(a)), {qa[y] : y \in i..Len(a)})
    BY DEF la
  <2> QED  BY <1>1, ListsRest
<1>rb. \A j \in 1..(lb + 1) : Lists(arr, SubSeq(b, j, lb), B(j))
  <2> SUFFICES ASSUME NEW j \in 1..(Len(b) + 1)
               PROVE  Lists(arr, SubSeq(b, j, Len(b)), {qb[y] : y \in j..Len(b)})
    BY DEF lb
  <2> QED  BY <1>2, ListsRest
<1>11. ASSUME NEW x \in 1..la, NEW y \in 1..lb PROVE
         /\ (a[x].annual <= b[y].annual => Earlier(arr, qa[x], qb[y]))
         /\ (~(a[x].annual <= b[y].annual) => Earlier(arr, qb[y], qa[x]))
  <2>1. a[x] = arr[qa[x]] /\ b[y] = arr[qb[y]]
    BY <1>4, <1>5
  <2>2. qa[x] < qb[y]
    BY <1>3, <1>8
  <2> DEFINE u == arr[qa[x]].annual
             v == arr[qb[y]].annual
  <2>3. u \in Nat /\ v \in Nat
    BY <1>8, <1>9
  <2>4. (Earlier(arr, qa[x], qb[y]) <=> u < v \/ (u = v /\ qa[x] < qb[y]))
        /\ (v < u => Earlier(arr, qb[y], qa[x]))
    BY DEF Earlier
  <2>5. a[x].annual = u /\ b[y].annual = v
    BY <2>1
  <2> HIDE DEF u, v
  <2>6. (u <= v => u < v \/ u = v) /\ (~(u <= v) => v < u)
    BY <2>3
  <2> QED  BY <2>2, <2>4, <2>5, <2>6
<1>12. ASSUME NEW p \in D, \A y \in D : m[y] < m[p] => y \in S PROVE p \in S
  <2> DEFINE i == p[1]
             j == p[2]
  <2>1. i \in 1..(la + 1) /\ j \in 1..(lb + 1)
    BY <1>7
  <2>2. /\ A(i) \in SUBSET (1..n) /\ B(j) \in SUBSET (1..n)
        /\ i \in Nat /\ j \in Nat
        /\ (i > la => A(i) = {}) /\ (j > lb => B(j) = {})
        /\ (i <= la => i \in 1..la /\ A(i) = {qa[i]} \cup A(i + 1) /\ \A y \in A(i + 1) : Earlier(arr, qa[i], y))
        /\ (j <= lb => j \in 1..lb /\ B(j) = {qb[j]} \cup B(j + 1) /\ \A y \in B(j + 1) : Earlier(arr, qb[j], y))
    <3> HIDE DEF A, B, i, j
    <3> QED  BY <1>10, <2>1
  <2>3. ASSUME i <= la
        PROVE  /\ <<i + 1, j>> \in D /\ from[<<i + 1, j>>] \in Seq(Rec)
               /\ Lists(arr, from[<<i + 1, j>>], A(i + 1) \cup B(j))
    <3> DEFINE r == <<i + 1, j>>
    <3>1. r \in D /\ m[r] < m[p] /\ r[1] = i + 1 /\ r[2] = j
      BY <1>7, <2>3
    <3> HIDE DEF r, A, B
    <3>2. r \in S
      <4> HIDE DEF S
      <4> QED  BY <1>12, <3>1
    <3> QED  BY <1>6, <3>1, <3>2 DEF r
  <2>4. ASSUME j <= lb
        PROVE  /\ <<i, j + 1>> \in D /\ from[<<i, j + 1>>] \in Seq(Rec)
               /\ Lists(arr, from[<<i, j + 1>>], A(i) \cup B(j + 1))
    <3> DEFINE r == <<i, j + 1>>
    <3>1. r \in D /\ m[r] < m[p] /\ r[1] = i /\ r[2] = j + 1
      BY <1>7, <2>4
    <3> HIDE DEF r, A, B
    <3>2. r \in S
      <4> HIDE DEF S
      <4> QED  BY <1>12, <3>1
    <3> QED  BY <1>6, <3>1, <3>2 DEF r
  <2>5. from[p] = IF i > la THEN SubSeq(b, j, lb)
                  ELSE IF j > lb THEN SubSeq(a, i, la)
                  ELSE IF a[i].annual <= b[j].annual THEN <<a[i]>> \o from[<<i + 1, j>>]
                  ELSE <<b[j]>> \o from[<<i, j + 1>>]
    BY <1>6 DEF Merging, la, lb
  <2> HIDE DEF i, j
  <2>6. Lists(arr, from[p], A(i) \cup B(j))
    <3>1. CASE i > la
      <4>1. Lists(arr, SubSeq(b, j, lb), B(j))
        BY <1>rb, <2>1
      <4>2. A(i) \cup B(j) = B(j)
        <5> HIDE DEF A, B
        <5> QED  BY <2>2, <3>1
      <4> HIDE DEF A, B
      <4> QED  BY <2>5, <3>1, <4>1, <4>2
    <3>2. CASE i <= la /\ j > lb
      <4>1. Lists(arr, SubSeq(a, i, la), A(i))
        BY <1>ra, <2>1
      <4>2. A(i) \cup B(j) = A(i)
        <5> HIDE DEF A, B
        <5> QED  BY <2>2, <3>2
      <4>3. ~(i > la)
        BY <1>3, <2>2, <3>2
      <4> HIDE DEF A, B
      <4> QED  BY <2>5, <3>2, <4>1, <4>2, <4>3
    <3>3. CASE i <= la /\ j <= lb
      <4>1. ~(i > la) /\ ~(j > lb) /\ i \in 1..la /\ j \in 1..lb
        BY <1>3, <2>2, <3>3
      <4>2. CASE a[i].annual <= b[j].annual
        <5> DEFINE t == from[<<i + 1, j>>]
                   Q == A(i + 1) \cup B(j)
        <5>1. from[p] = <<a[i]>> \o t
          BY <2>5, <4>1, <4>2
        <5>2. t \in Seq(Rec) /\ Lists(arr, t, Q)
          BY <2>3, <3>3
        <5>3. A(i) = {qa[i]} \cup A(i + 1) /\ \A y \in A(i + 1) : Earlier(arr, qa[i], y)
          <6> HIDE DEF A, B
          <6> QED  BY <2>2, <3>3
        <5>4. ASSUME NEW y \in B(j) PROVE Earlier(arr, qa[i], y)
          <6>1. Earlier(arr, qa[i], qb[j])
            BY <1>11, <4>1, <4>2
          <6>2. y = qb[j] \/ Earlier(arr, qb[j], y)
            <7> HIDE DEF A, B
            <7> QED  BY <2>2, <3>3, <5>4
          <6>3. qa[i] \in 1..Len(arr) /\ qb[j] \in 1..Len(arr) /\ y \in 1..Len(arr)
            <7> HIDE DEF A, B
            <7> QED  BY <1>8, <2>2, <4>1, <5>4 DEF n
          <6> HIDE DEF A, B
          <6> QED  BY <6>1, <6>2, <6>3, EarlierOn
        <5>5. A(i) \cup B(j) = {qa[i]} \cup Q /\ Q \in SUBSET (1..Len(arr)) /\ \A y \in Q : Earlier(arr, qa[i], y)
          <6> HIDE DEF A, B
          <6> QED  BY <2>2, <5>3, <5>4 DEF n
        <5>6. qa[i] \in 1..Len(arr) /\ a[i] = arr[qa[i]]
          BY <1>4, <1>8, <4>1 DEF n
        <5> HIDE DEF t, Q, A, B
        <5>7. PICK q : ListsBy(q, arr, t, Q)
          BY <5>2 DEF Lists
        <5>8. Lists(arr, <<a[i]>> \o t, {qa[i]} \cup Q)
          BY <5>2, <5>5, <5>6, <5>7, ListsMore
        <5> QED  BY <5>1, <5>5, <5>8
      <4>3. CASE ~(a[i].annual <= b[j].annual)
        <5> DEFINE t == from[<<i, j + 1>>]
                   Q == A(i) \cup B(j + 1)
        <5>1. from[p] = <<b[j]>> \o t
          BY <2>5, <4>1, <4>3
        <5>2. t \in Seq(Rec) /\ Lists(arr, t, Q)
          BY <2>4, <3>3
        <5>3. B(j) = {qb[j]} \cup B(j + 1) /\ \A y \in B(j + 1) : Earlier(arr, qb[j], y)
          <6> HIDE DEF A, B
          <6> QED  BY <2>2, <3>3
        <5>4. ASSUME NEW y \in A(i) PROVE Earlier(arr, qb[j], y)
          <6>1. Earlier(arr, qb[j], qa[i])
            BY <1>11, <4>1, <4>3
          <6>2. y = qa[i] \/ Earlier(arr, qa[i], y)
            <7> HIDE DEF A, B
            <7> QED  BY <2>2, <3>3, <5>4
          <6>3. qa[i] \in 1..Len(arr) /\ qb[j] \in 1..Len(arr) /\ y \in 1..Len(arr)
            <7> HIDE DEF A, B
            <7> QED  BY <1>8, <2>2, <4>1, <5>4 DEF n
          <6> HIDE DEF A, B
          <6> QED  BY <6>1, <6>2, <6>3, EarlierOn
        <5>5. A(i) \cup B(j) = {qb[j]} \cup Q /\ Q \in SUBSET (1..Len(arr)) /\ \A y \in Q : Earlier(arr, qb[j], y)
          <6> HIDE DEF A, B
          <6> QED  BY <2>2, <5>3, <5>4 DEF n
        <5>6. qb[j] \in 1..Len(arr) /\ b[j] = arr[qb[j]]
          BY <1>5, <1>8, <4>1 DEF n
        <5> HIDE DEF t, Q, A, B
        <5>7. PICK q : ListsBy(q, arr, t, Q)
          BY <5>2 DEF Lists
        <5>8. Lists(arr, <<b[j]>> \o t, {qb[j]} \cup Q)
          BY <5>2, <5>5, <5>6, <5>7, ListsMore
        <5> QED  BY <5>1, <5>5, <5>8
      <4> QED  BY <4>2, <4>3
    <3>4. i > la \/ (i <= la /\ j > lb) \/ (i <= la /\ j <= lb)
      BY <1>3, <2>2
    <3> QED  BY <3>1, <3>2, <3>3, <3>4
  <2> HIDE DEF A, B
  <2> QED  BY <2>6 DEF i, j
<1>13. <<1, 1>> \in S
  <2>1. S \in SUBSET D
    OBVIOUS
  <2> HIDE DEF S, A, B
  <2>2. \A p \in D : (\A y \in D : m[y] < m[p] => y \in S) => p \in S
    BY <1>12
  <2>3. m \in [D -> Nat]
    BY <1>7
  <2>4. Inductive(D, m, S)
    BY <2>1, <2>2, <2>3 DEF Inductive
  <2>5. S = D
    BY <2>4, InductiveAll
  <2> QED  BY <1>7, <2>5
<1>14. A(1) \cup B(1) = lo..hi
  <2>1. A(1) = lo..mid
    BY <1>4
  <2>2. B(1) = (mid + 1)..hi
    BY <1>5
  <2> HIDE DEF A, B
  <2> QED  BY <1>3, <2>1, <2>2
<1> DEFINE r == <<1, 1>>
<1>15. r[1] = 1 /\ r[2] = 1 /\ r \in S /\ merge(a, b) = from[r]
  BY <1>6, <1>13
<1> HIDE DEF A, B, r
<1> QED  BY <1>14, <1>15

(* The middle of a range of two or more lies within it, before its end.    *)
LEMMA MiddleWithin ==
    ASSUME NEW n \in Nat, NEW p \in Ranges(n)
    PROVE  /\ p[1] \in 1..n /\ p[2] \in 1..n /\ p[1] <= p[2] /\ p = <<p[1], p[2]>>
           /\ p[1] # p[2] => /\ Middle(p) \in p[1]..(p[2] - 1)
                             /\ <<p[1], Middle(p)>> \in Ranges(n) /\ <<Middle(p) + 1, p[2]>> \in Ranges(n)
<1>1. p[1] \in 1..n /\ p[2] \in 1..n /\ p[1] <= p[2] /\ p = <<p[1], p[2]>>
  BY DEF Ranges
<1>2. ASSUME p[1] # p[2] PROVE Middle(p) \in p[1]..(p[2] - 1)
  <2> DEFINE i == p[1]
             j == p[2]
  <2>1. i \in 1..n /\ j \in 1..n /\ i < j
    BY <1>1, <1>2
  <2>2. Middle(p) = (i + j - 2) \div 2 + 1
    BY DEF Middle
  <2> HIDE DEF i, j
  <2>3. (i + j - 2) \div 2 \in (i - 1)..(j - 2)
    BY <2>1
  <2>4. Middle(p) \in i..(j - 1)
    BY <2>1, <2>2, <2>3
  <2> QED  BY <2>4 DEF i, j
<1>3. ASSUME p[1] # p[2] PROVE <<p[1], Middle(p)>> \in Ranges(n) /\ <<Middle(p) + 1, p[2]>> \in Ranges(n)
  <2>1. p[1] \in 1..n /\ Middle(p) \in 1..n /\ Middle(p) + 1 \in 1..n /\ p[2] \in 1..n
        /\ p[1] <= Middle(p) /\ Middle(p) + 1 <= p[2]
    BY <1>1, <1>2, <1>3
  <2> QED  BY <2>1 DEF Ranges
<1> QED  BY <1>1, <1>2, <1>3

(* The lengths of the ranges, a measure.                                   *)
RangeSizes(n) == [p \in Ranges(n) |-> p[2] - p[1]]

(* The halves of a range are shorter than the range.                       *)
LEMMA HalvesShorter ==
    ASSUME NEW n \in Nat
    PROVE  /\ RangeSizes(n) \in [Ranges(n) -> Nat]
           /\ \A p \in Ranges(n) : p[1] # p[2] =>
                /\ RangeSizes(n)[<<p[1], Middle(p)>>] < RangeSizes(n)[p]
                /\ RangeSizes(n)[<<Middle(p) + 1, p[2]>>] < RangeSizes(n)[p]
<1> DEFINE D == Ranges(n)
           m == RangeSizes(n)
<1>1. \A p \in D : m[p] = p[2] - p[1]
  BY DEF RangeSizes
<1>2. m \in [D -> Nat]
  <2>1. \A p \in D : p[2] - p[1] \in Nat
    <3> SUFFICES ASSUME NEW p \in D PROVE p[2] - p[1] \in Nat
      OBVIOUS
    <3>1. p[1] \in 1..n /\ p[2] \in 1..n /\ p[1] <= p[2]
      BY MiddleWithin
    <3> QED  BY <3>1
  <2> QED  BY <2>1 DEF RangeSizes
<1>3. ASSUME NEW p \in D, p[1] # p[2]
      PROVE  m[<<p[1], Middle(p)>>] < m[p] /\ m[<<Middle(p) + 1, p[2]>>] < m[p]
  <2> DEFINE u == <<p[1], Middle(p)>>
             v == <<Middle(p) + 1, p[2]>>
  <2>1. /\ p[1] \in 1..n /\ p[2] \in 1..n /\ Middle(p) \in p[1]..(p[2] - 1)
        /\ u \in D /\ v \in D
    BY <1>3, MiddleWithin
  <2>2. u[1] = p[1] /\ u[2] = Middle(p) /\ v[1] = Middle(p) + 1 /\ v[2] = p[2]
    OBVIOUS
  <2> HIDE DEF u, v, D, m
  <2>3. m[u] = u[2] - u[1] /\ m[v] = v[2] - v[1] /\ m[p] = p[2] - p[1]
    BY <1>1, <2>1
  <2>4. m[u] < m[p] /\ m[v] < m[p]
    BY <2>1, <2>2, <2>3
  <2> QED  BY <2>4 DEF u, v
<1> QED  BY <1>2, <1>3

(* The value of a range, from its one element or the values of its halves. *)
OfHalves(leaf, join, f, p) ==
    IF p[1] = p[2] THEN leaf[p[1]] ELSE join[<<f[<<p[1], Middle(p)>>], f[<<Middle(p) + 1, p[2]>>]>>]

(* The same as a function, of the range and the values so far.             *)
HalfStep(n, V, leaf, join) ==
    [x \in Ranges(n) \X [Ranges(n) -> V] |-> OfHalves(leaf, join, x[2], x[1])]

(* The parts of such a recursion.                                          *)
Halving(n, V, leaf, join) == n \in Nat /\ V # {} /\ leaf \in [1..n -> V] /\ join \in [V \X V -> V]

(* A recursion over the halves of the ranges.                              *)
LEMMA HalvesRecur ==
    ASSUME NEW n, NEW V, NEW leaf, NEW join, Halving(n, V, leaf, join)
    PROVE  /\ IsRecursion(Ranges(n), RangeSizes(n), V, HalfStep(n, V, leaf, join))
           /\ \A p \in Ranges(n) : \A g \in [Ranges(n) -> V] :
                HalfStep(n, V, leaf, join)[<<p, g>>] = OfHalves(leaf, join, g, p)
<1> DEFINE D == Ranges(n)
           m == RangeSizes(n)
           step == HalfStep(n, V, leaf, join)
<1>0. n \in Nat /\ V # {} /\ leaf \in [1..n -> V] /\ join \in [V \X V -> V]
  BY DEF Halving
<1>1. ASSUME NEW p \in D
      PROVE  /\ p[1] \in 1..n
             /\ p[1] # p[2] => /\ <<p[1], Middle(p)>> \in D /\ <<Middle(p) + 1, p[2]>> \in D
                               /\ m[<<p[1], Middle(p)>>] < m[p] /\ m[<<Middle(p) + 1, p[2]>>] < m[p]
  BY <1>0, MiddleWithin, HalvesShorter
<1>2. m \in [D -> Nat]
  BY <1>0, HalvesShorter
<1>3. step = [x \in D \X [D -> V] |-> OfHalves(leaf, join, x[2], x[1])]
  BY DEF HalfStep
<1> HIDE DEF D, m, step
<1>4. ASSUME NEW p \in D, NEW g \in [D -> V]
      PROVE  step[<<p, g>>] = OfHalves(leaf, join, g, p) /\ OfHalves(leaf, join, g, p) \in V
  <2>1. CASE p[1] = p[2]
    <3>1. OfHalves(leaf, join, g, p) = leaf[p[1]] /\ leaf[p[1]] \in V
      BY <1>0, <1>1, <2>1 DEF OfHalves
    <3> QED  BY <1>3, <3>1
  <2>2. CASE p[1] # p[2]
    <3> DEFINE u == g[<<p[1], Middle(p)>>]
               v == g[<<Middle(p) + 1, p[2]>>]
    <3>1. u \in V /\ v \in V
      BY <1>1, <2>2
    <3>2. OfHalves(leaf, join, g, p) = join[<<u, v>>]
      BY <2>2 DEF OfHalves
    <3> HIDE DEF u, v
    <3>3. OfHalves(leaf, join, g, p) \in V
      BY <1>0, <3>1, <3>2
    <3> QED  BY <1>3, <3>3
  <2> QED  BY <2>1, <2>2
<1>5. step \in [D \X [D -> V] -> V]
  <2>1. \A x \in D \X [D -> V] : OfHalves(leaf, join, x[2], x[1]) \in V
    BY <1>4
  <2> QED  BY <1>3, <2>1
<1>6. ASSUME NEW p \in D, NEW g \in [D -> V], NEW h \in [D -> V], \A y \in D : m[y] < m[p] => g[y] = h[y]
      PROVE  step[<<p, g>>] = step[<<p, h>>]
  <2>1. OfHalves(leaf, join, g, p) = OfHalves(leaf, join, h, p)
    BY <1>1, <1>6 DEF OfHalves
  <2>2. step[<<p, g>>] = OfHalves(leaf, join, g, p) /\ step[<<p, h>>] = OfHalves(leaf, join, h, p)
    BY <1>4
  <2> QED  BY <2>1, <2>2
<1>7. IsRecursion(D, m, V, step)
  BY <1>0, <1>2, <1>5, <1>6 DEF IsRecursion
<1> QED  BY <1>4, <1>7 DEF D, m, step

(* It has a solution.                                                      *)
LEMMA HalvesExist ==
    ASSUME NEW n, NEW V, NEW leaf, NEW join, Halving(n, V, leaf, join)
    PROVE  \E f \in [Ranges(n) -> V] : \A p \in Ranges(n) : f[p] = OfHalves(leaf, join, f, p)
<1> DEFINE D == Ranges(n)
           m == RangeSizes(n)
           step == HalfStep(n, V, leaf, join)
<1>1. /\ IsRecursion(D, m, V, step)
      /\ \A p \in D : \A g \in [D -> V] : step[<<p, g>>] = OfHalves(leaf, join, g, p)
  <2>1. /\ IsRecursion(Ranges(n), RangeSizes(n), V, HalfStep(n, V, leaf, join))
        /\ \A p \in Ranges(n) : \A g \in [Ranges(n) -> V] :
             HalfStep(n, V, leaf, join)[<<p, g>>] = OfHalves(leaf, join, g, p)
    <3> HIDE DEF D, m, step
    <3> QED  BY HalvesRecur
  <2> QED  BY <2>1
<1> HIDE DEF D, m, step
<1>2. PICK f : Solves(f, D, V, step)
  BY <1>1, Recursion
<1>3. f \in [D -> V] /\ \A p \in D : f[p] = OfHalves(leaf, join, f, p)
  BY <1>1, <1>2 DEF Solves
<1> QED  BY <1>3 DEF D

(* ... and whatever satisfies its equation has values in V.                *)
LEMMA HalvesTypes ==
    ASSUME NEW n, NEW V, NEW leaf, NEW join, Halving(n, V, leaf, join),
           NEW f, f = [p \in Ranges(n) |-> f[p]],
           \A p \in Ranges(n) :
               /\ p[1] = p[2] => f[p] = leaf[p[1]]
               /\ p[1] # p[2] /\ f[<<p[1], Middle(p)>>] \in V /\ f[<<Middle(p) + 1, p[2]>>] \in V =>
                    f[p] = join[<<f[<<p[1], Middle(p)>>], f[<<Middle(p) + 1, p[2]>>]>>]
    PROVE  f \in [Ranges(n) -> V]
<1> DEFINE D == Ranges(n)
           m == RangeSizes(n)
           S == {p \in D : f[p] \in V}
<1>0. n \in Nat /\ V # {} /\ leaf \in [1..n -> V] /\ join \in [V \X V -> V]
  BY DEF Halving
<1>1. ASSUME NEW p \in D
      PROVE  /\ p[1] \in 1..n
             /\ p[1] # p[2] => /\ <<p[1], Middle(p)>> \in D /\ <<Middle(p) + 1, p[2]>> \in D
                               /\ m[<<p[1], Middle(p)>>] < m[p] /\ m[<<Middle(p) + 1, p[2]>>] < m[p]
  BY <1>0, MiddleWithin, HalvesShorter
<1>2. m \in [D -> Nat] /\ S \in SUBSET D
  BY <1>0, HalvesShorter
<1>3. /\ f = [p \in D |-> f[p]]
      /\ \A p \in D :
           /\ p[1] = p[2] => f[p] = leaf[p[1]]
           /\ p[1] # p[2] /\ f[<<p[1], Middle(p)>>] \in V /\ f[<<Middle(p) + 1, p[2]>>] \in V =>
                f[p] = join[<<f[<<p[1], Middle(p)>>], f[<<Middle(p) + 1, p[2]>>]>>]
  OBVIOUS
<1> HIDE DEF D, m
<1>4. ASSUME NEW p \in D, \A y \in D : m[y] < m[p] => y \in S PROVE p \in S
  <2>1. CASE p[1] = p[2]
    BY <1>0, <1>1, <1>3, <2>1
  <2>2. CASE p[1] # p[2]
    <3> DEFINE u == f[<<p[1], Middle(p)>>]
               v == f[<<Middle(p) + 1, p[2]>>]
    <3>1. u \in V /\ v \in V
      BY <1>1, <1>4, <2>2
    <3>2. f[p] = join[<<u, v>>]
      BY <1>3, <2>2, <3>1
    <3> HIDE DEF u, v
    <3>3. f[p] \in V
      BY <1>0, <3>1, <3>2
    <3> QED  BY <3>3
  <2> QED  BY <2>1, <2>2
<1>5. S = D
  <2> HIDE DEF S
  <2>1. Inductive(D, m, S)
    BY <1>2, <1>4 DEF Inductive
  <2> QED  BY <2>1, InductiveAll
<1>6. \A p \in D : f[p] \in V
  BY <1>5
<1>7. f \in [D -> V]
  BY <1>3, <1>6
<1> QED  BY <1>7 DEF D

(* A list of one place.                                                    *)
LEMMA ListsOne ==
    ASSUME NEW arr \in Seq(Rec), NEW i \in 1..Len(arr)
    PROVE  Lists(arr, <<arr[i]>>, i..i) /\ <<arr[i]>> \in Seq(Rec)
<1> DEFINE s == <<arr[i]>>
           q == [x \in 1..1 |-> i]
<1>1. arr[i] \in Rec /\ i \in Int
  OBVIOUS
<1>2. s \in Seq(Rec) /\ Len(s) = 1 /\ s[1] = arr[i]
  BY <1>1
<1>3. \A x \in 1..1 : x = 1
  OBVIOUS
<1>4. 1 \in 1..1 /\ i \in i..i /\ \A z \in i..i : z = i
  BY <1>1
<1>5. q \in [1..1 -> i..i] /\ q[1] = i
  BY <1>4
<1> HIDE DEF s, q
<1>6. \A x, y \in 1..1 : ~(x < y)
  BY <1>3
<1>7. ListsBy(q, arr, s, i..i)
  BY <1>2, <1>3, <1>4, <1>5, <1>6 DEF ListsBy
<1> QED  BY <1>2, <1>7 DEF Lists, s

(* What mergeSorted returns.                                               *)
LEMMA MergeSortLists ==
    ASSUME NEW arr \in Seq(Rec)
    PROVE  mergeSorted(arr) \in Seq(Rec) /\ Lists(arr, mergeSorted(arr), 1..Len(arr))
<1> DEFINE n == Len(arr)
           D == Ranges(n)
           V == Seq(Rec)
<1>1. n \in Nat
  OBVIOUS
<1>2. CASE arr = <<>>
  <2>1. mergeSorted(arr) = <<>> /\ n = 0
    BY <1>2 DEF mergeSorted
  <2>2. <<>> \in Seq(Rec) /\ Len(<<>>) = 0 /\ 1..0 = {}
    OBVIOUS
  <2> DEFINE q == [x \in 1..0 |-> x]
  <2>3. q \in [1..0 -> 1..0]
    OBVIOUS
  <2> HIDE DEF q, n
  <2>4. ListsBy(q, arr, <<>>, 1..0)
    BY <2>2, <2>3 DEF ListsBy
  <2>5. Lists(arr, <<>>, 1..0)
    BY <2>4 DEF Lists
  <2> QED  BY <2>1, <2>2, <2>5 DEF n
<1>3. CASE arr # <<>>
  <2> DEFINE leaf == [i \in 1..n |-> <<arr[i]>>]
             join == [x \in V \X V |-> merge(x[1], x[2])]
             val(f, p) == IF p[1] = p[2] THEN <<arr[p[1]]>>
                          ELSE merge(f[<<p[1], Middle(p)>>], f[<<Middle(p) + 1, p[2]>>])
             Eq(f) == f = [p \in D |-> val(f, p)]
  <2>1. mergeSorted(arr) = (CHOOSE f : Eq(f))[<<1, n>>]
    BY <1>3 DEF mergeSorted
  <2>2. \A x, y \in V : merge(x, y) \in V
    <3> SUFFICES ASSUME NEW x \in V, NEW y \in V PROVE merge(x, y) \in V
      OBVIOUS
    <3>1. PICK from \in [MergePlaces(x, y) -> Seq(Rec)] : merge(x, y) = from[<<1, 1>>]
      BY MergeIs
    <3>2. <<1, 1>> \in MergePlaces(x, y)
      BY MergePairs
    <3> QED  BY <3>1, <3>2
  <2>3. \A i \in 1..n : Lists(arr, <<arr[i]>>, i..i) /\ <<arr[i]>> \in V
    BY ListsOne
  <2> HIDE DEF V
  <2>4. Halving(n, V, leaf, join)
    <3>1. leaf \in [1..n -> V]
      <4> HIDE DEF n
      <4> QED  BY <2>3
    <3>2. join \in [V \X V -> V]
      BY <2>2
    <3>3. V # {}
      BY DEF V
    <3> HIDE DEF n, leaf, join
    <3> QED  BY <1>1, <3>1, <3>2, <3>3 DEF Halving
  <2>5. \A x, y \in V : join[<<x, y>>] = merge(x, y)
    OBVIOUS
  <2> HIDE DEF n, D
  <2>6. \A p \in D : /\ p[1] \in 1..n /\ p[2] \in 1..n /\ p[1] <= p[2]
                     /\ leaf[p[1]] = <<arr[p[1]]>>
                     /\ p[1] # p[2] => /\ Middle(p) \in p[1]..(p[2] - 1)
                                       /\ <<p[1], Middle(p)>> \in D /\ <<Middle(p) + 1, p[2]>> \in D
    <3> SUFFICES ASSUME NEW p \in D
                 PROVE  /\ p[1] \in 1..n /\ p[2] \in 1..n /\ p[1] <= p[2]
                        /\ leaf[p[1]] = <<arr[p[1]]>>
                        /\ p[1] # p[2] => /\ Middle(p) \in p[1]..(p[2] - 1)
                                          /\ <<p[1], Middle(p)>> \in D /\ <<Middle(p) + 1, p[2]>> \in D
      OBVIOUS
    <3>1. /\ p[1] \in 1..n /\ p[2] \in 1..n /\ p[1] <= p[2]
          /\ p[1] # p[2] => /\ Middle(p) \in p[1]..(p[2] - 1)
                            /\ <<p[1], Middle(p)>> \in D /\ <<Middle(p) + 1, p[2]>> \in D
      BY <1>1, MiddleWithin DEF D
    <3> QED  BY <3>1
  <2> HIDE DEF leaf, join
  <2>7. \E f : Eq(f)
    <3>1. PICK f \in [D -> V] : \A p \in D : f[p] = OfHalves(leaf, join, f, p)
      BY <2>4, HalvesExist DEF D
    <3>2. ASSUME NEW p \in D PROVE f[p] = val(f, p)
      <4>1. CASE p[1] = p[2]
        BY <2>6, <3>1, <4>1 DEF OfHalves
      <4>2. CASE p[1] # p[2]
        <5> DEFINE u == f[<<p[1], Middle(p)>>]
                   v == f[<<Middle(p) + 1, p[2]>>]
        <5>1. u \in V /\ v \in V
          BY <2>6, <4>2
        <5>2. f[p] = join[<<u, v>>]
          BY <3>1, <4>2 DEF OfHalves
        <5>3. val(f, p) = merge(u, v)
          BY <4>2
        <5> HIDE DEF u, v, val
        <5> QED  BY <2>5, <5>1, <5>2, <5>3
      <4> QED  BY <4>1, <4>2
    <3> HIDE DEF val
    <3>3. f = [p \in D |-> val(f, p)]
      BY <3>1, <3>2
    <3> QED  BY <3>3
  <2> DEFINE f == CHOOSE f : Eq(f)
  <2>8. Eq(f)
    <3> HIDE DEF Eq
    <3> QED  BY <2>7
  <2>9. mergeSorted(arr) = f[<<1, n>>]
    BY <2>1
  <2> HIDE DEF f
  <2>10. /\ f = [p \in D |-> f[p]]
         /\ \A p \in D : f[p] = val(f, p)
    <3>1. f = [p \in D |-> val(f, p)]
      BY <2>8
    <3> HIDE DEF val
    <3>2. \A p \in D : f[p] = val(f, p)
      BY <3>1
    <3>3. f = [p \in D |-> f[p]]
      BY <3>1, <3>2
    <3> QED  BY <3>2, <3>3
  <2> HIDE DEF Eq
  <2>11. f \in [D -> V]
    <3>1. ASSUME NEW p \in D, p[1] = p[2] PROVE f[p] = leaf[p[1]]
      BY <2>6, <2>10, <3>1
    <3>2. ASSUME NEW p \in D, p[1] # p[2], f[<<p[1], Middle(p)>>] \in V, f[<<Middle(p) + 1, p[2]>>] \in V
          PROVE  f[p] = join[<<f[<<p[1], Middle(p)>>], f[<<Middle(p) + 1, p[2]>>]>>]
      BY <2>5, <2>10, <3>2
    <3> HIDE DEF val
    <3> QED  BY <2>4, <2>10, <3>1, <3>2, HalvesTypes DEF D
  <2> DEFINE m == RangeSizes(n)
             S == {p \in D : Lists(arr, f[p], p[1]..p[2])}
  <2>12. /\ m \in [D -> Nat]
         /\ \A p \in D : p[1] # p[2] => m[<<p[1], Middle(p)>>] < m[p] /\ m[<<Middle(p) + 1, p[2]>>] < m[p]
    BY <1>1, HalvesShorter DEF D
  <2> HIDE DEF m
  <2>13. ASSUME NEW p \in D, \A y \in D : m[y] < m[p] => y \in S PROVE p \in S
    <3>1. CASE p[1] = p[2]
      <4>1. f[p] = <<arr[p[1]]>>
        BY <2>10, <3>1
      <4>2. Lists(arr, <<arr[p[1]]>>, p[1]..p[1])
        BY <2>3, <2>6 DEF n
      <4> QED  BY <3>1, <4>1, <4>2
    <3>2. CASE p[1] # p[2]
      <4> DEFINE r == <<p[1], Middle(p)>>
                 s == <<Middle(p) + 1, p[2]>>
                 mid == Middle(p)
      <4>1. r[1] = p[1] /\ r[2] = mid /\ s[1] = mid + 1 /\ s[2] = p[2]
        OBVIOUS
      <4>2. f[p] = merge(f[r], f[s])
        BY <2>10, <3>2
      <4>3. r \in D /\ s \in D /\ m[r] < m[p] /\ m[s] < m[p] /\ mid \in p[1]..(p[2] - 1)
        BY <2>6, <2>12, <3>2
      <4> HIDE DEF r, s, mid, val
      <4>4. r \in S /\ s \in S
        <5> HIDE DEF S
        <5> QED  BY <2>13, <4>3
      <4>5. Lists(arr, f[r], p[1]..mid) /\ Lists(arr, f[s], (mid + 1)..p[2])
        BY <4>1, <4>4
      <4>6. p[1] \in 1..Len(arr) /\ p[2] \in 1..Len(arr)
        BY <2>6 DEF n
      <4>7. f[r] \in Seq(Rec) /\ f[s] \in Seq(Rec)
        BY <2>11, <4>3 DEF V
      <4>8. Lists(arr, merge(f[r], f[s]), p[1]..p[2])
        BY <4>3, <4>5, <4>6, <4>7, MergeLists
      <4> QED  BY <4>2, <4>8
    <3> QED  BY <3>1, <3>2
  <2>14. S = D
    <3>1. S \in SUBSET D
      OBVIOUS
    <3> HIDE DEF S
    <3>2. Inductive(D, m, S)
      BY <2>12, <2>13, <3>1 DEF Inductive
    <3> QED  BY <3>2, InductiveAll
  <2> DEFINE r == <<1, n>>
  <2>15. r \in D /\ r[1] = 1 /\ r[2] = n
    <3>1. n \in 1..n /\ 1 \in 1..n /\ 1 <= n
      BY <1>3 DEF n
    <3>2. r \in D
      BY <3>1 DEF D, Ranges
    <3> QED  BY <3>2
  <2> HIDE DEF r
  <2>16. Lists(arr, f[r], 1..n) /\ f[r] \in V
    BY <2>11, <2>14, <2>15
  <2>17. mergeSorted(arr) = f[r]
    BY <2>9 DEF r
  <2> QED  BY <2>16, <2>17 DEF V, n
<1> QED  BY <1>2, <1>3

(* A sorted list of the whole array is what the sort promises.             *)
LEMMA ListsSorted ==
    ASSUME NEW arr \in Seq(Rec), NEW t \in Seq(Rec), Lists(arr, t, 1..Len(arr))
    PROVE  /\ SameRecords(t, arr) /\ InOrder(t)
           /\ \A i, j \in DOMAIN t : i < j /\ t[i].annual = t[j].annual =>
                \E p, q \in DOMAIN arr : p < q /\ t[i] = arr[p] /\ t[j] = arr[q]
<1>1. PICK q : ListsBy(q, arr, t, 1..Len(arr))
  BY DEF Lists
<1>2. /\ q \in [1..Len(t) -> 1..Len(arr)] /\ \A z \in 1..Len(arr) : \E x \in 1..Len(t) : q[x] = z
      /\ \A x \in 1..Len(t) : t[x] = arr[q[x]]
      /\ \A x, y \in 1..Len(t) : x < y => Earlier(arr, q[x], q[y])
  BY <1>1 DEF ListsBy
<1>3. DOMAIN t = 1..Len(t) /\ DOMAIN arr = 1..Len(arr)
  OBVIOUS
<1>4. \A x \in 1..Len(t) : q[x] \in 1..Len(arr) /\ x \in Int
  BY <1>2
<1>5. \A x \in 1..Len(arr) : arr[x].annual \in Nat /\ x \in Int
  BY SeqTypes, RecTypes
<1>6. ASSUME NEW x \in 1..Len(t), NEW y \in 1..Len(t), q[x] = q[y] PROVE x = y
  <2>1. ~Earlier(arr, q[x], q[y]) /\ ~Earlier(arr, q[y], q[x])
    BY <1>4, <1>6, EarlierOn
  <2> QED  BY <1>2, <1>4, <2>1
<1>7. SameRecords(t, arr)
  BY <1>2, <1>6, SameByPlaces
<1>8. ASSUME NEW x \in 1..Len(t), NEW y \in 1..Len(t), x <= y PROVE t[x].annual <= t[y].annual
  <2>1. t[x] = arr[q[x]] /\ t[y] = arr[q[y]] /\ arr[q[x]].annual \in Nat /\ arr[q[y]].annual \in Nat
    BY <1>2, <1>4, <1>5
  <2>2. CASE x = y
    BY <2>1, <2>2
  <2>3. CASE x < y
    <3>1. Earlier(arr, q[x], q[y])
      BY <1>2, <2>3
    <3> QED  BY <2>1, <3>1 DEF Earlier
  <2> QED  BY <1>4, <1>8, <2>2, <2>3
<1>9. ASSUME NEW i \in 1..Len(t), NEW j \in 1..Len(t), i < j, t[i].annual = t[j].annual
      PROVE  \E x, y \in 1..Len(arr) : x < y /\ t[i] = arr[x] /\ t[j] = arr[y]
  <2>1. t[i] = arr[q[i]] /\ t[j] = arr[q[j]] /\ q[i] \in 1..Len(arr) /\ q[j] \in 1..Len(arr)
    BY <1>2, <1>4
  <2>2. Earlier(arr, q[i], q[j])
    BY <1>2, <1>9
  <2>3. q[i] < q[j]
    BY <1>5, <1>9, <2>1, <2>2 DEF Earlier
  <2> QED  BY <2>1, <2>3
<1> QED  BY <1>3, <1>7, <1>8, <1>9 DEF InOrder

-----------------------------------------------------------------------------
(* The binary searches of part C.                                          *)

(* A search narrows the bounds left and right.                             *)
SearchPlaces(n) == (0..n) \X (0..n)
Searching(arr, val, strictly, f, p) ==
    LET mid == (p[1] + p[2]) \div 2
    IN  IF p[1] >= p[2] THEN p[1]
        ELSE IF Before(arr[mid + 1], val, strictly) THEN f[<<mid + 1, p[2]>>] ELSE f[<<p[1], mid>>]

(* The distance of the bounds.                                             *)
SearchLeft(n) == [p \in SearchPlaces(n) |-> IF p[1] >= p[2] THEN 0 ELSE p[2] - p[1]]

(* The bounds come closer.                                                 *)
LEMMA SearchNarrows ==
    ASSUME NEW n \in Nat
    PROVE  /\ SearchLeft(n) \in [SearchPlaces(n) -> Nat]
           /\ \A p \in SearchPlaces(n) :
               /\ p[1] \in 0..n /\ p[2] \in 0..n
               /\ ~(p[1] >= p[2]) =>
                    LET mid == (p[1] + p[2]) \div 2
                    IN  /\ mid \in p[1]..(p[2] - 1)
                        /\ <<mid + 1, p[2]>> \in SearchPlaces(n) /\ <<p[1], mid>> \in SearchPlaces(n)
                        /\ SearchLeft(n)[<<mid + 1, p[2]>>] < SearchLeft(n)[p]
                        /\ SearchLeft(n)[<<p[1], mid>>] < SearchLeft(n)[p]
<1> DEFINE D == SearchPlaces(n)
           m == SearchLeft(n)
<1>1. \A p \in D : p[1] \in 0..n /\ p[2] \in 0..n
  BY DEF SearchPlaces
<1>2. \A p \in D : m[p] = IF p[1] >= p[2] THEN 0 ELSE p[2] - p[1]
  BY DEF SearchLeft
<1>3. m \in [D -> Nat]
  <2>1. ASSUME NEW p \in D PROVE (IF p[1] >= p[2] THEN 0 ELSE p[2] - p[1]) \in Nat
    <3>1. p[1] \in 0..n /\ p[2] \in 0..n
      BY <1>1
    <3> QED  BY <3>1
  <2> QED  BY <2>1 DEF SearchLeft
<1>4. \A x, y \in 0..n : <<x, y>> \in D
  BY DEF SearchPlaces
<1> HIDE DEF D, m
<1>5. ASSUME NEW p \in D, ~(p[1] >= p[2]), NEW mid, mid = (p[1] + p[2]) \div 2
      PROVE  /\ mid \in p[1]..(p[2] - 1) /\ <<mid + 1, p[2]>> \in D /\ <<p[1], mid>> \in D
             /\ m[<<mid + 1, p[2]>>] < m[p] /\ m[<<p[1], mid>>] < m[p]
  <2> DEFINE i == p[1]
             j == p[2]
             u == <<mid + 1, j>>
             v == <<i, mid>>
  <2>1. i \in 0..n /\ j \in 0..n /\ i < j /\ mid = (i + j) \div 2
    BY <1>1, <1>5
  <2>2. u[1] = mid + 1 /\ u[2] = j /\ v[1] = i /\ v[2] = mid
    OBVIOUS
  <2> HIDE DEF i, j
  <2>3. mid \in i..(j - 1) /\ mid \in 0..n /\ mid + 1 \in 0..n
    BY <2>1
  <2>4. u \in D /\ v \in D
    BY <1>4, <2>1, <2>3
  <2> HIDE DEF u, v
  <2>5. /\ m[u] = IF mid + 1 >= j THEN 0 ELSE j - (mid + 1)
        /\ m[v] = IF i >= mid THEN 0 ELSE mid - i
    BY <1>2, <2>2, <2>4
  <2>6. m[p] = j - i
    BY <1>2, <1>5 DEF i, j
  <2>7. m[u] < m[p] /\ m[v] < m[p]
    BY <2>1, <2>3, <2>5, <2>6
  <2> QED  BY <2>3, <2>4, <2>7 DEF u, v, i, j
<1> QED  BY <1>1, <1>3, <1>5 DEF D, m

(* In an array in order, a search returns the number of records that come  *)
(* before the bound.                                                       *)
LEMMA SearchIs ==
    ASSUME NEW arr \in Seq(Rec), InOrder(arr), NEW val \in Nat, NEW strictly \in BOOLEAN
    PROVE  /\ Search(arr, val, strictly) \in 0..Len(arr)
           /\ \A k \in 1..Len(arr) : k <= Search(arr, val, strictly) <=> Before(arr[k], val, strictly)
<1> DEFINE n == Len(arr)
           D == SearchPlaces(n)
           m == SearchLeft(n)
           V == 0..n
           step == [x \in D \X [D -> V] |-> Searching(arr, val, strictly, x[2], x[1])]
           Eq(f) == f = [p \in D |-> Searching(arr, val, strictly, f, p)]
           mid(p) == (p[1] + p[2]) \div 2
           B(k) == Before(arr[k], val, strictly)
<1>1. n \in Nat
  OBVIOUS
<1>2. Search(arr, val, strictly) = (CHOOSE f : Eq(f))[<<0, n>>]
  BY DEF Search, Searching, SearchPlaces
<1>3. ASSUME NEW x \in 1..n, NEW y \in 1..n, x <= y, B(y) PROVE B(x)
  <2>1. arr[x].annual \in Nat /\ arr[y].annual \in Nat
    BY SeqTypes, RecTypes
  <2>2. arr[x].annual <= arr[y].annual
    BY <1>3 DEF InOrder
  <2> HIDE DEF n
  <2> QED  BY <1>3, <2>1, <2>2 DEF Before
<1> HIDE DEF n
<1>4. /\ m \in [D -> Nat]
      /\ \A p \in D : /\ p[1] \in 0..n /\ p[2] \in 0..n
                      /\ ~(p[1] >= p[2]) =>
                           /\ mid(p) \in p[1]..(p[2] - 1)
                           /\ <<mid(p) + 1, p[2]>> \in D /\ <<p[1], mid(p)>> \in D
                           /\ m[<<mid(p) + 1, p[2]>>] < m[p] /\ m[<<p[1], mid(p)>>] < m[p]
  <2> DEFINE P(p) == /\ p[1] \in 0..n /\ p[2] \in 0..n
                     /\ ~(p[1] >= p[2]) =>
                          /\ mid(p) \in p[1]..(p[2] - 1)
                          /\ <<mid(p) + 1, p[2]>> \in D /\ <<p[1], mid(p)>> \in D
                          /\ m[<<mid(p) + 1, p[2]>>] < m[p] /\ m[<<p[1], mid(p)>>] < m[p]
  <2>1. ASSUME NEW p \in D PROVE P(p)
    BY <1>1, SearchNarrows
  <2>2. m \in [D -> Nat]
    BY <1>1, SearchNarrows
  <2> HIDE DEF P, m, D
  <2>3. \A p \in D : P(p)
    BY <2>1
  <2> QED  BY <2>2, <2>3 DEF P
<1>5. \A p \in D : \A f : Searching(arr, val, strictly, f, p)
        = IF p[1] >= p[2] THEN p[1] ELSE IF B(mid(p) + 1) THEN f[<<mid(p) + 1, p[2]>>] ELSE f[<<p[1], mid(p)>>]
  BY DEF Searching
<1> HIDE DEF D, m, B
<1>6. ASSUME NEW p \in D, NEW g \in [D -> V]
      PROVE  Searching(arr, val, strictly, g, p) \in V /\ step[<<p, g>>] = Searching(arr, val, strictly, g, p)
  <2>1. p[1] \in V
    BY <1>4
  <2>2. ~(p[1] >= p[2]) => g[<<mid(p) + 1, p[2]>>] \in V /\ g[<<p[1], mid(p)>>] \in V
    <3> HIDE DEF V, mid
    <3> QED  BY <1>4
  <2> HIDE DEF V, mid
  <2>3. Searching(arr, val, strictly, g, p) \in V
    BY <1>5, <2>1, <2>2
  <2> QED  BY <2>3
<1>7. IsRecursion(D, m, V, step)
  <2>1. step \in [D \X [D -> V] -> V]
    <3>1. \A x \in D \X [D -> V] : Searching(arr, val, strictly, x[2], x[1]) \in V
      BY <1>6
    <3> HIDE DEF V
    <3> QED  BY <3>1
  <2>2. ASSUME NEW p \in D, NEW g \in [D -> V], NEW h \in [D -> V],
               \A y \in D : m[y] < m[p] => g[y] = h[y]
        PROVE  step[<<p, g>>] = step[<<p, h>>]
    <3>1. ~(p[1] >= p[2]) => /\ g[<<mid(p) + 1, p[2]>>] = h[<<mid(p) + 1, p[2]>>]
                             /\ g[<<p[1], mid(p)>>] = h[<<p[1], mid(p)>>]
      <4> HIDE DEF mid
      <4> QED  BY <1>4, <2>2
    <3> HIDE DEF V, mid
    <3>2. Searching(arr, val, strictly, g, p) = Searching(arr, val, strictly, h, p)
      BY <1>5, <3>1
    <3>3. step[<<p, g>>] = Searching(arr, val, strictly, g, p) /\ step[<<p, h>>] = Searching(arr, val, strictly, h, p)
      BY <1>6
    <3> HIDE DEF step
    <3> QED  BY <3>2, <3>3
  <2>3. V # {} /\ m \in [D -> Nat]
    <3>1. 0 \in V
      BY <1>1
    <3> QED  BY <1>4, <3>1
  <2> HIDE DEF V, step
  <2> QED  BY <2>1, <2>2, <2>3 DEF IsRecursion
<1>8. \E f : Eq(f)
  <2>1. PICK f : Solves(f, D, V, step)
    <3> HIDE DEF V, step
    <3> QED  BY <1>7, Recursion
  <2>2. f \in [D -> V] /\ \A p \in D : f[p] = Searching(arr, val, strictly, f, p)
    <3> HIDE DEF V, step
    <3> QED  BY <1>6, <2>1 DEF Solves
  <2>3. f = [p \in D |-> Searching(arr, val, strictly, f, p)]
    <3> HIDE DEF V
    <3> QED  BY <2>2
  <2> QED  BY <2>3
<1> DEFINE f == CHOOSE f : Eq(f)
<1>9. Eq(f)
  <2> HIDE DEF Eq
  <2> QED  BY <1>8
<1>10. Search(arr, val, strictly) = f[<<0, n>>]
  BY <1>2
<1> HIDE DEF f
<1>11. \A p \in D : f[p] = IF p[1] >= p[2] THEN p[1] ELSE IF B(mid(p) + 1) THEN f[<<mid(p) + 1, p[2]>>] ELSE f[<<p[1], mid(p)>>]
  <2> HIDE DEF mid
  <2>1. \A p \in D : f[p] = Searching(arr, val, strictly, f, p)
    BY <1>9
  <2> QED  BY <1>5, <2>1
<1> HIDE DEF Eq, step, V
<1> DEFINE Bounds(p) == /\ p[1] <= p[2] /\ \A k \in 1..n : k <= p[1] => B(k)
                        /\ \A k \in 1..n : k > p[2] => ~B(k)
           Good(x) == x \in 0..n /\ \A k \in 1..n : k <= x <=> B(k)
           S == {p \in D : Bounds(p) => Good(f[p])}
<1>12. ASSUME NEW p \in D, \A y \in D : m[y] < m[p] => y \in S PROVE p \in S
  <2> SUFFICES ASSUME Bounds(p) PROVE Good(f[p])
    OBVIOUS
  <2>1. p[1] \in 0..n /\ p[2] \in 0..n
    BY <1>4
  <2>2. CASE p[1] >= p[2]
    <3>1. f[p] = p[1] /\ p[1] = p[2]
      <4>1. f[p] = p[1]
        BY <1>11, <2>2
      <4>2. p[1] <= p[2]
        OBVIOUS
      <4> QED  BY <1>1, <2>1, <2>2, <4>1, <4>2
    <3>2. \A k \in 1..n : k <= p[1] \/ k > p[2]
      BY <1>1, <2>1, <3>1
    <3>3. \A k \in 1..n : ~(k <= p[1] /\ k > p[2])
      BY <1>1, <2>1, <3>1
    <3> QED  BY <2>1, <3>1, <3>2, <3>3
  <2>3. CASE ~(p[1] >= p[2])
    <3> DEFINE c == mid(p)
               u == <<c + 1, p[2]>>
               v == <<p[1], c>>
    <3>1. c \in p[1]..(p[2] - 1) /\ u \in D /\ v \in D /\ m[u] < m[p] /\ m[v] < m[p]
      <4> HIDE DEF mid
      <4> QED  BY <1>4, <2>3
    <3>2. f[p] = IF B(c + 1) THEN f[u] ELSE f[v]
      BY <1>11, <2>3
    <3>3. u[1] = c + 1 /\ u[2] = p[2] /\ v[1] = p[1] /\ v[2] = c
      OBVIOUS
    <3> HIDE DEF c, u, v
    <3>4. c + 1 \in 1..n /\ c + 1 <= p[2] /\ p[1] <= c /\ c \in Int
      BY <1>1, <2>1, <2>3, <3>1
    <3>5. u \in S /\ v \in S
      <4> HIDE DEF S
      <4> QED  BY <1>12, <3>1
    <3>6. CASE B(c + 1)
      <4>1. \A k \in 1..n : k <= c + 1 => B(k)
        BY <1>3, <3>4, <3>6
      <4>2. Bounds(u)
        BY <3>3, <3>4, <4>1
      <4> HIDE DEF Bounds, Good
      <4> QED  BY <3>2, <3>5, <3>6, <4>2
    <3>7. CASE ~B(c + 1)
      <4>1. ASSUME NEW k \in 1..n, k > c PROVE ~B(k)
        <5>1. c + 1 <= k
          BY <1>1, <3>4, <4>1
        <5> QED  BY <1>3, <3>4, <3>7, <5>1
      <4>2. Bounds(v)
        BY <3>3, <3>4, <4>1
      <4> HIDE DEF Bounds, Good
      <4> QED  BY <3>2, <3>5, <3>7, <4>2
    <3> QED  BY <3>6, <3>7
  <2> QED  BY <2>2, <2>3
<1>13. S = D
  <2>1. S \in SUBSET D
    OBVIOUS
  <2>2. m \in [D -> Nat]
    BY <1>4
  <2> HIDE DEF S
  <2>3. Inductive(D, m, S)
    BY <1>12, <2>1, <2>2 DEF Inductive
  <2> QED  BY <2>3, InductiveAll
<1> DEFINE r == <<0, n>>
<1>14. r[1] = 0 /\ r[2] = n /\ r \in D
  BY <1>1 DEF D, SearchPlaces
<1> HIDE DEF r
<1>15. Bounds(r)
  <2>1. \A k \in 1..n : ~(k <= 0) /\ ~(k > n)
    BY <1>1
  <2> QED  BY <1>1, <1>14, <2>1
<1>16. Good(f[r])
  <2> HIDE DEF Bounds, Good
  <2> QED  BY <1>13, <1>14, <1>15
<1>17. Search(arr, val, strictly) = f[r]
  BY <1>10 DEF r
<1> QED  BY <1>16, <1>17 DEF B, n

(* The places first..last hold just the elements within low..high.        *)
JustWithin(arr, low, high, first, last) ==
    /\ first \in 1..(Len(arr) + 1) /\ last \in 0..Len(arr)
    /\ \A i \in DOMAIN arr : i \in first..last <=> low <= arr[i].annual /\ arr[i].annual <= high

(* What part C lists lies within the bounds, and nothing else does.        *)
LEMMA RangeWithin ==
    ASSUME NEW arr \in Seq(Rec), InOrder(arr), NEW low \in Nat, NEW high \in Nat,
           NEW first, first = lower_bound(arr, low) + 1, NEW last, last = upper_bound(arr, high)
    PROVE  JustWithin(arr, low, high, first, last)
<1> DEFINE n == Len(arr)
           a == Search(arr, low, TRUE)
<1>1. n \in Nat /\ DOMAIN arr = 1..n
  OBVIOUS
<1>2. a \in 0..n /\ \A k \in 1..n : k <= a <=> Before(arr[k], low, TRUE)
  BY SearchIs
<1>3. last \in 0..n /\ \A k \in 1..n : k <= last <=> Before(arr[k], high, FALSE)
  BY SearchIs DEF upper_bound
<1>4. first = a + 1
  BY DEF lower_bound
<1>5. \A k \in 1..n : arr[k].annual \in Nat
  BY SeqTypes, RecTypes
<1>6. \A k \in 1..n : Before(arr[k], low, TRUE) <=> arr[k].annual < low
  BY DEF Before
<1>7. \A k \in 1..n : Before(arr[k], high, FALSE) <=> arr[k].annual <= high
  BY DEF Before
<1> HIDE DEF a, n
<1>8. first \in 1..(n + 1)
  BY <1>1, <1>2, <1>4
<1>9. ASSUME NEW i \in 1..n PROVE i \in first..last <=> low <= arr[i].annual /\ arr[i].annual <= high
  <2>1. i >= first <=> ~(i <= a)
    BY <1>1, <1>2, <1>4
  <2>2. i >= first <=> low <= arr[i].annual
    <3>1. i <= a <=> arr[i].annual < low
      BY <1>2, <1>6
    <3>2. arr[i].annual \in Nat
      BY <1>5
    <3>3. arr[i].annual < low <=> ~(low <= arr[i].annual)
      BY <3>2
    <3> QED  BY <2>1, <3>1, <3>3
  <2>3. i <= last <=> arr[i].annual <= high
    BY <1>3, <1>7
  <2>4. i \in first..last <=> i >= first /\ i <= last
    BY <1>1, <1>3, <1>8
  <2> QED  BY <2>2, <2>3, <2>4
<1> QED  BY <1>1, <1>3, <1>8, <1>9 DEF n, JustWithin

-----------------------------------------------------------------------------
(* The extremes of part A.                                                 *)

(* r is one of the records low..high, and none of them is better.          *)
BestOf(least, low, high, r) ==
    /\ r \in Rec /\ \E x \in low..high : r = records[x]
    /\ \A x \in low..high : ~Better(least, records[x].month, r.month)

(* The better of two bests is the best of both.                            *)
LEMMA BestOfBoth ==
    ASSUME NEW least \in BOOLEAN, records \in Seq(Rec),
           NEW low \in 1..Len(records), NEW high \in 1..Len(records), NEW mid \in low..(high - 1),
           NEW a, NEW b, NEW r, r \in {BetterOf(least, a, b), BetterOf(least, b, a)},
           BestOf(least, low, mid, a), BestOf(least, mid + 1, high, b)
    PROVE  BestOf(least, low, high, r)
<1>1. \A x \in low..high : records[x].month \in Nat
  <2> SUFFICES ASSUME NEW x \in low..high PROVE records[x].month \in Nat
    OBVIOUS
  <2>1. records[x] \in Rec
    <3>1. x \in 1..Len(records)
      OBVIOUS
    <3> QED  BY <3>1, SeqTypes
  <2> QED  BY <2>1, RecTypes
<1>2. a \in Rec /\ b \in Rec /\ a.month \in Nat /\ b.month \in Nat
  BY RecTypes DEF BestOf
<1>3. \A x \in low..high : x \in low..mid \/ x \in (mid + 1)..high
  OBVIOUS
<1>4. (\A x \in low..mid : x \in low..high) /\ (\A x \in (mid + 1)..high : x \in low..high)
  OBVIOUS
<1>5. r \in {a, b}
  BY DEF BetterOf
<1>6. ~Better(least, a.month, r.month) /\ ~Better(least, b.month, r.month) /\ r \in Rec
  BY <1>2 DEF BetterOf, Better
<1>7. \E x \in low..high : r = records[x]
  BY <1>4, <1>5 DEF BestOf
<1>8. ASSUME NEW x \in low..high PROVE ~Better(least, records[x].month, r.month)
  <2> DEFINE u == records[x].month
             v == r.month
  <2>1. PICK d \in {a, b} : ~Better(least, u, d.month)
    BY <1>3 DEF BestOf
  <2> DEFINE w == d.month
  <2>2. u \in Nat /\ v \in Nat /\ w \in Nat
    BY <1>1, <1>2, <1>5
  <2>3. ~Better(least, u, w) /\ ~Better(least, w, v)
    BY <1>6, <2>1
  <2> HIDE DEF u, v, w
  <2>4. ~Better(least, u, v)
    BY <2>2, <2>3 DEF Better
  <2> QED  BY <2>4 DEF u, v
<1> QED  BY <1>6, <1>7, <1>8 DEF BestOf

(* A single record is the best of itself.                                  *)
LEMMA BestOfOne ==
    ASSUME NEW least \in BOOLEAN, records \in Seq(Rec), NEW i \in 1..Len(records)
    PROVE  BestOf(least, i, i, records[i])
<1>1. records[i] \in Rec
  BY SeqTypes
<1>2. records[i].month \in Nat
  BY <1>1, RecTypes
<1>3. i \in Int /\ i \in i..i /\ \A x \in i..i : x = i
  OBVIOUS
<1>4. ~Better(least, records[i].month, records[i].month)
  BY <1>2 DEF Better
<1> QED  BY <1>1, <1>3, <1>4 DEF BestOf

(* The linear scan finds an extreme.                                       *)
LEMMA LinearBest ==
    ASSUME NEW least \in BOOLEAN, records \in Seq(Rec), records # <<>>
    PROVE  BestOf(least, 1, Len(records), findMinMaxLinear(least))
<1> DEFINE n == Len(records) - 1
           V == Rec
           tl == Tail(records)
           base == records[1]
           next == [q \in V \X (1..n) |-> BetterOf(least, q[1], tl[q[2]])]
           Eq(it) == it = [s \in SUBSET (1..n) |-> IF s = {} THEN base
                           ELSE LET x == Max(s) IN BetterOf(least, it[s \ {x}], tl[x])]
<1>1. /\ n \in Nat /\ base \in V /\ Len(records) = n + 1 /\ tl \in Seq(V) /\ Len(tl) = n
      /\ \A k \in 1..n : tl[k] \in V /\ tl[k] = records[k + 1]
  OBVIOUS
<1>2. ASSUME NEW v \in V, NEW k \in 1..n
      PROVE  BetterOf(least, v, tl[k]) \in V /\ next[<<v, k>>] = BetterOf(least, v, tl[k])
  <2>1. BetterOf(least, v, tl[k]) \in V
    <3> HIDE DEF n, tl
    <3> QED  BY <1>1 DEF BetterOf
  <2>2. <<v, k>> \in V \X (1..n)
    OBVIOUS
  <2> HIDE DEF n, V, tl
  <2> QED  BY <2>1, <2>2
<1>3. next \in [V \X (1..n) -> V]
  <2>1. \A q \in V \X (1..n) : BetterOf(least, q[1], tl[q[2]]) \in V
    BY <1>2
  <2> HIDE DEF n, V, tl
  <2> QED  BY <2>1
<1>4. findMinMaxLinear(least) = (CHOOSE it : Eq(it))[1..n]
  <2>1. DOMAIN tl = 1..n
    BY <1>1
  <2> HIDE DEF n
  <2>2. findMinMaxLinear(least) = (CHOOSE it : it = [s \in SUBSET (DOMAIN tl) |->
            IF s = {} THEN base
            ELSE LET x == Max(s) IN BetterOf(least, it[s \ {x}], tl[x])])[DOMAIN tl]
    BY DEF findMinMaxLinear, FoldLeft, MapThenFoldSet
  <2> QED  BY <2>1, <2>2
<1> HIDE DEF n, V, next, tl, base
<1>5. \A s \in SUBSET (1..n) : s # {} => Max(s) \in s
  BY <1>1, MaxIn
<1>6. \E it : Eq(it)
  <2>1. PICK it \in [SUBSET (1..n) -> V] : IsFold(it, n, base, next)
    BY <1>1, <1>3, FoldExists
  <2> DEFINE one(s) == IF s = {} THEN base ELSE LET x == Max(s) IN next[<<it[s \ {x}], x>>]
             two(s) == IF s = {} THEN base ELSE LET x == Max(s) IN BetterOf(least, it[s \ {x}], tl[x])
  <2>2. ASSUME NEW s \in SUBSET (1..n) PROVE one(s) = two(s)
    <3>1. CASE s # {}
      <4>1. Max(s) \in 1..n /\ it[s \ {Max(s)}] \in V
        BY <1>5, <2>1, <3>1
      <4> QED  BY <1>2, <3>1, <4>1
    <3> QED  BY <3>1
  <2>3. it = [s \in SUBSET (1..n) |-> one(s)]
    BY <2>1 DEF IsFold
  <2> HIDE DEF one, two
  <2>4. it = [s \in SUBSET (1..n) |-> two(s)]
    BY <2>2, <2>3
  <2> QED  BY <2>4 DEF two
<1> DEFINE it == CHOOSE it : Eq(it)
<1>7. Eq(it)
  <2> HIDE DEF Eq
  <2> QED  BY <1>6
<1>8. \A s \in SUBSET (1..n) : it[s] = IF s = {} THEN base ELSE BetterOf(least, it[s \ {Max(s)}], tl[Max(s)])
  <2> HIDE DEF it
  <2> QED  BY <1>7
<1>9. findMinMaxLinear(least) = it[1..n]
  BY <1>4
<1> HIDE DEF it, Eq
<1> DEFINE S == {k \in Nat : k <= n => BestOf(least, 1, k + 1, it[1..k])}
<1>10. 0 \in S
  <2>1. 1..0 = {} /\ 0 + 1 = 1 /\ 1 \in 1..Len(records)
    BY <1>1
  <2>2. it[1..0] = records[1]
    BY <1>8, <2>1 DEF base
  <2>3. BestOf(least, 1, 1, records[1])
    BY <2>1, BestOfOne
  <2> QED  BY <2>1, <2>2, <2>3
<1>11. ASSUME NEW k \in Nat, k \in S PROVE k + 1 \in S
  <2> SUFFICES ASSUME k + 1 <= n PROVE BestOf(least, 1, (k + 1) + 1, it[1..(k + 1)])
    OBVIOUS
  <2> DEFINE mid == k + 1
             high == (k + 1) + 1
  <2>1. /\ mid \in 1..n /\ k <= n /\ 1 \in 1..Len(records) /\ high \in 1..Len(records)
        /\ mid \in 1..(high - 1) /\ mid + 1 = high /\ mid - 1 = k
    BY <1>1
  <2>2. BestOf(least, 1, mid, it[1..k])
    BY <1>11, <2>1
  <2> HIDE DEF S, high
  <2>3. /\ Max(1..mid) = mid /\ (1..mid) \ {mid} = 1..(mid - 1)
        /\ 1..mid \in SUBSET (1..n) /\ 1..mid # {}
    <3> HIDE DEF mid
    <3> QED  BY <1>1, <2>1, MaxUpto
  <2> HIDE DEF mid
  <2>4. it[1..mid] = BetterOf(least, it[1..k], tl[mid])
    BY <1>8, <2>1, <2>3
  <2>5. tl[mid] = records[high]
    BY <1>1, <2>1
  <2>6. BestOf(least, mid + 1, high, records[high])
    BY <2>1, BestOfOne
  <2>7. BestOf(least, 1, high, it[1..mid])
    BY <2>1, <2>2, <2>4, <2>5, <2>6, BestOfBoth
  <2> QED  BY <2>7 DEF mid, high
<1>12. S = Nat
  <2>1. S \in SUBSET Nat
    OBVIOUS
  <2> HIDE DEF S
  <2> QED  BY <1>10, <1>11, <2>1, NatInduct
<1>13. n \in S
  <2> HIDE DEF S
  <2> QED  BY <1>1, <1>12
<1>14. BestOf(least, 1, n + 1, it[1..n])
  BY <1>1, <1>13
<1> QED  BY <1>1, <1>9, <1>14

(* So does the search by halves.                                           *)
LEMMA HalvesBest ==
    ASSUME NEW least \in BOOLEAN, records \in Seq(Rec), records # <<>>
    PROVE  BestOf(least, 1, Len(records), findMinMaxDC(least))
<1> DEFINE n == Len(records)
           D == Ranges(n)
           V == Rec
           leaf == [i \in 1..n |-> records[i]]
           join == [x \in V \X V |-> BetterOf(least, x[2], x[1])]
           val(f, p) == IF p[1] = p[2] THEN records[p[1]]
                        ELSE BetterOf(least, f[<<Middle(p) + 1, p[2]>>], f[<<p[1], Middle(p)>>])
           Eq(f) == f = [p \in D |-> val(f, p)]
<1>1. n \in Nat /\ n >= 1 /\ \A i \in 1..n : records[i] \in V
  OBVIOUS
<1>2. findMinMaxDC(least) = (CHOOSE f : Eq(f))[<<1, n>>]
  BY DEF findMinMaxDC, recordCount
<1>3. \A x, y \in V : BetterOf(least, x, y) \in V
  BY DEF BetterOf
<1> HIDE DEF V, n
<1>4. \A x, y \in V : join[<<x, y>>] = BetterOf(least, y, x)
  OBVIOUS
<1>5. Halving(n, V, leaf, join)
  <2>1. leaf \in [1..n -> V] /\ join \in [V \X V -> V]
    BY <1>1, <1>3
  <2>2. 1 \in 1..n
    BY <1>1
  <2>3. V # {}
    BY <1>1, <2>2
  <2> HIDE DEF leaf, join
  <2> QED  BY <1>1, <2>1, <2>3 DEF Halving
<1> HIDE DEF D
<1>6. \A p \in D : /\ p[1] \in 1..n /\ p[2] \in 1..n /\ p[1] <= p[2]
                   /\ leaf[p[1]] = records[p[1]]
                   /\ p[1] # p[2] => /\ Middle(p) \in p[1]..(p[2] - 1)
                                     /\ <<p[1], Middle(p)>> \in D /\ <<Middle(p) + 1, p[2]>> \in D
  <2> SUFFICES ASSUME NEW p \in D
               PROVE  /\ p[1] \in 1..n /\ p[2] \in 1..n /\ p[1] <= p[2]
                      /\ leaf[p[1]] = records[p[1]]
                      /\ p[1] # p[2] => /\ Middle(p) \in p[1]..(p[2] - 1)
                                        /\ <<p[1], Middle(p)>> \in D /\ <<Middle(p) + 1, p[2]>> \in D
    OBVIOUS
  <2>1. /\ p[1] \in 1..n /\ p[2] \in 1..n /\ p[1] <= p[2]
        /\ p[1] # p[2] => /\ Middle(p) \in p[1]..(p[2] - 1)
                          /\ <<p[1], Middle(p)>> \in D /\ <<Middle(p) + 1, p[2]>> \in D
    BY <1>1, MiddleWithin DEF D
  <2> QED  BY <2>1
<1> HIDE DEF leaf, join
<1>7. \E f : Eq(f)
  <2>1. PICK f \in [D -> V] : \A p \in D : f[p] = OfHalves(leaf, join, f, p)
    BY <1>5, HalvesExist DEF D
  <2>2. ASSUME NEW p \in D PROVE f[p] = val(f, p)
    <3>1. CASE p[1] = p[2]
      BY <1>6, <2>1, <3>1 DEF OfHalves
    <3>2. CASE p[1] # p[2]
      <4> DEFINE u == f[<<p[1], Middle(p)>>]
                 v == f[<<Middle(p) + 1, p[2]>>]
      <4>1. u \in V /\ v \in V
        BY <1>6, <3>2
      <4>2. f[p] = join[<<u, v>>]
        BY <2>1, <3>2 DEF OfHalves
      <4>3. val(f, p) = BetterOf(least, v, u)
        BY <3>2
      <4> HIDE DEF u, v, val
      <4> QED  BY <1>4, <4>1, <4>2, <4>3
    <3> QED  BY <3>1, <3>2
  <2> HIDE DEF val
  <2>3. f = [p \in D |-> val(f, p)]
    BY <2>1, <2>2
  <2> QED  BY <2>3
<1> DEFINE f == CHOOSE f : Eq(f)
<1>8. Eq(f)
  <2> HIDE DEF Eq
  <2> QED  BY <1>7
<1>9. findMinMaxDC(least) = f[<<1, n>>]
  BY <1>2
<1> HIDE DEF f
<1>10. \A p \in D : f[p] = val(f, p)
  <2>1. f = [p \in D |-> val(f, p)]
    BY <1>8
  <2> HIDE DEF val
  <2> QED  BY <2>1
<1> HIDE DEF Eq
<1> DEFINE m == RangeSizes(n)
           S == {p \in D : BestOf(least, p[1], p[2], f[p])}
<1>11. /\ m \in [D -> Nat]
       /\ \A p \in D : p[1] # p[2] => m[<<p[1], Middle(p)>>] < m[p] /\ m[<<Middle(p) + 1, p[2]>>] < m[p]
  BY <1>1, HalvesShorter DEF D
<1> HIDE DEF m
<1>12. ASSUME NEW p \in D, \A y \in D : m[y] < m[p] => y \in S PROVE p \in S
  <2>1. CASE p[1] = p[2]
    <3>1. f[p] = records[p[1]]
      BY <1>10, <2>1
    <3>2. p[1] \in 1..Len(records)
      BY <1>6 DEF n
    <3>3. BestOf(least, p[1], p[1], records[p[1]])
      BY <3>2, BestOfOne
    <3> QED  BY <2>1, <3>1, <3>3
  <2>2. CASE p[1] # p[2]
    <3> DEFINE r == <<p[1], Middle(p)>>
               s == <<Middle(p) + 1, p[2]>>
               mid == Middle(p)
               b == BetterOf(least, f[s], f[r])
    <3>1. r[1] = p[1] /\ r[2] = mid /\ s[1] = mid + 1 /\ s[2] = p[2]
      OBVIOUS
    <3>2. f[p] = b
      BY <1>10, <2>2
    <3>3. r \in D /\ s \in D /\ m[r] < m[p] /\ m[s] < m[p] /\ mid \in p[1]..(p[2] - 1)
      BY <1>6, <1>11, <2>2
    <3> HIDE DEF r, s, mid, val
    <3>4. r \in S /\ s \in S
      <4> HIDE DEF S
      <4> QED  BY <1>12, <3>3
    <3>5. BestOf(least, p[1], mid, f[r]) /\ BestOf(least, mid + 1, p[2], f[s])
      BY <3>1, <3>4
    <3>6. p[1] \in 1..Len(records) /\ p[2] \in 1..Len(records)
      BY <1>6 DEF n
    <3>7. b \in {BetterOf(least, f[r], f[s]), BetterOf(least, f[s], f[r])}
      OBVIOUS
    <3> HIDE DEF b
    <3>8. BestOf(least, p[1], p[2], b)
      BY <3>3, <3>5, <3>6, <3>7, BestOfBoth
    <3> QED  BY <3>2, <3>8
  <2> QED  BY <2>1, <2>2
<1>13. S = D
  <2>1. S \in SUBSET D
    OBVIOUS
  <2> HIDE DEF S
  <2>2. Inductive(D, m, S)
    BY <1>11, <1>12, <2>1 DEF Inductive
  <2> QED  BY <2>2, InductiveAll
<1> DEFINE r == <<1, n>>
<1>14. r \in D /\ r[1] = 1 /\ r[2] = n
  <2>1. n \in 1..n /\ 1 \in 1..n /\ 1 <= n
    BY <1>1
  <2> QED  BY <2>1 DEF D, Ranges
<1> HIDE DEF r
<1>15. BestOf(least, 1, n, f[r])
  BY <1>13, <1>14
<1>16. findMinMaxDC(least) = f[r]
  BY <1>9 DEF r
<1> QED  BY <1>15, <1>16 DEF n

-----------------------------------------------------------------------------
(* The program.                                                            *)

(* What has been printed: each pair of extremes is of the records, and the *)
(* years of a range are those within it.                                   *)
ExtremesRight ==
    \A k \in DOMAIN extremes : \A r \in ToSet(extremes[k]) :
        r \in ToSet(records) /\ \A s \in ToSet(records) : ~Better(k = 1, s.month, r.month)
FoundRight ==
    \A f \in ToSet(found) : \E first \in 1..(Len(sortedRecords) + 1), last \in 0..Len(sortedRecords) :
        /\ f.years = Years(SubSeq(sortedRecords, first, last))
        /\ \A i \in DOMAIN sortedRecords :
            i \in first..last <=> f.low <= sortedRecords[i].annual /\ sortedRecords[i].annual <= f.high

(* The inductive invariant.                                                *)
RainInv ==
    /\ file \in Files /\ doing \in {"load", "menu", "sort", "exit"} /\ records \in Seq(Rec)
    /\ doing = "load" => sortedRecords = <<>> /\ extremes = <<>> /\ found = <<>>
    /\ doing \in {"menu", "sort"} => records # <<>>
    /\ doing = "sort" => QuickHolds(quickArr, pending, records)
    /\ sortedRecords # <<>> =>
        sortedRecords \in Seq(Rec) /\ Lists(records, sortedRecords, 1..Len(records))
    /\ ExtremesRight /\ FoundRight

(* The program starts in it.                                               *)
LEMMA RainStarts == RainInit => RainInv
<1> SUFFICES ASSUME RainInit PROVE RainInv
  OBVIOUS
<1>1. /\ file \in Files /\ doing = "load" /\ records = <<>> /\ sortedRecords = <<>>
      /\ extremes = <<>> /\ found = <<>>
  BY DEF RainInit
<1>2. ExtremesRight /\ FoundRight
  BY <1>1 DEF ExtremesRight, FoundRight, ToSet
<1>3. records \in Seq(Rec)
  BY <1>1
<1> QED  BY <1>1, <1>2, <1>3 DEF RainInv

(* Nothing printed, nothing wrong in it.                                   *)
LEMMA NothingPrinted ==
    /\ extremes = <<>> => ExtremesRight
    /\ found = <<>> => FoundRight
BY DEF ExtremesRight, FoundRight, ToSet

(* Loading the table.                                                      *)
LEMMA LoadKeeps == RainInv /\ readCSV => RainInv'
<1> SUFFICES ASSUME RainInv, readCSV PROVE RainInv'
  OBVIOUS
<1> DEFINE n == IF Len(file) < MAX_RECORDS THEN Len(file) ELSE MAX_RECORDS
           Row == [year : Nat, month : Amounts, annual : Amounts, cells : {"all", "no annual", "no month"}]
<1>1. file \in Seq(Row) /\ MAX_RECORDS \in Nat \ {0} /\ Amounts \subseteq Nat
  BY RainfallAssumption DEF RainInv
<1> HIDE DEF Row
<1>2. n \in Nat /\ n <= Len(file) /\ (file # <<>> => n # 0)
  BY <1>1
<1>3. PICK junk \in Amounts : records' = [i \in 1..n |-> Loaded(file[i], junk)]
  BY DEF readCSV
<1>4. ASSUME NEW i \in 1..n PROVE Loaded(file[i], junk) \in Rec
  <2>1. i \in 1..Len(file)
    BY <1>1, <1>2
  <2>2. file[i] \in Row
    BY <1>1, <2>1
  <2> USE DEF Row
  <2> DEFINE r == file[i]
  <2>3. r.year \in Nat /\ r.month \in Amounts /\ r.annual \in Nat
    BY <1>1, <2>2
  <2> HIDE DEF r
  <2>4. Loaded(r, junk) \in Rec
    <3> DEFINE month == IF r.cells = "no month" THEN junk ELSE r.month
               annual == IF r.cells = "all" THEN r.annual ELSE 0
    <3>1. month \in Amounts /\ annual \in Nat
      BY <2>3
    <3>2. Loaded(r, junk) = [year |-> r.year, month |-> month, annual |-> annual]
      BY DEF Loaded
    <3> HIDE DEF month, annual
    <3> QED  BY <2>3, <3>1, <3>2 DEF Rec
  <2> QED  BY <2>4 DEF r
<1>5. /\ file' = file /\ doing' = (IF file = <<>> THEN "exit" ELSE "menu")
      /\ sortedRecords' = <<>> /\ extremes' = <<>> /\ found' = <<>> /\ file \in Files
  BY DEF RainInv, readCSV
<1> HIDE DEF n
<1>6. records' \in Seq(Rec) /\ Len(records') = n
  <2>1. records' \in [1..n -> Rec]
    BY <1>3, <1>4
  <2> QED  BY <1>2, <2>1
<1>7. doing' \in {"menu", "sort"} => records' # <<>>
  BY <1>2, <1>5, <1>6
<1>8. ExtremesRight' /\ FoundRight'
  BY <1>5 DEF ExtremesRight, FoundRight, ToSet
<1> QED  BY <1>5, <1>6, <1>7, <1>8 DEF RainInv

(* A best of all the records is one of them, and none is better.           *)
LEMMA BestOfAll ==
    ASSUME NEW least \in BOOLEAN, records \in Seq(Rec), NEW r, BestOf(least, 1, Len(records), r)
    PROVE  r \in ToSet(records) /\ \A s \in ToSet(records) : ~Better(least, s.month, r.month)
<1>1. ToSet(records) = {records[x] : x \in 1..Len(records)}
  BY DEF ToSet
<1> QED  BY <1>1 DEF BestOf

(* Part A.                                                                 *)
LEMMA PartAKeeps == RainInv /\ doPartA => RainInv'
<1> SUFFICES ASSUME RainInv, doPartA PROVE RainInv'
  OBVIOUS
<1>1. doing = "menu" /\ records \in Seq(Rec) /\ records # <<>>
  BY DEF RainInv, doPartA
<1> DEFINE both(least) == <<findMinMaxLinear(least), findMinMaxDC(least)>>
<1>2. ASSUME NEW least \in BOOLEAN, NEW r \in ToSet(both(least))
      PROVE  r \in ToSet(records) /\ \A s \in ToSet(records) : ~Better(least, s.month, r.month)
  <2>1. r \in {findMinMaxLinear(least), findMinMaxDC(least)}
    BY <1>2 DEF ToSet
  <2>2. BestOf(least, 1, Len(records), r)
    BY <1>1, <2>1, LinearBest, HalvesBest
  <2> QED  BY <1>1, <2>2, BestOfAll
<1>3. extremes' = <<both(TRUE), both(FALSE)>> /\ records' = records
  BY DEF doPartA
<1> HIDE DEF both
<1>4. ASSUME NEW k \in DOMAIN extremes'
      PROVE  extremes'[k] = both(k = 1) /\ (k = 1) \in BOOLEAN
  <2>1. k \in 1..2
    BY <1>3
  <2>2. CASE k = 1
    <3>1. (k = 1) = TRUE /\ extremes'[k] = both(TRUE)
      BY <1>3, <2>2
    <3> QED  BY <3>1
  <2>3. CASE k = 2
    <3>1. (k = 1) = FALSE /\ extremes'[k] = both(FALSE)
      BY <1>3, <2>3
    <3> QED  BY <3>1
  <2> QED  BY <2>1, <2>2, <2>3
<1>5. ExtremesRight'
  <2> SUFFICES ASSUME NEW k \in DOMAIN extremes', NEW r \in ToSet(extremes'[k])
               PROVE  r \in ToSet(records) /\ \A s \in ToSet(records) : ~Better(k = 1, s.month, r.month)
    BY <1>3 DEF ExtremesRight
  <2> DEFINE least == k = 1
  <2>1. least \in BOOLEAN /\ r \in ToSet(both(least))
    BY <1>4
  <2>2. r \in ToSet(records) /\ \A s \in ToSet(records) : ~Better(least, s.month, r.month)
    <3> HIDE DEF least
    <3> QED  BY <1>2, <2>1
  <2> QED  BY <2>2
<1>6. FoundRight'
  BY DEF doPartA, FoundRight, ToSet
<1> QED  BY <1>1, <1>5, <1>6 DEF RainInv, doPartA

(* Part B begins with the whole array,                                     *)
LEMMA PartBKeeps == RainInv /\ doPartB => RainInv'
<1> SUFFICES ASSUME RainInv, doPartB PROVE RainInv'
  OBVIOUS
<1>1. QuickHolds(records, <<<<1, recordCount>>>>, records)
  BY QuickStarts DEF RainInv, recordCount
<1>2. ExtremesRight' /\ FoundRight'
  BY DEF doPartB, ExtremesRight, FoundRight, ToSet
<1> QED  BY <1>1, <1>2 DEF RainInv, doPartB

(* ... and each call drops a range or parts one.                           *)
LEMMA QuickKeeps == RainInv /\ quickSortRec => RainInv'
<1> SUFFICES ASSUME RainInv, quickSortRec PROVE RainInv'
  OBVIOUS
<1> DEFINE low == pending[1][1]
           high == pending[1][2]
<1>1. records \in Seq(Rec) /\ pending # <<>> /\ QuickHolds(quickArr, pending, records) /\ doing = "sort"
  BY DEF RainInv, quickSortRec
<1>2. Head(pending) = pending[1]
  BY <1>1 DEF QuickHolds
<1>3. QuickHolds(quickArr', pending', records)
  <2>1. CASE low < high
    <3>1. PICK randIdx \in low..high :
            LET p == partition(quickArr, low, high, randIdx)
            IN  quickArr' = p.arr /\ pending' = <<<<low, p.at - 1>>, <<p.at + 1, high>>>> \o Tail(pending)
      BY <1>2, <2>1 DEF quickSortRec
    <3> DEFINE p == partition(quickArr, low, high, randIdx)
    <3>2. quickArr' = p.arr /\ pending' = <<<<low, p.at - 1>>, <<p.at + 1, high>>>> \o Tail(pending)
      BY <3>1
    <3>3. quickArr \in Seq(Rec) /\ low \in 1..Len(quickArr) /\ high \in 1..Len(quickArr)
      <4>1. /\ quickArr \in Seq(Rec) /\ Len(quickArr) = Len(records)
            /\ pending \in Seq((1..(Len(records) + 1)) \X (0..Len(records)))
        BY <1>1 DEF QuickHolds
      <4>2. pending[1] \in (1..(Len(records) + 1)) \X (0..Len(records))
        BY <1>1, <4>1
      <4>3. low \in 1..(Len(records) + 1) /\ high \in 0..Len(records) /\ Len(records) \in Nat
        BY <1>1, <4>2
      <4> HIDE DEF low, high
      <4> QED  BY <2>1, <4>1, <4>3
    <3>4. IsParted(p.arr, p.at, quickArr, low, high)
      <4> HIDE DEF low, high
      <4> QED  BY <2>1, <3>3, PartitionParts
    <3>5. FirstRange(pending, low, high)
      BY DEF FirstRange
    <3>6. QuickHolds(p.arr, <<<<low, p.at - 1>>, <<p.at + 1, high>>>> \o Tail(pending), records)
      <4> HIDE DEF low, high, p
      <4> QED  BY <1>1, <2>1, <3>4, <3>5, QuickSplits
    <3> QED  BY <3>2, <3>6
  <2>2. CASE ~(low < high)
    <3>1. pending' = Tail(pending) /\ quickArr' = quickArr
      BY <1>2, <2>2 DEF quickSortRec
    <3> QED  BY <1>1, <2>2, <3>1, QuickDrops
  <2> QED  BY <2>1, <2>2
<1>4. ExtremesRight' /\ FoundRight'
  BY DEF RainInv, quickSortRec, ExtremesRight, FoundRight
<1> QED  BY <1>3, <1>4 DEF RainInv, quickSortRec

(* Part C sorts a copy once, and looks the range up in it.                 *)
LEMMA PartCKeeps == RainInv /\ doPartC => RainInv'
<1> SUFFICES ASSUME RainInv, doPartC PROVE RainInv'
  OBVIOUS
<1>1. doing = "menu" /\ records \in Seq(Rec) /\ records' = records /\ Amounts \subseteq Nat
  BY RainfallAssumption DEF RainInv, doPartC
<1>2. sortedRecords' \in Seq(Rec) /\ Lists(records, sortedRecords', 1..Len(records))
  BY <1>1, MergeSortLists DEF RainInv, doPartC
<1>3. InOrder(sortedRecords')
  BY <1>1, <1>2, ListsSorted
<1>4. FoundRight'
  <2> DEFINE t == sortedRecords'
  <2>1. PICK low \in Amounts, high \in Amounts :
          found' = <<[low |-> low, high |-> high,
                      years |-> Years(SubSeq(t, lower_bound(t, low) + 1, upper_bound(t, high)))]>>
    BY DEF doPartC
  <2> DEFINE first == lower_bound(t, low) + 1
             last == upper_bound(t, high)
             years == Years(SubSeq(t, first, last))
             f == [low |-> low, high |-> high, years |-> years]
  <2>2. JustWithin(t, low, high, first, last)
    <3>1. t \in Seq(Rec) /\ InOrder(t) /\ low \in Nat /\ high \in Nat
      BY <1>1, <1>2, <1>3
    <3> HIDE DEF t
    <3>2. PICK arr : arr = t
      OBVIOUS
    <3>3. arr \in Seq(Rec) /\ InOrder(arr)
      BY <3>1, <3>2
    <3>4. JustWithin(arr, low, high, lower_bound(arr, low) + 1, upper_bound(arr, high))
      BY <3>1, <3>3, RangeWithin
    <3> QED  BY <3>2, <3>4
  <2>3. found' = <<f>> /\ f.low = low /\ f.high = high /\ f.years = years
    BY <2>1
  <2> HIDE DEF f
  <2>4. ToSet(found') = {f}
    BY <2>3 DEF ToSet
  <2>5. years = Years(SubSeq(t, first, last))
    OBVIOUS
  <2> HIDE DEF first, last, years
  <2>6. \A g \in ToSet(found') : \E b \in 1..(Len(t) + 1), e \in 0..Len(t) :
          /\ g.years = Years(SubSeq(t, b, e))
          /\ \A i \in DOMAIN t : i \in b..e <=> g.low <= t[i].annual /\ t[i].annual <= g.high
    BY <2>2, <2>3, <2>4, <2>5 DEF JustWithin
  <2> QED  BY <2>6 DEF FoundRight, Years
<1>5. ExtremesRight'
  BY DEF doPartC, ExtremesRight
<1> QED  BY <1>1, <1>2, <1>4, <1>5 DEF RainInv, doPartC

(* Every step keeps it.                                                    *)
LEMMA RainSteps == RainInv /\ [RainNext]_rainVars => RainInv'
<1> SUFFICES ASSUME RainInv, [RainNext]_rainVars PROVE RainInv'
  OBVIOUS
<1>1. CASE SortDone
  <2>1. ExtremesRight' /\ FoundRight'
    BY <1>1 DEF RainInv, SortDone, ExtremesRight, FoundRight
  <2> QED  BY <1>1, <2>1 DEF RainInv, SortDone
<1>2. CASE Leave
  <2>1. ExtremesRight' /\ FoundRight'
    BY <1>2 DEF RainInv, Leave, ExtremesRight, FoundRight
  <2> QED  BY <1>2, <2>1 DEF RainInv, Leave
<1>3. CASE UNCHANGED rainVars
  <2>1. ExtremesRight' /\ FoundRight'
    BY <1>3 DEF RainInv, rainVars, ExtremesRight, FoundRight
  <2> QED  BY <1>3, <2>1 DEF RainInv, rainVars
<1> QED
  BY <1>1, <1>2, <1>3, LoadKeeps, PartAKeeps, PartBKeeps, QuickKeeps, PartCKeeps DEF RainNext

(* What the invariant says of the program's output.                        *)
LEMMA RainInvExact == RainInv => RainfallExact
<1> SUFFICES ASSUME RainInv PROVE RainfallExact
  OBVIOUS
<1>1. records \in Seq(Rec)
  BY DEF RainInv
<1>2. doing = "sort" => SameRecords(quickArr, records)
  BY <1>1, SameRearranged DEF RainInv, QuickHolds
<1>3. doing = "sort" /\ pending = <<>> => InOrder(quickArr)
  BY <1>1, QuickEnds DEF RainInv
<1>4. sortedRecords # <<>> =>
        SameRecords(sortedRecords, records) /\ InOrder(sortedRecords) /\ Stable(sortedRecords)
  BY <1>1, ListsSorted DEF RainInv, Stable
<1>5. ExtremesRight /\ FoundRight
  BY DEF RainInv
<1> QED  BY <1>2, <1>3, <1>4, <1>5 DEF RainfallExact, ExtremesRight, FoundRight

(* The rainfall program sorts, searches and finds the extremes right, for  *)
(* every table and every pivot the quick sort draws: doPartA, doPartB and  *)
(* doPartC of CSMCS26A017_Lab2_1.c.                                        *)
THEOREM RainfallRight == RainSpec => []RainfallExact
<1>1. RainSpec => []RainInv
  BY RainStarts, RainSteps, PTL DEF RainSpec
<1> QED  BY <1>1, RainInvExact, PTL
=============================================================================
