------------------------------ MODULE Ciphers ------------------------------
(***************************************************************************)
(* caesar_cipher.c, substitution_cipher.c and rsa.c of Exp09 and Exp10:    *)
(* each encrypts a text and decrypts what it got.  A character of the      *)
(* first two is its case and its place from the 'A' of that case; what has *)
(* no place within the alphabet is no letter.  Those of RSA are bytes.     *)
(***************************************************************************)
EXTENDS Integers, SequencesExt

CONSTANTS Letters,        \* the size of the alphabet, 26
          Jobs            \* [cipher, key, text]: a shift, a sequence of places, or the pair <<p, q>>

ASSUME CiphersAssumption ==
    /\ Letters \in Nat \ {0}
    /\ \A j \in Jobs :
        /\ j.cipher \in {"caesar", "substitution", "rsa"}
        /\ j.cipher = "caesar" => j.key \in Int
        /\ j.cipher = "substitution" => j.key \in Seq(Int)
        /\ j.cipher # "rsa" => j.text \in Seq([upper : BOOLEAN, at : Int])

VARIABLES job, cstep,     \* the input; "start", "encrypted", "done" or "refused"
          cipher, plain   \* the encrypted and the decrypted text

cipherVars == <<job, cstep, cipher, plain>>

(* The remainder of C, which has the sign of the dividend. *)
Rem(a, b) == IF a >= 0 THEN a % b ELSE -((-a) % b)

-----------------------------------------------------------------------------
(* caesar_cipher.c *)

IsLetter(ch) == ch.at \in 0..(Letters - 1)
Mapped(text, Map(_)) ==
    [i \in DOMAIN text |-> IF IsLetter(text[i]) THEN [text[i] EXCEPT !.at = Map(@)] ELSE text[i]]

Normalized_bug(key) == Rem(key, Letters)
Normalized(key) == Rem(Rem(key, Letters) + Letters, Letters)
encrypt_caesar(text, key) == Mapped(text, LAMBDA at : Rem(at + Normalized(key), Letters))
decrypt_caesar(text, key) == Mapped(text, LAMBDA at : Rem(at - Normalized(key) + Letters, Letters))
brute_force_attack(text) == {decrypt_caesar(text, k) : k \in 1..(Letters - 1)}

-----------------------------------------------------------------------------
(* substitution_cipher.c *)

validate_key(key) ==
    /\ Len(key) = Letters
    /\ \A i \in DOMAIN key : key[i] \in 0..(Letters - 1) /\ \A j \in 1..(i - 1) : key[j] # key[i]
encrypt_substitution(text, key) == Mapped(text, LAMBDA at : key[at + 1])
reverse_key(key, place) == CHOOSE i \in 0..(Letters - 1) : key[i + 1] = place
decrypt_substitution(text, key) == Mapped(text, LAMBDA at : reverse_key(key, at))

-----------------------------------------------------------------------------
(* rsa.c *)

is_prime(n) ==
    /\ n > 1
    /\ n <= 3 \/ (n % 2 # 0 /\ n % 3 # 0)
    /\ \A i \in {k \in 5..n : k % 6 = 5 /\ k * k <= n} : n % i # 0 /\ n % (i + 2) # 0

(* gcd and the two coefficients. *)
ext_gcd(m, n) ==
    LET ext[a \in Nat, b \in Nat] ==
            IF b = 0 THEN [gcd |-> a, x |-> 1, y |-> 0]
            ELSE LET r == ext[b, a % b] IN [gcd |-> r.gcd, x |-> r.y, y |-> r.x - (a \div b) * r.y]
    IN  ext[m, n]
gcd(a, b) == ext_gcd(a, b).gcd

mod_inverse_bug(e, phi) == LET r == ext_gcd(e, phi) IN IF r.gcd # 1 THEN -1 ELSE Rem(r.x, phi)
mod_inverse(e, phi) ==
    LET r == ext_gcd(e, phi) IN IF r.gcd # 1 THEN -1 ELSE Rem(Rem(r.x, phi) + phi, phi)

mod_exp(m, e, mod) ==
    LET power[base \in Nat, exp \in Nat] ==
            IF exp = 0 THEN 1
            ELSE ((IF exp % 2 = 1 THEN base ELSE 1) * power[(base * base) % mod, exp \div 2]) % mod
    IN  power[m % mod, e]

modulus(key) == key[1] * key[2]
totient(key) == (key[1] - 1) * (key[2] - 1)
public(key) ==
    LET from[e \in Nat] == IF e < totient(key) /\ gcd(e, totient(key)) # 1 THEN from[e + 2] ELSE e
    IN  from[17]
private(key) == mod_inverse(public(key), totient(key))
Powers(text, e, n) == [i \in DOMAIN text |-> mod_exp(text[i], e, n)]

-----------------------------------------------------------------------------
CipherInit == job \in Jobs /\ cstep = "start" /\ cipher = <<>> /\ plain = <<>>

Accepts(j) ==
    CASE j.cipher = "caesar" -> TRUE
      [] j.cipher = "substitution" -> validate_key(j.key)
      [] OTHER -> is_prime(j.key[1]) /\ is_prime(j.key[2]) /\ private(j.key) >= 0

Encrypt ==
    /\ cstep = "start" /\ Accepts(job) /\ cstep' = "encrypted"
    /\ cipher' = CASE job.cipher = "caesar" -> encrypt_caesar(job.text, job.key)
                   [] job.cipher = "substitution" -> encrypt_substitution(job.text, job.key)
                   [] OTHER -> Powers(job.text, public(job.key), modulus(job.key))
    /\ UNCHANGED <<job, plain>>
Refuse ==
    /\ cstep = "start" /\ ~Accepts(job) /\ cstep' = "refused" /\ UNCHANGED <<job, cipher, plain>>
Decrypt ==
    /\ cstep = "encrypted" /\ cstep' = "done"
    /\ plain' = CASE job.cipher = "caesar" -> decrypt_caesar(cipher, job.key)
                  [] job.cipher = "substitution" -> decrypt_substitution(cipher, job.key)
                  [] OTHER -> [i \in DOMAIN cipher |-> mod_exp(cipher[i], private(job.key), modulus(job.key)) % 256]
    /\ UNCHANGED <<job, cipher>>

CipherNext == Encrypt \/ Refuse \/ Decrypt
CipherSpec == CipherInit /\ [][CipherNext]_cipherVars

-----------------------------------------------------------------------------
Prime(n) == n > 1 /\ \A k \in 2..(n - 1) : n % k # 0

(* The ciphers of letters give back what they encrypted, with any shift,   *)
(* negative and beyond the alphabet, and with every key validate_key lets  *)
(* through; they give letters of the same case, and the brute force meets  *)
(* the plain text unless it is unshifted.                                  *)
CiphersInvert ==
    job.cipher # "rsa" =>
        /\ cstep = "done" =>
            /\ plain = job.text
            /\ \A i \in DOMAIN cipher :
                IsLetter(cipher[i]) = IsLetter(job.text[i]) /\ cipher[i].upper = job.text[i].upper
            /\ job.cipher = "caesar" => job.text \in brute_force_attack(cipher) \cup {cipher}
        /\ cstep = "refused" => job.cipher # "caesar"

(* RSA takes primes only and refuses none; for two different ones the      *)
(* exponents are inverse and the bytes below the modulus come back.        *)
RsaInverts ==
    job.cipher = "rsa" =>
        /\ cstep = "done" =>
            /\ Prime(job.key[1]) /\ Prime(job.key[2])
            /\ job.key[1] # job.key[2] =>
                /\ (public(job.key) * private(job.key)) % totient(job.key) = 1 % totient(job.key)
                /\ \A i \in DOMAIN plain : job.text[i] < modulus(job.key) => plain[i] = job.text[i]
        /\ cstep = "refused" => ~(Prime(job.key[1]) /\ Prime(job.key[2]))
=============================================================================
