------------------------------- MODULE Base64 -------------------------------
(***************************************************************************)
(* base64_encode and base64_decode.  A character of base64_chars is its    *)
(* position 0..63 in that string; "=" is 64 and any other character more.  *)
(* Both loops fill a small array and flush it when it is full; the rest    *)
(* that does not fill it is padded with zeros.  The text and the bytes the *)
(* loops append to are given here by position.                             *)
(***************************************************************************)
EXTENDS Integers, Sequences

CONSTANTS Octets, MaxBytes   \* byte values, bound on the length of an input

ASSUME Base64Assumption == Octets \subseteq 0..255 /\ MaxBytes \in Nat

VARIABLE bytes   \* the input

Pad == 64

\* is_base64.
IsBase64(c) == c \in 0..63

\* char_array_3 to char_array_4.
Sextets(a) == <<a[1] \div 4,
                (a[1] % 4) * 16 + (a[2] \div 16),
                (a[2] % 16) * 4 + (a[3] \div 64),
                a[3] % 64>>

\* char_array_4 to char_array_3, whose elements are unsigned chars.
Triple(a) == <<(a[1] * 4 + ((a[2] \div 16) % 4)) % 256,
               ((a[2] % 16) * 16 + ((a[3] \div 4) % 16)) % 256,
               ((a[3] % 4) * 64 + a[4]) % 256>>

\* The chunk of size elements behind the first k chunks, filled with zeros.
Chunk(s, k, size) ==
    [i \in 1..size |-> IF k * size + i <= Len(s) THEN s[k * size + i] ELSE 0]

\* Mutant: the last group is one character short.
WrittenShort(n) == 4 * (n \div 3) + (n % 3)

\* A last group of i bytes makes i + 1 characters.
Written(n) == 4 * (n \div 3) + IF n % 3 = 0 THEN 0 ELSE (n % 3) + 1

\* Whole groups of four characters: those written, then "=".
Encode(in) ==
    [p \in 1..(4 * ((Len(in) + 2) \div 3)) |->
        IF p <= Written(Len(in)) THEN Sextets(Chunk(in, (p - 1) \div 4, 3))[((p - 1) % 4) + 1]
        ELSE Pad]

\* The loop of base64_decode stops at the first character that is not one of
\* the alphabet: how many there are before it.
Accepted(encoded) ==
    CHOOSE n \in 0..Len(encoded) :
        /\ \A p \in 1..n : IsBase64(encoded[p])
        /\ n < Len(encoded) => ~IsBase64(encoded[n + 1])

\* A last group of i characters makes i - 1 bytes.
Decode(encoded) ==
    LET n  == Accepted(encoded)
        in == SubSeq(encoded, 1, n)
    IN  [p \in 1..(3 * (n \div 4) + IF n % 4 = 0 THEN 0 ELSE (n % 4) - 1) |->
            Triple(Chunk(in, (p - 1) \div 3, 4))[((p - 1) % 3) + 1]]

Base64Init == bytes = <<>>

Base64Next == Len(bytes) < MaxBytes /\ \E b \in Octets : bytes' = Append(bytes, b)

Base64Spec == Base64Init /\ [][Base64Next]_bytes

\* Decoding what was encoded gives the bytes back for every length of the last
\* group; the text has whole groups of four; it may lose any part of its
\* padding, and decoding never depends on what follows the padding.
Base64Inverse ==
    LET text == Encode(bytes)
    IN  /\ Len(text) % 4 = 0
        /\ Decode(text) = bytes
        /\ \A l \in 0..Len(text) :
            (\A p \in (l + 1)..Len(text) : text[p] = Pad) => Decode(SubSeq(text, 1, l)) = bytes
        /\ Len(bytes) % 3 # 0 => Decode(text \o Encode(<<77>>)) = bytes
=============================================================================
