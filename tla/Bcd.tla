---- MODULE Bcd ----
(***************************************************************************)
(* A subscriber number on its way through a datagram: two digits to a      *)
(* byte, the first in the low half, and 15 in the place of a missing last  *)
(* digit.  Bytes are numbers below 256; a digit character is its value.    *)
(***************************************************************************)
EXTENDS Naturals, Sequences

Digit == 0..9
Filler == 15

(* Mutant: the halves of a byte change places.                             *)
imsi_to_bcd_mutant(imsi) ==
  [k \in 1..((Len(imsi) + 1) \div 2) |->
     16 * imsi[2 * k - 1] + (IF 2 * k <= Len(imsi) THEN imsi[2 * k] ELSE Filler)]

(* imsi_to_bcd (client.cpp).                                               *)
imsi_to_bcd(imsi) ==
  [k \in 1..((Len(imsi) + 1) \div 2) |->
     16 * (IF 2 * k <= Len(imsi) THEN imsi[2 * k] ELSE Filler) + imsi[2 * k - 1]]

(* What recvfrom leaves of a datagram in a buffer of `size` bytes.         *)
Received(bytes, size) == SubSeq(bytes, 1, IF Len(bytes) < size THEN Len(bytes) ELSE size)

(* The halves of the bytes, low ones first.                                *)
Nibbles(bytes) ==
  [j \in 1..(2 * Len(bytes)) |->
     IF j % 2 = 1 THEN bytes[(j + 1) \div 2] % 16 ELSE bytes[j \div 2] \div 16]

(* run_loop's decoding (udp_server.cpp): the number read from the first j  *)
(* halves.  Fillers are passed over wherever they are; 10 to 14 would give *)
(* the characters that follow '9'.                                         *)
DecodedImsi(bytes) ==
  LET nibbles == Nibbles(bytes)
      read[j \in 0..Len(nibbles)] ==
        IF j = 0 THEN <<>>
        ELSE IF nibbles[j] = Filler THEN read[j - 1]
        ELSE Append(read[j - 1], nibbles[j])
  IN read[Len(nibbles)]

====
