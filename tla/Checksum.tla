------------------------------ MODULE Checksum ------------------------------
(***************************************************************************)
(* The arithmetic of the Internet checksum: the partial sums of            *)
(* ipv4/ipv4_utils.cpp, their folding in ipv4/ipv4.hpp, and the correction *)
(* of a checksum in icmp_server/icmp_server.cpp.                           *)
(*                                                                         *)
(* A lane is a 16-bit word; it is summed up in a register of 17 bits.      *)
(*                                                                         *)
(* Definitions named Fault... are deliberate mistakes for mutation runs.   *)
(***************************************************************************)
EXTENDS Integers

CONSTANTS
    Base,           \* values of a lane, 2^16
    Lanes,          \* lanes in a word, 32, a power of two
    EchoRequest     \* what its type adds to a request, 8

ASSUME ChecksumAssumption ==
    /\ Base \in Nat \ {0, 1}
    /\ EchoRequest \in 0..(Base - 1)
    /\ Lanes \in {8, 16, 32}

Lane == 0..(Base - 1)
LaneWord == [0..(Lanes - 1) -> Lane]

-----------------------------------------------------------------------------
(* The header checksum. *)

\* sum[i] += temp; sum[i] = (sum[i] + (sum[i] >> 16)) & 0xFFFF
FaultEndAround(sum) == sum % Base
EndAround(sum) == (sum + sum \div Base) % Base
Plus(a, b) == EndAround((a + b) % (2 * Base))

\* The low bits of ~sum.
Complement(sum) == Base - 1 - sum

\* What is added of a packet's first word: its header alone, and for a new
\* checksum not the lane of the old one.
SubSums(word, headerLength, skipChecksum) ==
    [i \in 0..(Lanes - 1) |->
        IF i \div 2 < headerLength /\ ~(skipChecksum /\ i = 5) THEN Plus(0, word[i]) ELSE 0]

\* The upper lanes are added to the lower ones until one is left.
Half(sums, n) == [i \in 0..(n - 1) |-> Plus(sums[i], sums[i + n])]
Folded(sums) ==
    LET upTo16 == IF Lanes = 32 THEN Half(sums, 16) ELSE sums
        upTo8 == IF Lanes >= 16 THEN Half(upTo16, 8) ELSE upTo16
    IN  Half(Half(Half(upTo8, 4), 2), 1)[0]

CheckIpv4(word, headerLength) ==
    Complement(Folded(SubSums(word, headerLength, FALSE))) = 0

FinalizeIpv4(word, headerLength) ==
    Complement(Folded(SubSums(word, headerLength, TRUE)))

-----------------------------------------------------------------------------
(* The ICMP checksum of a reply, made from the request's: ~, minus the type  *)
(* with the borrow taken back, ~ again, in 17 bits.                          *)

Borrow(sum) == (sum - sum \div Base) % Base
ReplyChecksum(checksum) ==
    Complement(Borrow((Complement(checksum) - EchoRequest) % (2 * Base)))

-----------------------------------------------------------------------------
(* Ones' complement: a header is right when its lanes add up to a multiple   *)
(* of Base - 1, but not to nothing.                                          *)

Right(total) == total > 0 /\ total % (Base - 1) = 0

Total(word, lanes) ==
    LET total[n \in 0..lanes] == IF n = 0 THEN 0 ELSE total[n - 1] + word[n - 1]
    IN  total[lanes]
HeaderTotal(word, headerLength) == Total(word, 2 * headerLength)

\* The check of the receive path accepts the headers that are right and no
\* others, whatever follows the header in its word, and it accepts what the
\* transmit path makes of any header (ipv4_utils.cpp:474-576, ipv4.hpp:426-589).
ChecksumsAgree(word, headerLength) ==
    /\ CheckIpv4(word, headerLength) <=> Right(HeaderTotal(word, headerLength))
    /\ CheckIpv4([word EXCEPT ![5] = FinalizeIpv4(word, headerLength)], headerLength)

\* A reply's checksum is right when the request's was, whatever else the two
\* packets contain: the borrow never gets lost (icmp_server.cpp:68-101).
ReplyRight(rest, checksum) ==
    Right(EchoRequest + rest + checksum) => Right(rest + ReplyChecksum(checksum))
=============================================================================
