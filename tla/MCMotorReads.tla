----------------------------- MODULE MCMotorReads -----------------------------
(***************************************************************************)
(* Two motors with different contents; words with header bytes in them, at *)
(* the ends of the range and with the sign bit; positions on both sides of *)
(* the encoder's zero.                                                     *)
(***************************************************************************)
EXTENDS MotorReads

Word2(address, word, i) == IF i = address + 1 THEN word % 256 ELSE word \div 256

\* A RAM with words w and v in its registers of two bytes, byte b in the others, and
\* another byte for TorqueEnable.
Ram(w, v, b) == [i \in 1 .. RamEnd |->
    IF i \in {57, 58} THEN Word2(56, w, i)
    ELSE IF i \in {43, 44} THEN Word2(42, v, i)
    ELSE IF i \in {59, 60} THEN Word2(58, v, i)
    ELSE IF i \in {61, 62} THEN Word2(60, w, i)
    ELSE IF i \in {70, 71} THEN Word2(69, v, i)
    ELSE IF i = 41 THEN 255 - b
    ELSE b]

MCRams == << Ram(65276, 65535, 255), Ram(33023, 7, 0) >>

MCLengths == {0, 1, 121, 252}

MCPositions == {0, 3, 100, 102, 2048, 3995, 4000, 4095}
===============================================================================
