---------------------------- MODULE MCHeaderCodec ----------------------------
EXTENDS HeaderCodec
\* The edges of the u16 range and a value whose two bytes differ.
MCU16Values == {0, 255, 258, 65535}
\* A value with four distinct bytes and the largest value TLC's 32-bit signed
\* integers hold: ack_bits with the top bit set is not sampled.
MCU32Values == {0, 16909060, 2147483647}
=============================================================================
