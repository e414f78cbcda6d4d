------------------------------ MODULE MCUart2 ------------------------------
EXTENDS Uart2, TLC

\* Buffers are interchangeable; sound for safety properties.
BufferSymmetry == Permutations(Buffer)
=============================================================================
