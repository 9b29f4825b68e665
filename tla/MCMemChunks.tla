----------------------------- MODULE MCMemChunks ------------------------------
EXTENDS MemChunks
MCByte == 0..2
MCBuffers == {<<1>>, <<1, 2>>, <<2, 1, 2>>, <<1, 1, 2, 2>>}
==============================================================================
