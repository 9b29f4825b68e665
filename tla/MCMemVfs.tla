------------------------------- MODULE MCMemVfs -------------------------------
EXTENDS MemVfs
\* Signature 5, page size 3 or (as 1) 6, versions 2 (WAL).  The second image
\* has a page larger than itself, the third another signature.
MCImages == {<<5, 3, 2>>, <<5, 1, 2>>, <<4, 3, 2>>}
MCBuffers == {<<8>>}
===============================================================================
