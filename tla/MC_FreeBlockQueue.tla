------------------------- MODULE MC_FreeBlockQueue -------------------------
EXTENDS FreeBlockQueue
=============================================================================
