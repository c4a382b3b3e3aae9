------------------------- MODULE MCTranscriptTail ---------------------------
EXTENDS TranscriptTail
CONSTANTS main, sub
MCOrder == <<main, sub>>
=============================================================================
