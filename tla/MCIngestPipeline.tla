--------------------------- MODULE MCIngestPipeline ---------------------------
EXTENDS IngestPipeline, TLC
CONSTANTS good, bad, h1, h2
Symmetry == Permutations(Handlers)
=============================================================================
