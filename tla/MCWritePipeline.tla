--------------------------- MODULE MCWritePipeline --------------------------
\* Instances of WritePipeline.
EXTENDS WritePipeline
=============================================================================
