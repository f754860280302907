---------------------------- MODULE MCHostPipeline ----------------------------
\* All tests of up to MaxIters iterations, the erroneous none included.
EXTENDS HostPipeline

CONSTANT MaxIters

MCJobs ==
  [ test : {"pair", "single"}, iters : 0 .. MaxIters, check : BOOLEAN,
    zeros : BOOLEAN ]
===============================================================================
