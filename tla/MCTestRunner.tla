---------------------------- MODULE MCTestRunner ----------------------------
\* Two workers and three jobs: one is skipped, one is an example.
EXTENDS TestRunner

CONSTANTS w1, w2

TwoWorkers == {w1, w2}
OneSkipped == {2}
OneExample == {3}

\* A process passes, fails, has valgrind errors or crashes before or while it
\* writes its file; its output may not decode.
Result(code, file, decodes) == [code |-> code, file |-> file, decodes |-> decodes]

AllOutcomes ==
    {Result(0, TRUE, TRUE), Result(0, TRUE, FALSE), Result(1, TRUE, TRUE), Result(2, TRUE, TRUE),
     Result(3, FALSE, TRUE), Result(3, TRUE, FALSE), Result(3, FALSE, FALSE)}
=============================================================================
