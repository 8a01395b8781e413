----------------------------- MODULE MCJobRuns -----------------------------
EXTENDS JobRuns, TLC

CONSTANTS i1, i2, cron1, manual1, cron2

\* Each instance fires at the trigger point, and the job is triggered by hand on
\* the first.
MCHome == cron1 :> i1 @@ manual1 :> i1 @@ cron2 :> i2
=============================================================================
