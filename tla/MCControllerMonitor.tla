------------------------ MODULE MCControllerMonitor ------------------------
EXTENDS ControllerMonitor

\* Both thresholds, one value strictly between them and the extremes: every
\* comparison of the code with a threshold has its boundary value.
MCValues == {0, 25, 26, 49, 50, 100}
MCPress == 50
MCRelease == 25
\* 0 is never handed out by a live route, but is what ResetSource stores.
MCEpochs == {0, 1, 2}
=============================================================================
