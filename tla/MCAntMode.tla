----------------------------- MODULE MCAntMode ------------------------------
\* AntMode for TLC.
EXTENDS AntModeLive

Readback(az, target, moving) ==
    [live |-> TRUE, az |-> az, target |-> target, moving |-> moving]

\* A rotator at the maintenance azimuth, and one on its way.
TwoRotators == {Readback(MaintenanceAz, NoAz, FALSE), Readback(90, NoAz, TRUE)}

\* A rotator on its way to the maintenance azimuth, and one an operator has turned away.
Nudges == {Readback(NoAz, MaintenanceAz, TRUE), Readback(270, 270, FALSE)}
=============================================================================
