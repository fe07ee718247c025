------------------------- MODULE MCVolumeTeardown -------------------------
\* A pod to be admitted in one namespace, where the cache may lag, and one that runs in
\* another.
EXTENDS VolumeTeardown

CONSTANTS n1, n2, p1, p2

TwoPods == {<<n1, p1>>, <<n2, p2>>}
SecondPod == {<<n2, p2>>}
Lags == {<<"pv", n1>>}
===========================================================================
