--------------------------- MODULE MCScanSampling ---------------------------
EXTENDS ScanSampling, TLC

MCRssi == {-90, -40}
MCSymmetry == Permutations(Badges) \cup Permutations(Beacons)
=============================================================================
