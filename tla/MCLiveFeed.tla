----------------------------- MODULE MCLiveFeed -----------------------------
EXTENDS LiveFeed
CONSTANTS s1, s2, s3, p1, p2
=============================================================================
