----------------------------- MODULE MCBrowser -----------------------------
EXTENDS Browser, TLC

\* No address and no call is told apart.
BrowserSymmetry == Permutations(Urls) \union Permutations(Slots)
=============================================================================
