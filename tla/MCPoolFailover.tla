-------------------------- MODULE MCPoolFailover --------------------------
EXTENDS PoolFailover

CONSTANTS a, b

\* Two members in both orders, the second time with one of them listed twice.
MCLists == {<<a, b>>, <<b, a, a>>}
=============================================================================
