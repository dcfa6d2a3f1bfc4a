--------------------------- MODULE MCIdempotency ---------------------------
EXTENDS Idempotency

CONSTANTS w1, w2, key, body1, body2, small1, small2, large

MCWorkers == {w1, w2}
MCKeys == {key}
MCBodies == {body1, body2}
MCContents == {small1, small2, large}
MCLarge == {large}
NoneLarge == {}
=============================================================================
