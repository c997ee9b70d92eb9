---- MODULE MCWSConn ----
\* Two calls of Write, one frame, a message or not, and a panic at the third
\* failed read instead of the thousandth.
EXTENDS WSConn

CONSTANTS w1, w2
====
