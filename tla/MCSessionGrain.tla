---- MODULE MCSessionGrain ----
EXTENDS SessionGrain
====
