---- MODULE MCCredentialBroker ----
EXTENDS CredentialBroker, TLC

\* Keys are told apart by nothing but what happens to them.
KeySymmetry == Permutations(Keys)
====
