---- MODULE MCRegistrar ----
EXTENDS Registrar
====
