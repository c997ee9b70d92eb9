---- MODULE MCNameCache ----
EXTENDS NameCache

\* A tool alone, and with a second one that has a name in common with it.
Files == [id |-> "files", schemas |-> {"read"}]
Mail == [id |-> "mail", schemas |-> {"read"}]
MCRegistries == {{Files}, {Files, Mail}}
\* The default, and no cache.
MCTTLs == {0, -1}
====
