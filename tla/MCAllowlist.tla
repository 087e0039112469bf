---------------------------- MODULE MCAllowlist ----------------------------
\* A finite instance of Allowlist.
EXTENDS Allowlist

CONSTANT s1

\* The service on the list with and without its button, and off the list.
SomeChoices ==
    {[services |-> {s1}, dangerous |-> TRUE],
     [services |-> {s1}, dangerous |-> FALSE],
     [services |-> {}, dangerous |-> TRUE]}
=============================================================================
