------------------------------ MODULE MCLoader -------------------------------
\* Model-checking instances of Loader.
EXTENDS Loader, TLC

\* Every name is asked for by someone who can.
SomeNames ==
    (App :> {"app", "missing"}) @@ (Menu :> {"Apps", "missing"}) @@
    (Desktop :> {"app", "Apps", "missing"}) @@ (Applications :> {"app"}) @@
    [c \in Client |-> {"app"}]
=============================================================================
