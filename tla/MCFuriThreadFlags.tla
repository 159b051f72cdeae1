-------------------------- MODULE MCFuriThreadFlags --------------------------
\* Model-checking instances of FuriThreadFlags.
EXTENDS FuriThreadFlags

\* Waits for different flags by turns.
WaitByTurns ==
    [mask : {{f} : f \in Flag} \cup {Flag}, all : BOOLEAN, noclear : {FALSE},
     timeout : {"forever"}]

\* Any arguments.
WaitForAnything == [mask : SUBSET Flag \ {{}}, all : BOOLEAN, noclear : BOOLEAN,
                    timeout : {"zero", "finite", "forever"}]
=============================================================================
