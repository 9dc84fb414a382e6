----------------------------- MODULE MCClassInit -----------------------------
\* A class, its superclass, and one that both <clinit> methods may use.
EXTENDS ClassInit, TLC

CONSTANTS sub, super, other

MCSuper == sub :> super @@ super :> NULL @@ other :> NULL
MCUses == sub :> {other, super} @@ super :> {sub} @@ other :> {}

=============================================================================
