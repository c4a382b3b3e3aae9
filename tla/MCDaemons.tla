----------------------------- MODULE MCDaemons -----------------------------
\* Two daemons that are both told the port compiled in, as they are unless tests
\* or an operator say otherwise, or ports of their own.
EXTENDS Daemons, TLC
CONSTANTS d1, d2, h1
Together == d1 :> "p45177" @@ d2 :> "p45177"
Apart == d1 :> "p45177" @@ d2 :> "p9"
Either == {Together, Apart}
MCEnabled == d1 :> {"otel", "hook"} @@ d2 :> {"hook"}
FromFile == [h \in Hook |-> NoPort]
============================================================================
