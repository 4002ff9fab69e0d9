------------------------------- MODULE MCDhcp -------------------------------
\* Instances of Dhcp for TLC.
EXTENDS Dhcp

\* Four minutes, with time to renew twice and to rebind, and a lease too short for
\* that.
MCLeases == {[t0 |-> 240, t1 |-> 60, t2 |-> 180], [t0 |-> 20, t1 |-> -1, t2 |-> -1]}

=============================================================================
