------------------------------ MODULE MCReadDir ------------------------------
(* ReadDir instantiated for TLC: five names, "." and ".." first.            *)
EXTENDS ReadDir

MCNumNames == 5
MCFixedNames == {1, 2}
\* Every entry takes one unit of the reply buffer.
MCEntrySize == [n \in 1..MCNumNames |-> 1]
=============================================================================
