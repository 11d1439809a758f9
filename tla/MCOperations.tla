---------------------------- MODULE MCOperations ----------------------------
(* Instances of Operations for TLC.                                        *)
EXTENDS Operations

CONSTANTS o1, o2, o3, o4, o5, i1, i2

\* o1 and o2 race for i1, o4 has i2 to itself, o3 is server-level work that
\* takes no lock.
MCTarget == [op \in Op |-> CASE op = o3 -> NoInstance [] op = o4 -> i2 [] OTHER -> i1]

\* In the shipped image (Dockerfile: ENTRYPOINT ["node", ...]) the manager is
\* always process 1 of its container.
ContainerPid == {1}

\* On a host, an incarnation gets a pid of its own or a recycled one.
HostPids == {1, 2}

=============================================================================
