---------------------------- MODULE LeechReplica ----------------------------
(***************************************************************************)
(* What leech promises about the tables of many hosts at one server: every *)
(* table of every host is at some version that the host committed, and     *)
(* only ever moves forward.  Tables move one at a time; nothing is said of *)
(* how a version gets to the server.  A fragile table may lose the rows of *)
(* any hosts at once, and a host has nothing there until it moves again.   *)
(***************************************************************************)
EXTENDS Naturals, Sequences

CONSTANTS Host, Table, State, Blank, Fragile, Lost

VARIABLES
    versions,   \* the committed versions of each host's tables
    reached,    \* the version each table of each host is at
    view        \* the rows of each table of each host, or Lost

vars == <<versions, reached, view>>

Version(h, n) == IF n = 0 THEN [t \in Table |-> Blank] ELSE versions[h][n]

Init ==
    /\ versions = [h \in Host |-> <<>>]
    /\ reached = [t \in Table |-> [h \in Host |-> 0]]
    /\ view = [t \in Table |-> [h \in Host |-> Blank]]

Publish ==
    /\ \E h \in Host, new \in [Table -> State] :
        versions' = [versions EXCEPT ![h] = Append(@, new)]
    /\ UNCHANGED <<reached, view>>

\* The rows of some hosts are lost.
Without(now, hosts) == [g \in Host |-> IF g \in hosts THEN Lost ELSE now[g]]

CatchUp ==
    /\ \E h \in Host, t \in Table : \E n \in reached[t][h]..Len(versions[h]) :
        /\ reached' = [reached EXCEPT ![t][h] = n]
        /\ \E hosts \in {{}} \cup (IF t \in Fragile THEN SUBSET Host ELSE {}) :
            view' = [view EXCEPT ![t] =
                        Without([@ EXCEPT ![h] = Version(h, n)[t]], hosts)]
    /\ UNCHANGED versions

Lose ==
    /\ \E t \in Table \cap Fragile, hosts \in SUBSET Host :
        view' = [view EXCEPT ![t] = Without(@, hosts)]
    /\ UNCHANGED <<versions, reached>>

Next == Publish \/ CatchUp \/ Lose

Spec == Init /\ [][Next]_vars

=============================================================================
