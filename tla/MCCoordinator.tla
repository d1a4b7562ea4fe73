--------------------------- MODULE MCCoordinator ---------------------------
(***************************************************************************)
(* Coordinator for TLC.  Names are sequences of characters, and priorities *)
(* are computed from them as node_priority() does, with Radix for 256 and  *)
(* Width for the 8 characters that fit into 64 bits.                       *)
(***************************************************************************)
EXTENDS Coordinator, SequencesExt

CONSTANTS
    c1, c2, c3,         \* the processes
    Radix,              \* number of characters
    Width,              \* characters an integer has room for
    MaxLength           \* bound: longest name

Char == 0..(Radix - 1)

Name == UNION {[1..k -> Char] : k \in 1..MaxLength}

\* Later characters push the first ones out of the integer.
node_priority(name) ==
    FoldLeft(LAMBDA p, ch : (p * Radix + ch) % Radix ^ Width, 0, name)

\* The priorities of all names.
MCPriority == [name \in Name |-> node_priority(name)]

\* Names as the constructor takes them, each process with its own: the priorities
\* follow the order of the processes.
OwnNames ==
    [c \in Coordinator |-> CASE c = c1 -> <<0, 2>> [] c = c2 -> <<1, 0>> [] OTHER -> <<2, 1>>]

\* Different names of one priority.
EqualPriority == [c \in Coordinator |-> IF c = c1 THEN <<1>> ELSE <<0, 1>>]

\* main() gives every process the name "coordinator-1".
SameName == [c \in Coordinator |-> <<1>>]

\* The name that the program as built sets, and the ways two names can differ.
AnyNames == {SameName, OwnNames, EqualPriority}

DistinctNames == {OwnNames}

NamesOfMain == {SameName}

\* Everybody is a peer of everybody else.
AllPeers == [c \in Coordinator |-> SetToSeq(Coordinator \ {c})]

\* m comes before n in the order of std::string.
Before(m, n) ==
    \/ IsStrictPrefix(m, n)
    \/ \E k \in 1..Len(m) \cap 1..Len(n) :
           m[k] < n[k] /\ \A j \in 1..(k - 1) : m[j] = n[j]

\* src/coordinator/coordinator_service.cpp: "Higher node_id lexicographically =
\* higher priority".  A peer whose name is higher does not refuse a candidate.
RefusalFollowsNames ==
    [][\A t \in Thread : AskRefused(t) => ~Before(node_id[t[1]], node_id[Callee(t)])]_vars

\* Names that differ only before their last Width characters.
LongNames == {[c \in Coordinator |-> IF c = c1 THEN <<0, 2, 1>> ELSE <<1, 2, 1>>]}
=============================================================================
