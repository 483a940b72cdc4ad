----------------------------- MODULE NameTable -----------------------------
(***************************************************************************)
(* What the remote DNS of proxychains-ng promises to the threads of a      *)
(* process and of its children: one table of names, in which a name gets   *)
(* the next address when it is first asked for and keeps it.  A question   *)
(* is answered at one moment between the call and its return.              *)
(***************************************************************************)
EXTENDS Naturals, Sequences

CONSTANTS
    Threads,  \* threads that ask
    Names,    \* host names
    NoName,   \* answer to an address that was never given out
    Limit     \* addresses there are

\* Addresses are positions in the table; 0 is IPT4_INVALID.
Addresses == 0..Limit
Questions == [type : {"getip"}, name : Names] \cup [type : {"getname"}, ip : Addresses]
Answers == Addresses \cup Names \cup {NoName}

VARIABLES
    dict,  \* names in the order of their addresses
    call   \* the call each client is in, with its question and its answer

vars == <<dict, call>>

Rest == [phase |-> "rest"]
Asked(q) == [phase |-> "asked", question |-> q]
Told(q, r) == [phase |-> "told", question |-> q, answer |-> r]

Init ==
    /\ dict = <<>>
    /\ call = [c \in Threads |-> Rest]

Ask(c) ==
    /\ call[c] = Rest
    /\ \E q \in Questions : call' = [call EXCEPT ![c] = Asked(q)]
    /\ UNCHANGED dict

\* The address of a known name; for a new one the next address, or none.
AddressOf(n, a) ==
    \/ /\ a \in DOMAIN dict /\ dict[a] = n
       /\ UNCHANGED dict
    \/ /\ \A i \in DOMAIN dict : dict[i] # n
       /\ \/ a = Len(dict) + 1 /\ dict' = Append(dict, n)
          \/ a = 0 /\ UNCHANGED dict

NameOf(a, n) ==
    /\ n = IF a \in DOMAIN dict THEN dict[a] ELSE NoName
    /\ UNCHANGED dict

Answer(c) ==
    /\ call[c].phase = "asked"
    /\ \E r \in Answers :
        LET q == call[c].question
        IN /\ call' = [call EXCEPT ![c] = Told(q, r)]
           /\ IF q.type = "getip" THEN AddressOf(q.name, r) ELSE NameOf(q.ip, r)

Return(c) ==
    /\ call[c].phase = "told"
    /\ call' = [call EXCEPT ![c] = Rest]
    /\ UNCHANGED dict

Next == \E c \in Threads : Ask(c) \/ Answer(c) \/ Return(c)

Spec == Init /\ [][Next]_vars
=============================================================================
