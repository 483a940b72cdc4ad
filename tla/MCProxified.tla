---------------------------- MODULE MCProxified ----------------------------
(***************************************************************************)
(* Small instances of Proxified for TLC: one ordinary name and one that    *)
(* fits a request but not the answer to the reverse question, with the     *)
(* configuration file of proxy.exec; and, without remote DNS, the four     *)
(* chain types on three proxies and a round robin chain of one on two.     *)
(***************************************************************************)
EXTENDS Proxified, TLC

CONSTANTS n1, n2

File(type, n, max, remote) == [ct |-> type, count |-> n, max |-> max, dns |-> remote]

Files == {File("strict", 1, 1, TRUE)}
         \cup {File(type, 3, 2, FALSE) : type \in {"dynamic", "strict", "random", "round_robin"}}
         \cup {File("round_robin", 2, 1, FALSE)}

Lengths == (n1 :> 10) @@ (n2 :> 255)
=============================================================================
