----------------------------- MODULE DnsThread -----------------------------
(***************************************************************************)
(* The allocator thread of proxychains-ng (src/allocator_thread.c), which  *)
(* gives host names addresses of a reserved subnet.  Threads of the        *)
(* process and of its forked children ask it over one pair of pipes, under *)
(* a mutex in memory they share; the thread itself runs in the parent      *)
(* only.  An assertion that fails, or an exit, takes a whole process away  *)
(* and leaves mutex and pipes as they are.                                 *)
(*                                                                         *)
(* The mutex is initialised with no attributes (mutex.h:7), not as shared  *)
(* between processes: that it still excludes parent and child from each    *)
(* other, as glibc's does, is taken for granted; whether one that waits    *)
(* for it is woken is left open, as nothing here says that a wait ends.    *)
(***************************************************************************)
EXTENDS Naturals, Sequences

CONSTANTS
    Threads,  \* threads that ask
    NoOne,    \* no client
    Names,    \* host names
    NoName,   \* no name
    Length,   \* strlen of each name
    MsgMax,   \* MSG_LEN_MAX
    Limit     \* addresses of the subnet

ASSUME NoOneAssumption == NoOne \notin Threads
ASSUME NamesAssumption == NoName \notin Names
ASSUME LengthAssumption == Length \in [Names -> Nat] /\ MsgMax \in Nat
ASSUME LimitAssumption == Limit \in Nat

VARIABLES
    table,  \* internal_ips: the names in the order of their addresses
    lock,   \* internal_ips_lock
    req,    \* messages in req_pipefd
    resp,   \* messages in resp_pipefd
    at,     \* where a client is
    ask,    \* its question
    got,    \* its answer
    home,   \* the process of each client: the parent or the child
    gone    \* processes that have ended

dns == <<table, lock, req, resp, at, ask, got, home, gone>>

Procs == {"parent", "child"}

\* An address is a position in the table; 0 is IPT4_INVALID.
GetIp(n) == [type |-> "getip", name |-> n]
GetName(a) == [type |-> "getname", ip |-> a]
Addresses == 0..Limit
Questions == [type : {"getip"}, name : Names] \cup [type : {"getname"}, ip : Addresses]
Answers == Addresses \cup Names \cup {NoName}

\* Every variable has the values the code can give it.
DnsTypeOK ==
    /\ table \in Seq(Names)
    /\ lock \in Threads \cup {NoOne}
    /\ req \in Seq(Questions)
    /\ resp \in Seq(Answers)
    /\ at \in [Threads -> {"out", "enter", "send", "wait", "leave"}]
    /\ ask \in [Threads -> Questions]
    /\ got \in [Threads -> Answers]
    /\ home \in [Threads -> Procs]
    /\ gone \subseteq Procs

DnsInit ==
    /\ table = <<>>
    /\ lock = NoOne
    /\ req = <<>>
    /\ resp = <<>>
    /\ at = [c \in Threads |-> "out"]
    /\ ask = [c \in Threads |-> GetName(0)]
    /\ got = [c \in Threads |-> 0]
    /\ home \in [Threads -> Procs]
    /\ gone = {}

Move(c, from, to) ==
    /\ at[c] = from
    /\ home[c] \notin gone
    /\ at' = [at EXCEPT ![c] = to]

\* at_get_ip_for_host, at_get_host_for_ip
Enter(c, q) ==
    /\ Move(c, "out", "enter")
    /\ ask' = [ask EXCEPT ![c] = q]
    /\ UNCHANGED <<table, lock, req, resp, got, home, gone>>

\* Mutant of Acquire: no mutex, as when each process had one of its own.
AcquireUnlocked(c) ==
    /\ Move(c, "enter", "send")
    /\ lock' = c
    /\ UNCHANGED <<table, req, resp, ask, got, home, gone>>

Acquire(c) ==
    /\ Move(c, "enter", "send")
    /\ lock = NoOne
    /\ lock' = c
    /\ UNCHANGED <<table, req, resp, ask, got, home, gone>>

\* The length of the message is a name's with its terminator.
TooLong(q) == q.type = "getip" /\ Length[q.name] > MsgMax
OneTooLong(q) == q.type = "getip" /\ Length[q.name] = MsgMax

Send(c) ==
    /\ Move(c, "send", "wait")
    /\ ~TooLong(ask[c]) /\ ~OneTooLong(ask[c])
    /\ req' = Append(req, ask[c])
    /\ UNCHANGED <<table, lock, resp, ask, got, home, gone>>

(***************************************************************************)
(* A name longer than the message is refused, but the jump there skips the *)
(* initialisation of msg, whose type is then asserted: it may hold or not. *)
(* A name of exactly the maximal length fails the assertion of             *)
(* sendmessage, because its terminator counts too.                         *)
(***************************************************************************)
Refuse(c) ==
    /\ TooLong(ask[c])
    /\ Move(c, "send", "leave")
    /\ got' = [got EXCEPT ![c] = 0]
    /\ UNCHANGED <<table, lock, req, resp, ask, home, gone>>

SendAborts(c) ==
    /\ at[c] = "send" /\ home[c] \notin gone
    /\ TooLong(ask[c]) \/ OneTooLong(ask[c])
    /\ gone' = gone \cup {home[c]}
    /\ UNCHANGED <<table, lock, req, resp, at, ask, got, home>>

-----------------------------------------------------------------------------
(***************************************************************************)
(* threadfunc.                                                             *)
(***************************************************************************)
Reply(r) == req' = Tail(req) /\ resp' = Append(resp, r)

Serving(type) == "parent" \notin gone /\ req # <<>> /\ Head(req).type = type

\* Mutant of ServeKnown: the address is the position in the C array.
ServeKnownAtIndex ==
    /\ Serving("getip")
    /\ \E a \in DOMAIN table : table[a] = Head(req).name /\ Reply(a - 1)
    /\ UNCHANGED <<table, lock, at, ask, got, home, gone>>

\* ip_from_internal_list for a name of the table
ServeKnown ==
    /\ Serving("getip")
    /\ \E a \in DOMAIN table : table[a] = Head(req).name /\ Reply(a)
    /\ UNCHANGED <<table, lock, at, ask, got, home, gone>>

New(n) == \A a \in DOMAIN table : table[a] # n

ServeNew ==
    /\ Serving("getip")
    /\ New(Head(req).name)
    /\ Len(table) < Limit
    /\ table' = Append(table, Head(req).name)
    /\ Reply(Len(table) + 1)
    /\ UNCHANGED <<lock, at, ask, got, home, gone>>

\* No address is left, or no memory.
ServeNone ==
    /\ Serving("getip")
    /\ New(Head(req).name)
    /\ Reply(0)
    /\ UNCHANGED <<table, lock, at, ask, got, home, gone>>

\* string_from_internal_ip.  An answer without data reads as a failure, that is, no name.
ServeName ==
    /\ Serving("getname")
    /\ LET a == Head(req).ip
       IN /\ a \in DOMAIN table => Length[table[a]] + 1 < MsgMax
          /\ Reply(IF a \in DOMAIN table THEN table[a] ELSE NoName)
    /\ UNCHANGED <<table, lock, at, ask, got, home, gone>>

\* A name that just fitted the request does not fit the assertion here.
ServeAborts ==
    /\ Serving("getname")
    /\ Head(req).ip \in DOMAIN table
    /\ Length[table[Head(req).ip]] + 1 >= MsgMax
    /\ gone' = gone \cup {"parent"}
    /\ UNCHANGED <<table, lock, req, resp, at, ask, got, home>>

Serve == ServeKnown \/ ServeNew \/ ServeNone \/ ServeName \/ ServeAborts

-----------------------------------------------------------------------------
Receive(c) ==
    /\ Move(c, "wait", "leave")
    /\ resp # <<>>
    /\ got' = [got EXCEPT ![c] = Head(resp)]
    /\ resp' = Tail(resp)
    /\ UNCHANGED <<table, lock, req, ask, home, gone>>

Release(c) ==
    /\ Move(c, "leave", "out")
    /\ lock' = NoOne
    /\ UNCHANGED <<table, req, resp, ask, got, home, gone>>

ClientStep(c) ==
    Acquire(c) \/ Send(c) \/ Refuse(c) \/ SendAborts(c) \/ Receive(c) \/ Release(c)

\* A process ends, whatever its threads are doing.
Exits(p) ==
    /\ p \notin gone
    /\ gone' = gone \cup {p}
    /\ UNCHANGED <<table, lock, req, resp, at, ask, got, home>>

DnsNext ==
    \/ \E c \in Threads : ClientStep(c) \/ \E q \in Questions : Enter(c, q)
    \/ Serve
    \/ \E p \in Procs : Exits(p)

DnsSpec == DnsInit /\ [][DnsNext]_dns

-----------------------------------------------------------------------------
(***************************************************************************)
(* The name table the clients see.  A question is answered when the thread *)
(* writes to the pipe, or when it is refused for its length.               *)
(***************************************************************************)
Call(c) ==
    CASE at[c] = "out" -> [phase |-> "rest"]
      [] at[c] = "wait" /\ resp # <<>> ->
             [phase |-> "told", question |-> ask[c], answer |-> Head(resp)]
      [] at[c] = "leave" -> [phase |-> "told", question |-> ask[c], answer |-> got[c]]
      [] OTHER -> [phase |-> "asked", question |-> ask[c]]

Promised == INSTANCE NameTable WITH dict <- table, call <- [c \in Threads |-> Call(c)]

\* Threads and processes that share the mutex and the pipes, any of which may end at any
\* moment, are answered as if the table were asked and answered in one step: nobody gets
\* the answer to another's question, and no address changes its name
\* (src/tools/proxychains-ng/src/allocator_thread.c:267-300).
PromisedSpec == Promised!Spec
=============================================================================
