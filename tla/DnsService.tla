----------------------------- MODULE DnsService -----------------------------
(***************************************************************************)
(* What the resolver promises the callers of dns_gethostbyname, without    *)
(* table, retries or packets: a request that was accepted is answered by   *)
(* at most one callback, and there is no callback without a request.  The  *)
(* callback carries nothing, or the address of a name that was asked for   *)
(* and that resembles the requested one.                                   *)
(*                                                                         *)
(* More is not promised: dns_compare_name takes the first bytes of a name  *)
(* for the name.                                                           *)
(***************************************************************************)
EXTENDS Integers, Sequences

CONSTANTS
  Reqs,      \* the calls of dns_gethostbyname
  Name,      \* the host name each one asks for, a sequence of characters
  Dot,       \* the character between two labels
  NoAddr     \* the NULL address of a failed request

VARIABLES
  pending,   \* accepted and not yet answered
  reply      \* the last callback: the request, the name whose address it got,
             \* and how many characters of that name the answer spelt out

vars == <<pending, reply>>

Failed(r) == [req |-> r, ip |-> NoAddr, shown |-> 0]

Init == pending = {} /\ reply = Failed(NoAddr)

\* The first n characters of ans, but for the dots, are those of asked; where
\* asked ends, ans ends or has a dot, and what follows the dot is free.
Resembles(asked, ans, n) ==
  \A q \in 1 .. n :
    ans[q] # Dot => /\ q # Len(asked) + 1
                    /\ q <= Len(asked) => ans[q] = asked[q]

Accept(r) ==
  /\ r \notin pending
  /\ pending' = pending \cup {r}
  /\ UNCHANGED reply

Callback(r) ==
  /\ r \in pending
  /\ pending' = pending \ {r}
  /\ \/ reply' = Failed(r)
     \/ \E s \in Reqs : \E n \in 0 .. Len(Name[s]) :
          /\ Resembles(Name[r], Name[s], n)
          /\ reply' = [req |-> r, ip |-> Name[s], shown |-> n]

Next == \E r \in Reqs : Accept(r) \/ Callback(r)

Spec == Init /\ [][Next]_vars
=============================================================================
