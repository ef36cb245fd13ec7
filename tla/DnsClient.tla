----------------------------- MODULE DnsClient ------------------------------
(***************************************************************************)
(* The lwIP resolver the SDK links (core/dns.c): the table of requests,    *)
(* its retry timer, and the matching of answers to entries by the          *)
(* transaction id, index + dns_random.                                     *)
(*                                                                         *)
(* lwIP runs in one task: a handler is one step.  dns_check_entries walks  *)
(* the table one entry per step, with nothing else in between (walk), as   *)
(* each entry may call back.  The network loses, delays, duplicates and    *)
(* reorders queries and answers: a query in net may be answered any number *)
(* of times, or never.                                                     *)
(*                                                                         *)
(* The fields of an entry that the code writes before it reads them again  *)
(* are reset when the entry leaves the state that uses them.               *)
(***************************************************************************)
EXTENDS Integers, FiniteSets, Sequences, WellFoundedInduction, TLAPS

CONSTANTS
  DNS_TABLE_SIZE,
  DNS_MAX_RETRIES,
  NumServers,    \* how many of dns_servers are set
  SeqnoMod,      \* 2^8 for the u8_t dns_seqno
  IdMod,         \* 2^16 for the transaction id
  Randoms,       \* what os_random() >> 16 may give
  MaxTtl,        \* the longest time to live, in seconds
  MaxNet,        \* the queries the network holds at a time
  DNS_MAX_NAME_LENGTH,
  Reqs, Name, NoAddr,  \* Name: the characters each request asks for
  Chars, Dot, Nul      \* the characters; the one between labels; the 0 byte

\* dns_gethostbyname refuses a name that is empty or too long.
NameAssumption ==
  /\ DNS_MAX_NAME_LENGTH \in Nat
  /\ Nul \notin Chars
  /\ \A r \in Reqs :
       Name[r] \in Seq(Chars) /\ Len(Name[r]) \in 1 .. DNS_MAX_NAME_LENGTH - 1

DnsAssumption ==
  /\ DNS_TABLE_SIZE \in Nat \ {0}
  /\ DNS_MAX_RETRIES \in Nat \ {0, 1}
  /\ NumServers \in Nat \ {0}
  /\ SeqnoMod \in Nat \ {0}
  /\ IdMod \in Nat \ {0} /\ DNS_TABLE_SIZE <= IdMod
  /\ Randoms \subseteq 0 .. IdMod - 1 /\ Randoms # {}
  /\ MaxTtl \in Nat
  /\ MaxNet \in Nat
  /\ NoAddr \notin Reqs
  /\ NameAssumption

VARIABLES
  dns_table,
  names,      \* the name[] of each entry, which outlives the entry
  dns_seqno,
  dns_random,
  walk,       \* the entry dns_check_entries looks at next; DNS_TABLE_SIZE: none
  net,        \* queries on their way to the server, or answers on theirs back
  refused,    \* the last request got ERR_MEM
  reply       \* the last callback

dnsVars == <<dns_table, names, dns_seqno, dns_random, walk, net, refused, reply>>

Index == 0 .. DNS_TABLE_SIZE - 1

\* The places of the array name[].
Places == 1 .. DNS_MAX_NAME_LENGTH

\* A callback with NULL.
Failed(r) == [req |-> r, ip |-> NoAddr, shown |-> 0]

\* age counts the timer ticks since the request; used by TimeoutBound only.
Unused == [state |-> "UNUSED", numdns |-> 0, tmr |-> 0, retries |-> 0,
           seqno |-> 0, ttl |-> 0, found |-> NoAddr, age |-> 0]

DnsInit ==
  /\ dns_table = [i \in Index |-> Unused]
  /\ names = [i \in Index |-> [q \in Places |-> Nul]]
  /\ dns_seqno = 0
  /\ dns_random = 0
  /\ walk = DNS_TABLE_SIZE
  /\ net = {}
  /\ refused = FALSE
  /\ reply = Failed(NoAddr)

Idle == walk = DNS_TABLE_SIZE

Asking == {i \in Index : dns_table[i].state = "ASKING"}

\* The requests that still expect their callback.
Pending == {dns_table[i].found : i \in Asking}

-----------------------------------------------------------------------------
(* Sending *)

\* dns_send draws a new dns_random for every query, then sends it; the query
\* may be lost (or the pbuf not be had).
dns_send(i, name) ==
  \E r \in Randoms :
    /\ dns_random' = r
    /\ \/ net' = net
       \/ /\ Cardinality(net) < MaxNet
          /\ net' = net \cup {[id |-> (i + r) % IdMod, name |-> name, by |-> i]}

-----------------------------------------------------------------------------
(* dns_enqueue *)

Free == {i \in Index : dns_table[i].state = "UNUSED"}

Lowest(S) == CHOOSE i \in S : \A j \in S : i <= j

\* The completed entries that look older than dns_seqno: the difference is
\* taken in int, so an entry from before the wrap of the u8_t has a negative
\* age and is passed over.
Older ==
  {i \in Index : dns_table[i].state = "DONE" /\ dns_seqno - dns_table[i].seqno > 0}

lseqiForgotten == 0

\* lseqi: the first of the oldest among them; 0 if there is none.
lseqi ==
  IF Older = {} THEN 0
  ELSE Lowest({i \in Older : \A j \in Older :
                 dns_table[j].seqno >= dns_table[i].seqno})

Slot == IF Free # {} THEN Lowest(Free) ELSE lseqi

TableFull == Free = {} /\ dns_table[lseqi].state # "DONE"

\* An entry as dns_enqueue fills it and dns_check_entry at once starts it.
Started(r) ==
  [state |-> "ASKING", numdns |-> 0, tmr |-> 1, retries |-> 0,
   seqno |-> dns_seqno, ttl |-> 0, found |-> r, age |-> 0]

\* MEMCPY of the name and a 0 byte: what an earlier, longer name left behind
\* the 0 stays.
Copied(buf, name) ==
  [q \in Places |-> IF q <= Len(name) THEN name[q]
                    ELSE IF q = Len(name) + 1 THEN Nul ELSE buf[q]]

dns_enqueue(r) ==
  /\ Idle
  /\ r \notin Pending
  /\ ~ TableFull
  /\ dns_table' = [dns_table EXCEPT ![Slot] = Started(r)]
  /\ names' = [names EXCEPT ![Slot] = Copied(@, Name[r])]
  /\ dns_seqno' = (dns_seqno + 1) % SeqnoMod
  /\ dns_send(Slot, Name[r])
  /\ refused' = FALSE
  /\ UNCHANGED <<walk, reply>>

\* ERR_MEM, "no entry can't be used now, table is full".
EnqueueFails(r) ==
  /\ Idle
  /\ r \notin Pending
  /\ TableFull
  /\ refused' = TRUE
  /\ UNCHANGED <<dns_table, names, dns_seqno, dns_random, walk, net, reply>>

dns_gethostbyname(r) == dns_enqueue(r) \/ EnqueueFails(r)

-----------------------------------------------------------------------------
(* The timer *)

dns_tmr ==
  /\ Idle
  /\ walk' = 0
  /\ UNCHANGED <<dns_table, names, dns_seqno, dns_random, net, refused, reply>>

Entry == dns_table[walk]

Aged == [Entry EXCEPT !.age = @ + 1]

\* --tmr did not reach 0.
StillWaiting ==
  /\ Entry.state = "ASKING"
  /\ Entry.tmr > 1
  /\ dns_table' = [dns_table EXCEPT ![walk] = [Aged EXCEPT !.tmr = @ - 1]]
  /\ UNCHANGED <<dns_random, net, reply>>

\* A retry, and a longer wait for the next one.
Retry ==
  /\ Entry.state = "ASKING"
  /\ Entry.tmr = 1
  /\ Entry.retries + 1 # DNS_MAX_RETRIES
  /\ dns_table' = [dns_table EXCEPT ![walk] =
                     [Aged EXCEPT !.retries = @ + 1, !.tmr = Entry.retries + 1]]
  /\ dns_send(walk, Name[Entry.found])
  /\ UNCHANGED reply

ChangeServerForever ==
  /\ Entry.state = "ASKING"
  /\ Entry.tmr = 1
  /\ Entry.retries + 1 = DNS_MAX_RETRIES
  /\ Entry.numdns + 1 < NumServers
  /\ dns_table' = [dns_table EXCEPT ![walk] =
                     [Entry EXCEPT !.tmr = 1, !.retries = 0, !.age = 0]]
  /\ UNCHANGED <<dns_random, net, reply>>

ChangeServer ==
  /\ Entry.state = "ASKING"
  /\ Entry.tmr = 1
  /\ Entry.retries + 1 = DNS_MAX_RETRIES
  /\ Entry.numdns + 1 < NumServers
  /\ dns_table' = [dns_table EXCEPT ![walk] =
                     [Aged EXCEPT !.numdns = @ + 1, !.tmr = 1, !.retries = 0]]
  /\ UNCHANGED <<dns_random, net, reply>>

\* No server answered: call back with NULL and flush the entry.
TimedOut ==
  /\ Entry.state = "ASKING"
  /\ Entry.tmr = 1
  /\ Entry.retries + 1 = DNS_MAX_RETRIES
  /\ Entry.numdns + 1 = NumServers
  /\ reply' = Failed(Entry.found)
  /\ dns_table' = [dns_table EXCEPT ![walk] = Unused]
  /\ UNCHANGED <<dns_random, net>>

\* A completed entry lives for ttl seconds.
Expire ==
  /\ Entry.state = "DONE"
  /\ dns_table' = [dns_table EXCEPT ![walk] =
                     IF Entry.ttl <= 1 THEN Unused
                     ELSE [Entry EXCEPT !.ttl = @ - 1]]
  /\ UNCHANGED <<dns_random, net, reply>>

SkipUnused ==
  /\ Entry.state = "UNUSED"
  /\ UNCHANGED <<dns_table, dns_random, net, reply>>

dns_check_entry ==
  /\ ~ Idle
  /\ walk' = walk + 1
  /\ StillWaiting \/ Retry \/ ChangeServer \/ TimedOut \/ Expire \/ SkipUnused
  /\ UNCHANGED <<names, dns_seqno, refused>>

-----------------------------------------------------------------------------
(* dns_recv *)

\* The entry an answer is for: i = hdr->id - dns_random, in u16_t.
EntryOf(p) == (p.id - dns_random) % IdMod

NameUnchecked(buf, ans, n) == TRUE

\* dns_compare_name: the labels of the answer's name, as far as it spells them
\* out (n characters), are compared byte by byte with name[]; the byte between
\* two labels is skipped, and a name that ends, or goes on with a compressed
\* label, matches.  No label is empty.
NameMatches(buf, ans, n) == \A q \in 1 .. n : ans[q] # Dot => buf[q] = ans[q]

\* How many characters of a name an answer may spell out: all of them, or some
\* labels and then a pointer.
Spelt(name) == {0, Len(name)} \cup {q \in 1 .. Len(name) : name[q] = Dot}

\* An address record: call back with it, and keep the entry for ttl seconds.
RecvAddress(p, ttl) ==
  LET e == dns_table[EntryOf(p)]
  IN  /\ \E n \in Spelt(p.name) :
           /\ NameMatches(names[EntryOf(p)], p.name, n)
           /\ reply' = [req |-> e.found, ip |-> p.name, shown |-> n]
      /\ dns_table' = [dns_table EXCEPT ![EntryOf(p)] =
           IF ttl = 0 THEN Unused
           ELSE [Unused EXCEPT !.state = "DONE", !.seqno = e.seqno, !.ttl = ttl]]

\* Another name, or no address record (responseerr): call back with NULL.
RecvNothing(p) ==
  /\ reply' = Failed(dns_table[EntryOf(p)].found)
  /\ dns_table' = [dns_table EXCEPT ![EntryOf(p)] = Unused]

\* An error in the flags: the entry is left alone (goto memerr).
RecvError(p) == UNCHANGED <<dns_table, reply>>

dns_recv(p) ==
  /\ Idle
  /\ EntryOf(p) \in Asking
  /\ \/ \E ttl \in 0 .. MaxTtl : RecvAddress(p, ttl)
     \/ RecvNothing(p)
     \/ RecvError(p)
  /\ net' \in {net, net \ {p}}
  /\ UNCHANGED <<names, dns_seqno, dns_random, walk, refused>>

\* A packet that is lost, or whose answer finds no entry that is asking.
Drop(p) ==
  /\ Idle
  /\ net' = net \ {p}
  /\ UNCHANGED <<dns_table, names, dns_seqno, dns_random, walk, refused, reply>>

-----------------------------------------------------------------------------

Timer == dns_tmr \/ dns_check_entry

DnsNext ==
  \/ \E r \in Reqs : dns_gethostbyname(r)
  \/ Timer
  \/ \E p \in net : dns_recv(p) \/ Drop(p)

\* sys_timeouts calls dns_tmr every second.  The network owes nothing.
DnsFairness == WF_dnsVars(Timer)

DnsSpec == DnsInit /\ [][DnsNext]_dnsVars /\ DnsFairness

-----------------------------------------------------------------------------
(* Properties *)

\* An entry that asks always has a timer to run down (tmr is a u8_t that
\* dns_check_entry decrements before it looks), a retry and a server left.
AskingEntry ==
  [state : {"ASKING"}, numdns : 0 .. NumServers - 1,
   tmr : 1 .. DNS_MAX_RETRIES, retries : 0 .. DNS_MAX_RETRIES - 1,
   seqno : 0 .. SeqnoMod - 1, ttl : {0}, found : Reqs, age : Nat]

DoneEntry ==
  [state : {"DONE"}, numdns : {0}, tmr : {0}, retries : {0},
   seqno : 0 .. SeqnoMod - 1, ttl : 1 .. MaxTtl, found : {NoAddr}, age : {0}]

\* Every accepted request is called back at most once, with NULL or with the
\* address of a name that resembles the one it asked for, as far as the answer
\* spelt it out, whatever late, duplicated or misdirected answers come in.
Service == INSTANCE DnsService WITH pending <- Pending
ImplementsService == Service!Spec

\* Every accepted request is called back in the end, even if no server ever
\* answers.
RequestAnswered == \A r \in Reqs : []<>(r \notin Pending)

\* ... after at most this many ticks of dns_tmr: 1 + 1 + 2 + ... per server.
Budget ==
  NumServers * (1 + (DNS_MAX_RETRIES * (DNS_MAX_RETRIES - 1)) \div 2)

\* The retry schedule never keeps a request beyond the budget.
TimeoutBound == \A i \in Index : dns_table[i].age < Budget

\* dns_enqueue refuses a request only if every entry is asking, or looks
\* younger than dns_seqno because it dates from before dns_seqno wrapped.
RefusalRight ==
  (refused' /\ ~ refused) =>
    \A i \in Index :
      \/ i \in Asking
      \/ dns_table[i].state = "DONE" /\ dns_table[i].seqno >= dns_seqno

\* No lookup is kept waiting too long, and none is refused without reason.
LookupsSound == [][RefusalRight /\ TimeoutBound']_dnsVars

\* dns_recv: "The ID in the DNS header should be our entry into the name
\* table": an answer is taken for the entry that sent the query.
IdNamesTheEntry == \A p \in net : p.by \in Asking => EntryOf(p) = p.by
-----------------------------------------------------------------------------
(* Proofs.  The callbacks are right because no two entries ask for the same *)
(* request, so the entry that calls back takes its request out of Pending,  *)
(* and because name[] begins with the name that is asked for and a 0 byte;  *)
(* the wait is bounded because an entry's age is fixed by its server, its   *)
(* retries and its timer.                                                   *)

TableEntry == AskingEntry \cup DoneEntry \cup {Unused}

\* The ticks one server may take.
PerServer == 1 + (DNS_MAX_RETRIES * (DNS_MAX_RETRIES - 1)) \div 2

\* Half the schedule: 1 + 1 + 2 + ... up to retries, less what tmr has left.
OnSchedule(e) ==
  2 * e.age <= 2 * (e.numdns * PerServer) + 2
                 + e.retries * (e.retries + 1) - 2 * e.tmr

TableInv ==
  /\ dns_table \in [Index -> TableEntry]
  /\ \A i, j \in Asking : dns_table[i].found = dns_table[j].found => i = j
  /\ \A i \in Asking : OnSchedule(dns_table[i])

\* name[] begins with the name its entry asks for, and a 0 byte.
Holds(buf, name) ==
  /\ \A q \in 1 .. Len(name) : buf[q] = name[q]
  /\ buf[Len(name) + 1] = Nul

NamesInv ==
  /\ names \in [Index -> [Places -> Chars \cup {Nul}]]
  /\ \A i \in Asking : Holds(names[i], Name[dns_table[i].found])

\* The packets are about names that were asked for.
NetInv == \A p \in net : \E s \in Reqs : p.name = Name[s]

\* The inductive invariant.
DnsInv ==
  /\ TableInv
  /\ NamesInv
  /\ NetInv
  /\ dns_seqno \in 0 .. SeqnoMod - 1
  /\ walk \in 0 .. DNS_TABLE_SIZE

-----------------------------------------------------------------------------

LEMMA LowestIn ==
  ASSUME NEW T, T \subseteq Nat, T # {}
  PROVE  Lowest(T) \in T /\ \A y \in T : Lowest(T) <= y
<1>1. PICK x \in T : \A y \in T : ~(<<y, x>> \in OpToRel(<, Nat))
  BY NatLessThanWellFounded, WFMin
<1>2. \A y \in T : ~(y < x)
  BY <1>1 DEF OpToRel
<1>3. \A y \in T : x <= y
  BY <1>2
<1> QED
  BY <1>3 DEF Lowest

LEMMA EntryFacts ==
  ASSUME DnsAssumption, NEW e \in TableEntry
  PROVE  /\ e.state \in {"ASKING", "DONE", "UNUSED"}
         /\ e.state = "ASKING" => e \in AskingEntry
         /\ e.state = "DONE" => e \in DoneEntry
         /\ e.state = "UNUSED" => e = Unused
BY DEF TableEntry, AskingEntry, DoneEntry, Unused

LEMMA UnusedEntry == Unused \in TableEntry /\ Unused.state # "ASKING"
BY DEF TableEntry, Unused

\* lseqi is the index of a completed entry if any looks older than dns_seqno,
\* so a full table is one in which none does.
LEMMA OldestDone ==
  ASSUME DnsAssumption, DnsInv
  PROVE  lseqi \in Index /\ (Older # {} => dns_table[lseqi].state = "DONE")
<1>1. CASE Older = {}
  BY <1>1 DEF lseqi, Index, DnsAssumption
<1>2. CASE Older # {}
  <2> DEFINE Ages == {dns_table[i].seqno : i \in Older}
             First == {i \in Older : \A j \in Older :
                          dns_table[j].seqno >= dns_table[i].seqno}
  <2>1. \A i \in Older : i \in Index /\ dns_table[i].seqno \in Nat
                            /\ dns_table[i].state = "DONE"
    <3> SUFFICES ASSUME NEW i \in Older
                 PROVE  i \in Index /\ dns_table[i].seqno \in Nat
                          /\ dns_table[i].state = "DONE"
      OBVIOUS
    <3>1. i \in Index /\ dns_table[i].state = "DONE"
      BY DEF Older
    <3>2. dns_table[i] \in TableEntry
      BY <3>1 DEF DnsInv, TableInv
    <3>3. dns_table[i] \in DoneEntry
      BY <3>1, <3>2, EntryFacts
    <3>4. dns_table[i].seqno \in 0 .. SeqnoMod - 1
      BY <3>3 DEF DoneEntry
    <3> QED
      BY <3>1, <3>4 DEF DnsAssumption
  <2>2. Ages \subseteq Nat /\ Ages # {}
    BY <1>2, <2>1
  <2>3. Lowest(Ages) \in Ages /\ \A s \in Ages : Lowest(Ages) <= s
    BY <2>2, LowestIn
  <2>4. PICK i \in Older : dns_table[i].seqno = Lowest(Ages)
    BY <2>3
  <2>5. \A j \in Older : dns_table[j].seqno >= dns_table[i].seqno
    BY <2>1, <2>3, <2>4
  <2>6. First # {} /\ First \subseteq Nat
    BY <2>1, <2>5 DEF Index
  <2>7. Lowest(First) \in First
    BY <2>6, LowestIn
  <2> QED
    BY <1>2, <2>1, <2>7 DEF lseqi
<1> QED
  BY <1>1, <1>2

\* dns_enqueue takes an entry that asks for nothing.
LEMMA SlotFree ==
  ASSUME DnsAssumption, DnsInv, ~ TableFull
  PROVE  Slot \in Index /\ Slot \notin Asking
<1>1. CASE Free # {}
  <2>1. Free \subseteq Nat
    BY DEF Free, Index
  <2>2. Lowest(Free) \in Free
    BY <1>1, <2>1, LowestIn
  <2> QED
    BY <1>1, <2>2 DEF Slot, Free, Asking
<1>2. CASE Free = {}
  BY <1>2, OldestDone DEF Slot, TableFull, Asking
<1> QED
  BY <1>1, <1>2

-----------------------------------------------------------------------------

\* What a step that writes one entry does to the table and to the requests
\* that are pending.
LEMMA Written ==
  ASSUME DnsAssumption, TableInv, NEW k \in Index, NEW e \in TableEntry,
         dns_table' = [dns_table EXCEPT ![k] = e],
         e.state = "ASKING" =>
           /\ OnSchedule(e)
           /\ \A j \in Asking \ {k} : dns_table[j].found # e.found
  PROVE  TableInv'
<1>1. dns_table' \in [Index -> TableEntry]
  BY DEF TableInv
<1>2. \A i \in Index : dns_table'[i] = IF i = k THEN e ELSE dns_table[i]
  BY DEF TableInv
<1>3. Asking' = {i \in Index : dns_table'[i].state = "ASKING"}
  BY DEF Asking
<1>4. \A i \in Asking' : i \in Index /\ (i # k => i \in Asking)
                           /\ (i = k => e.state = "ASKING")
  BY <1>2, <1>3 DEF Asking
<1>5. \A i, j \in Asking' : dns_table'[i].found = dns_table'[j].found => i = j
  <2> SUFFICES ASSUME NEW i \in Asking', NEW j \in Asking',
                      dns_table'[i].found = dns_table'[j].found, i # j
               PROVE  FALSE
    OBVIOUS
  <2>1. CASE i # k /\ j # k
    BY <1>2, <1>4, <2>1 DEF TableInv
  <2>2. CASE i = k
    BY <1>2, <1>4, <2>2
  <2>3. CASE j = k
    BY <1>2, <1>4, <2>3
  <2> QED
    BY <2>1, <2>2, <2>3
<1>6. \A i \in Asking' : OnSchedule(dns_table'[i])
  BY <1>2, <1>4 DEF TableInv
<1>7. \A i \in Asking' : OnSchedule(dns_table[i])'
  BY <1>6 DEF OnSchedule
<1> QED
  BY <1>1, <1>5, <1>7 DEF TableInv

LEMMA PendingSame ==
  ASSUME TableInv, NEW k \in Index, NEW e,
         dns_table' = [dns_table EXCEPT ![k] = e],
         e.state = "ASKING" <=> k \in Asking,
         k \in Asking => e.found = dns_table[k].found
  PROVE  Pending' = Pending
<1>1. \A i \in Index : dns_table'[i] = IF i = k THEN e ELSE dns_table[i]
  BY DEF TableInv
<1>2. Asking' = Asking
  BY <1>1 DEF Asking
<1>3. \A i \in Asking : dns_table'[i].found = dns_table[i].found
  BY <1>1 DEF Asking
<1> QED
  BY <1>2, <1>3 DEF Pending

LEMMA PendingLess ==
  ASSUME TableInv, NEW k \in Asking, NEW e,
         dns_table' = [dns_table EXCEPT ![k] = e],
         e.state # "ASKING"
  PROVE  /\ dns_table[k].found \in Pending
         /\ Pending' = Pending \ {dns_table[k].found}
<1>1. \A i \in Index : dns_table'[i] = IF i = k THEN e ELSE dns_table[i]
  BY DEF TableInv
<1>2. Asking' = Asking \ {k}
  BY <1>1 DEF Asking
<1>3. \A i \in Asking' : dns_table'[i].found = dns_table[i].found
  BY <1>1, <1>2 DEF Asking
<1>4. Pending' = {dns_table[i].found : i \in Asking \ {k}}
  BY <1>2, <1>3 DEF Pending
<1>5. \A i \in Asking \ {k} : dns_table[i].found # dns_table[k].found
  BY DEF TableInv
<1> QED
  BY <1>4, <1>5 DEF Pending

LEMMA PendingMore ==
  ASSUME TableInv, NEW k \in Index, k \notin Asking, NEW e,
         dns_table' = [dns_table EXCEPT ![k] = e],
         e.state = "ASKING"
  PROVE  Pending' = Pending \cup {e.found}
<1>1. \A i \in Index : dns_table'[i] = IF i = k THEN e ELSE dns_table[i]
  BY DEF TableInv
<1>2. Asking' = Asking \cup {k}
  BY <1>1 DEF Asking
<1>3. /\ \A i \in Asking : dns_table'[i].found = dns_table[i].found
      /\ dns_table'[k].found = e.found
  BY <1>1 DEF Asking
<1> QED
  BY <1>2, <1>3 DEF Pending

-----------------------------------------------------------------------------

LEMMA PerServerNat ==
  ASSUME DnsAssumption
  PROVE  /\ PerServer \in Nat \ {0}
         /\ DNS_MAX_RETRIES * (DNS_MAX_RETRIES - 1) + 1 <= 2 * PerServer
         /\ Budget = NumServers * PerServer
<1> DEFINE T == DNS_MAX_RETRIES * (DNS_MAX_RETRIES - 1)
<1>0. DNS_MAX_RETRIES \in Nat /\ DNS_MAX_RETRIES - 1 \in Nat
  BY DEF DnsAssumption
<1>1. T \in Nat
  BY <1>0
<1> HIDE DEF T
<1>2. T \div 2 \in Nat /\ T <= 2 * (T \div 2) + 1
  BY <1>1
<1>3. PerServer = 1 + T \div 2 /\ Budget = NumServers * PerServer
  BY DEF PerServer, Budget, T
<1>4. PerServer \in Nat \ {0} /\ T + 1 <= 2 * PerServer
  BY <1>1, <1>2, <1>3
<1> QED
  BY <1>3, <1>4 DEF T

\* An entry on schedule is within the budget.
LEMMA WithinBudget ==
  ASSUME DnsAssumption, TableInv
  PROVE  TimeoutBound
<1> SUFFICES ASSUME NEW i \in Index
             PROVE  dns_table[i].age < Budget
  BY DEF TimeoutBound
<1> DEFINE e == dns_table[i]
           M == DNS_MAX_RETRIES
<1>0. e \in TableEntry
  BY DEF TableInv
<1>1. PerServer \in Nat \ {0} /\ NumServers \in Nat \ {0} /\ M \in Nat \ {0, 1}
  BY PerServerNat DEF DnsAssumption
<1>2. Budget = NumServers * PerServer /\ M * (M - 1) + 1 <= 2 * PerServer
  BY PerServerNat
<1>3. CASE e.state # "ASKING"
  <2>1. e.age = 0
    BY <1>0, <1>3, EntryFacts DEF DoneEntry, Unused
  <2>2. NumServers * PerServer > 0
    BY <1>1
  <2> QED
    BY <1>2, <2>1, <2>2
<1>4. CASE e.state = "ASKING"
  <2>1. e \in AskingEntry
    BY <1>0, <1>4, EntryFacts
  <2>2. OnSchedule(e)
    BY <1>4 DEF TableInv, Asking
  <2>3. /\ e.numdns \in 0 .. NumServers - 1 /\ e.tmr \in Nat \ {0}
        /\ e.retries \in 0 .. M - 1 /\ e.age \in Nat
    BY <1>1, <2>1 DEF AskingEntry
  <2> HIDE DEF e, M
  <2>4. e.retries * (e.retries + 1) <= (M - 1) * M
    <3>1. \A a, b, p \in Nat : a <= b => a * p <= b * p /\ p * a <= p * b
      OBVIOUS
    <3>2. /\ e.retries \in Nat /\ e.retries + 1 \in Nat
          /\ M \in Nat /\ M - 1 \in Nat
          /\ e.retries <= M - 1 /\ e.retries + 1 <= M
      BY <1>1, <2>3
    <3>3. e.retries * (e.retries + 1) <= e.retries * M
      BY <3>1, <3>2
    <3>4. e.retries * M <= (M - 1) * M
      BY <3>1, <3>2
    <3> QED
      BY <3>2, <3>3, <3>4
  <2>5. (M - 1) * M = M * (M - 1) /\ M * (M - 1) \in Nat
    BY <1>1
  <2>6. e.numdns * PerServer <= NumServers * PerServer - PerServer
    <3>1. \A a, b, p \in Nat : a <= b => a * p <= b * p
      OBVIOUS
    <3>2. e.numdns * PerServer <= (NumServers - 1) * PerServer
      BY <1>1, <2>3, <3>1
    <3>3. (NumServers - 1) * PerServer = NumServers * PerServer - PerServer
      BY <1>1
    <3> QED
      BY <3>2, <3>3
  <2>7. /\ e.numdns * PerServer \in Nat /\ NumServers * PerServer \in Nat
        /\ e.retries * (e.retries + 1) \in Nat
    BY <1>1, <2>3
  <2>8. 2 * e.age <= 2 * (e.numdns * PerServer) + e.retries * (e.retries + 1)
    <3>1. \A a, x, y, t \in Nat :
            t # 0 /\ 2 * a <= 2 * x + 2 + y - 2 * t => 2 * a <= 2 * x + y
      OBVIOUS
    <3>2. 2 * e.age <= 2 * (e.numdns * PerServer) + 2
                         + e.retries * (e.retries + 1) - 2 * e.tmr
      BY <2>2 DEF OnSchedule
    <3> QED
      BY <2>3, <2>7, <3>1, <3>2
  <2>9. e.age < NumServers * PerServer
    BY <1>1, <1>2, <2>3, <2>4, <2>5, <2>6, <2>7, <2>8
  <2> QED
    BY <1>2, <2>9 DEF e
<1> QED
  BY <1>3, <1>4
-----------------------------------------------------------------------------
(* The steps. *)

\* The step is one of the service, or none.
Served == Service!Next \/ UNCHANGED <<Pending, reply>>

\* One entry keeps asking, on schedule, for what it asked for.
LEMMA KeepsAsking ==
  ASSUME DnsAssumption, TableInv, NEW k \in Asking, NEW e \in AskingEntry,
         dns_table' = [dns_table EXCEPT ![k] = e],
         e.found = dns_table[k].found, OnSchedule(e), UNCHANGED reply
  PROVE  TableInv' /\ Served
<1>1. k \in Index /\ e \in TableEntry /\ e.state = "ASKING"
  BY DEF Asking, AskingEntry, TableEntry
<1>2. \A j \in Asking \ {k} : dns_table[j].found # e.found
  BY DEF TableInv
<1>3. TableInv'
  BY <1>1, <1>2, Written
<1>4. Pending' = Pending
  BY <1>1, PendingSame
<1> QED
  BY <1>3, <1>4 DEF Served

\* One entry calls back, as the service may.
LEMMA CallsBack ==
  ASSUME DnsAssumption, TableInv, NEW k \in Asking, NEW e \in TableEntry,
         dns_table' = [dns_table EXCEPT ![k] = e], e.state # "ASKING",
         \/ reply' = Failed(dns_table[k].found)
         \/ \E s \in Reqs : \E n \in 0 .. Len(Name[s]) :
              /\ Service!Resembles(Name[dns_table[k].found], Name[s], n)
              /\ reply' = [req |-> dns_table[k].found, ip |-> Name[s], shown |-> n]
  PROVE  TableInv' /\ Served
<1> DEFINE r == dns_table[k].found
<1>1. k \in Index /\ dns_table[k] \in TableEntry /\ dns_table[k].state = "ASKING"
  BY DEF Asking, TableInv
<1>2. r \in Reqs
  BY <1>1, EntryFacts DEF AskingEntry
<1>3. TableInv'
  BY <1>1, Written
<1>4. r \in Pending /\ Pending' = Pending \ {r}
  BY PendingLess
<1>5. Service!Failed(r) = Failed(r)
  BY DEF Service!Failed, Failed
<1>6. Service!Callback(r)
  BY <1>4, <1>5 DEF Service!Callback
<1> QED
  BY <1>2, <1>3, <1>6 DEF Served, Service!Next

\* A step that leaves name[] alone, and no entry asks for something new.
LEMMA NamesKept ==
  ASSUME NamesInv, UNCHANGED names,
         \A i \in Asking' : i \in Asking /\ dns_table'[i].found = dns_table[i].found
  PROVE  NamesInv'
BY DEF NamesInv

\* ... as when it writes one entry, which asked for the same or asks no more.
LEMMA NamesKeptBy ==
  ASSUME DnsAssumption, DnsInv, UNCHANGED names, NEW k \in Index, NEW e,
         dns_table' = [dns_table EXCEPT ![k] = e],
         e.state = "ASKING" =>
           dns_table[k].state = "ASKING" /\ e.found = dns_table[k].found
  PROVE  NamesInv'
<1>1. \A i \in Index : dns_table'[i] = IF i = k THEN e ELSE dns_table[i]
  BY DEF DnsInv, TableInv
<1>2. Asking' = {i \in Index : dns_table'[i].state = "ASKING"}
  BY DEF Asking
<1>3. \A i \in Asking' : i \in Asking /\ dns_table'[i].found = dns_table[i].found
  BY <1>1, <1>2 DEF Asking
<1> QED
  BY <1>3, NamesKept DEF DnsInv

\* What dns_send puts on the network is about a name that was asked for.
LEMMA SendKeepsNet ==
  ASSUME NetInv, NEW i, NEW r \in Reqs, dns_send(i, Name[r])
  PROVE  NetInv'
BY DEF NetInv, dns_send

\* The name is copied in front of what was there.
LEMMA CopiedHolds ==
  ASSUME DnsAssumption, NEW buf \in [Places -> Chars \cup {Nul}], NEW r \in Reqs
  PROVE  /\ Copied(buf, Name[r]) \in [Places -> Chars \cup {Nul}]
         /\ Holds(Copied(buf, Name[r]), Name[r])
<1>1. /\ Name[r] \in Seq(Chars) /\ Len(Name[r]) \in Nat
      /\ Len(Name[r]) + 1 \in Places /\ DNS_MAX_NAME_LENGTH \in Nat
  BY DEF DnsAssumption, NameAssumption, Places
<1>2. \A q \in 1 .. Len(Name[r]) : q \in Places /\ Name[r][q] \in Chars
  BY <1>1 DEF Places
<1>3. \A q \in Places : q <= Len(Name[r]) => q \in 1 .. Len(Name[r])
  BY <1>1 DEF Places
<1>4. \A q \in Places : Copied(buf, Name[r])[q] \in Chars \cup {Nul}
  BY <1>1, <1>2, <1>3 DEF Copied
<1>5. Copied(buf, Name[r]) \in [Places -> Chars \cup {Nul}]
  BY <1>4 DEF Copied
<1>6. \A q \in 1 .. Len(Name[r]) : Copied(buf, Name[r])[q] = Name[r][q]
  BY <1>1, <1>2 DEF Copied
<1>7. Copied(buf, Name[r])[Len(Name[r]) + 1] = Nul
  BY <1>1 DEF Copied
<1> QED
  BY <1>5, <1>6, <1>7 DEF Holds

\* What matches name[] resembles the name it begins with.
LEMMA MatchResembles ==
  ASSUME DnsAssumption, NEW r \in Reqs, NEW s \in Reqs, NEW buf,
         Holds(buf, Name[r]), NEW n \in 0 .. Len(Name[s]),
         NameMatches(buf, Name[s], n)
  PROVE  Service!Resembles(Name[r], Name[s], n)
<1>1. /\ Name[r] \in Seq(Chars) /\ Len(Name[r]) \in Nat
      /\ Name[s] \in Seq(Chars) /\ Len(Name[s]) \in Nat /\ Nul \notin Chars
  BY DEF DnsAssumption, NameAssumption
<1> SUFFICES ASSUME NEW q \in 1 .. n, Name[s][q] # Dot
             PROVE  /\ q # Len(Name[r]) + 1
                    /\ q <= Len(Name[r]) => Name[s][q] = Name[r][q]
  BY DEF Service!Resembles
<1>2. buf[q] = Name[s][q] /\ Name[s][q] \in Chars /\ q \in 1 .. Len(Name[s])
  BY <1>1 DEF NameMatches
<1>3. q # Len(Name[r]) + 1
  BY <1>1, <1>2 DEF Holds
<1>4. ASSUME q <= Len(Name[r]) PROVE Name[s][q] = Name[r][q]
  BY <1>1, <1>2, <1>4 DEF Holds
<1> QED
  BY <1>3, <1>4

LEMMA EnqueueServes ==
  ASSUME DnsAssumption, DnsInv, NEW r \in Reqs, dns_enqueue(r)
  PROVE  DnsInv' /\ Served
<1> DEFINE e == Started(r)
<1>1. Slot \in Index /\ Slot \notin Asking
  BY SlotFree DEF dns_enqueue
<1>2. e \in AskingEntry
  BY DEF AskingEntry, Started, DnsInv, DnsAssumption
<1>3. e \in TableEntry /\ e.state = "ASKING" /\ e.found = r
  BY <1>2 DEF TableEntry, Started
<1>4. OnSchedule(e)
  BY PerServerNat DEF OnSchedule, Started
<1>5. dns_table' = [dns_table EXCEPT ![Slot] = e] /\ r \notin Pending
  BY DEF dns_enqueue
<1>6. \A j \in Asking \ {Slot} : dns_table[j].found # r
  BY <1>5 DEF Pending
<1> HIDE DEF e
<1>7. TableInv'
  BY <1>1, <1>3, <1>4, <1>5, <1>6, Written DEF DnsInv
<1>8. Pending' = Pending \cup {r}
  BY <1>1, <1>3, <1>5, PendingMore DEF DnsInv
<1>9. Service!Accept(r)
  BY <1>5, <1>8 DEF Service!Accept, dns_enqueue
<1>10. dns_seqno' \in 0 .. SeqnoMod - 1 /\ walk' \in 0 .. DNS_TABLE_SIZE
  BY DEF dns_enqueue, DnsInv, DnsAssumption
<1>11. NetInv'
  BY SendKeepsNet DEF dns_enqueue, DnsInv
<1>12. NamesInv'
  <2>1. names \in [Index -> [Places -> Chars \cup {Nul}]]
    BY DEF DnsInv, NamesInv
  <2>2. names' = [names EXCEPT ![Slot] = Copied(names[Slot], Name[r])]
    BY DEF dns_enqueue
  <2>3. /\ Copied(names[Slot], Name[r]) \in [Places -> Chars \cup {Nul}]
        /\ Holds(Copied(names[Slot], Name[r]), Name[r])
    BY <1>1, <2>1, CopiedHolds
  <2>4. names' \in [Index -> [Places -> Chars \cup {Nul}]]
    BY <2>1, <2>2, <2>3
  <2>5. \A i \in Index :
          /\ dns_table'[i] = IF i = Slot THEN e ELSE dns_table[i]
          /\ names'[i] = IF i = Slot THEN Copied(names[Slot], Name[r]) ELSE names[i]
    BY <1>5, <2>1, <2>2 DEF DnsInv, TableInv
  <2>6. Asking' = {i \in Index : dns_table'[i].state = "ASKING"}
    BY DEF Asking
  <2>7. ASSUME NEW i \in Asking'
        PROVE  Holds(names'[i], Name[dns_table'[i].found])
    <3>1. CASE i = Slot
      BY <1>1, <1>3, <2>3, <2>5, <3>1
    <3>2. CASE i # Slot
      BY <2>5, <2>6, <3>2 DEF DnsInv, NamesInv, Asking
    <3> QED
      BY <3>1, <3>2
  <2> QED
    BY <2>4, <2>7 DEF NamesInv
<1> QED
  BY <1>7, <1>9, <1>10, <1>11, <1>12 DEF DnsInv, Served, Service!Next

LEMMA CheckServes ==
  ASSUME DnsAssumption, DnsInv, dns_check_entry
  PROVE  DnsInv' /\ Served
<1> DEFINE M == DNS_MAX_RETRIES
<1>1. walk \in Index /\ walk' \in 0 .. DNS_TABLE_SIZE
  BY DEF dns_check_entry, Idle, DnsInv, Index, DnsAssumption
<1>2. TableInv /\ Entry \in TableEntry
  BY <1>1 DEF DnsInv, TableInv, Entry
<1> SUFFICES TableInv' /\ NamesInv' /\ NetInv' /\ Served
  BY <1>1 DEF DnsInv, dns_check_entry
<1>a. UNCHANGED names
  BY DEF dns_check_entry
<1>b. NetInv'
  BY <1>1, <1>2, EntryFacts, SendKeepsNet
     DEF dns_check_entry, StillWaiting, Retry, ChangeServer, TimedOut, Expire,
         SkipUnused, DnsInv, NetInv, AskingEntry
<1>3. ASSUME Entry.state = "ASKING"
      PROVE  /\ walk \in Asking /\ Entry \in AskingEntry /\ OnSchedule(Entry)
             /\ Entry.numdns \in 0 .. NumServers - 1 /\ Entry.tmr \in 1 .. M
             /\ Entry.retries \in 0 .. M - 1 /\ Entry.age \in Nat
             /\ M \in Nat \ {0, 1} /\ NumServers \in Nat \ {0}
             /\ Aged \in AskingEntry /\ Aged.age = Entry.age + 1
             /\ Aged.numdns = Entry.numdns /\ Aged.tmr = Entry.tmr
             /\ Aged.retries = Entry.retries /\ Aged.found = Entry.found
  <2>1. walk \in Asking
    BY <1>1, <1>3 DEF Asking, Entry
  <2>2. Entry \in AskingEntry
    BY <1>2, <1>3, EntryFacts
  <2>3. OnSchedule(Entry)
    BY <1>2, <2>1 DEF TableInv, Entry
  <2>4. /\ Aged \in AskingEntry /\ Aged.age = Entry.age + 1
        /\ Aged.numdns = Entry.numdns /\ Aged.tmr = Entry.tmr
        /\ Aged.retries = Entry.retries /\ Aged.found = Entry.found
    BY <2>2 DEF AskingEntry, Aged
  <2> QED
    BY <2>1, <2>2, <2>3, <2>4 DEF AskingEntry, DnsAssumption
<1>4. PerServer \in Nat \ {0} /\ M * (M - 1) + 1 <= 2 * PerServer
  BY PerServerNat
<1>5. CASE StillWaiting
  <2> DEFINE e == [Aged EXCEPT !.tmr = @ - 1]
  <2>1. /\ dns_table' = [dns_table EXCEPT ![walk] = e]
        /\ UNCHANGED reply /\ Entry.tmr > 1 /\ Entry.state = "ASKING"
    BY <1>5 DEF StillWaiting
  <2>2. /\ e \in AskingEntry /\ e.found = Entry.found
        /\ e.age = Entry.age + 1 /\ e.tmr = Entry.tmr - 1
        /\ e.numdns = Entry.numdns /\ e.retries = Entry.retries
    BY <1>3, <2>1 DEF AskingEntry
  <2>3. OnSchedule(e)
    BY <1>3, <1>4, <2>1, <2>2 DEF OnSchedule
  <2> QED
    BY <1>1, <1>2, <1>3, <1>a, <1>b, <2>1, <2>2, <2>3, KeepsAsking, NamesKeptBy
       DEF Entry
<1>6. CASE Retry
  <2> DEFINE e == [Aged EXCEPT !.retries = @ + 1, !.tmr = Entry.retries + 1]
  <2>1. /\ dns_table' = [dns_table EXCEPT ![walk] = e]
        /\ UNCHANGED reply /\ Entry.tmr = 1 /\ Entry.state = "ASKING"
        /\ Entry.retries + 1 # M
    BY <1>6 DEF Retry
  <2>2. /\ e \in AskingEntry /\ e.found = Entry.found
        /\ e.age = Entry.age + 1 /\ e.tmr = Entry.retries + 1
        /\ e.numdns = Entry.numdns /\ e.retries = Entry.retries + 1
    <3>1. Entry.retries + 1 \in 0 .. M - 1 /\ Entry.retries + 1 \in 1 .. M
      BY <1>3, <2>1
    <3>2. Aged \in AskingEntry
      BY <1>3, <2>1
    <3> QED
      BY <1>3, <2>1, <3>1, <3>2 DEF AskingEntry
  <2>3. OnSchedule(e)
    BY <1>3, <1>4, <2>1, <2>2 DEF OnSchedule
  <2> QED
    BY <1>1, <1>2, <1>3, <1>a, <1>b, <2>1, <2>2, <2>3, KeepsAsking, NamesKeptBy
       DEF Entry
<1>7. CASE ChangeServer
  <2> DEFINE e == [Aged EXCEPT !.numdns = @ + 1, !.tmr = 1, !.retries = 0]
  <2>1. /\ dns_table' = [dns_table EXCEPT ![walk] = e]
        /\ UNCHANGED reply /\ Entry.tmr = 1 /\ Entry.state = "ASKING"
        /\ Entry.retries + 1 = M /\ Entry.numdns + 1 < NumServers
    BY <1>7 DEF ChangeServer
  <2>2. /\ e \in AskingEntry /\ e.found = Entry.found
        /\ e.age = Entry.age + 1 /\ e.tmr = 1
        /\ e.numdns = Entry.numdns + 1 /\ e.retries = 0
    <3>1. /\ Entry.numdns + 1 \in 0 .. NumServers - 1
          /\ 0 \in 0 .. M - 1 /\ 1 \in 1 .. M
      BY <1>3, <2>1
    <3>2. Aged \in AskingEntry
      BY <1>3, <2>1
    <3> QED
      BY <1>3, <2>1, <3>1, <3>2 DEF AskingEntry
  <2>3. OnSchedule(e)
    <3>1. \A a, x, p, t \in Nat :
            2 * a <= 2 * x + t /\ t + 1 <= 2 * p => 2 * (a + 1) <= 2 * (x + p)
      OBVIOUS
    <3>2. 2 * Entry.age <= 2 * (Entry.numdns * PerServer) + M * (M - 1)
      BY <1>3, <1>4, <2>1 DEF OnSchedule
    <3>3. M * (M - 1) \in Nat /\ Entry.numdns * PerServer \in Nat
      BY <1>3, <1>4, <2>1
    <3>4. 2 * (Entry.age + 1) <= 2 * (Entry.numdns * PerServer + PerServer)
      BY <1>3, <1>4, <2>1, <3>1, <3>2, <3>3
    <3>5. (Entry.numdns + 1) * PerServer = Entry.numdns * PerServer + PerServer
      BY <1>3, <1>4, <2>1
    <3> QED
      BY <2>2, <3>3, <3>4, <3>5, <1>3, <1>4, <2>1 DEF OnSchedule
  <2> QED
    BY <1>1, <1>2, <1>3, <1>a, <1>b, <2>1, <2>2, <2>3, KeepsAsking, NamesKeptBy
       DEF Entry
<1>8. CASE TimedOut
  <2>1. NamesInv'
    BY <1>1, <1>8, <1>a, UnusedEntry, NamesKeptBy DEF TimedOut
  <2> QED
    BY <1>2, <1>3, <1>8, <1>b, <2>1, UnusedEntry, CallsBack DEF TimedOut, Entry
<1>9. CASE Expire
  <2> DEFINE e == IF Entry.ttl <= 1 THEN Unused ELSE [Entry EXCEPT !.ttl = @ - 1]
  <2>1. /\ dns_table' = [dns_table EXCEPT ![walk] = e]
        /\ UNCHANGED reply /\ Entry.state = "DONE"
    BY <1>9 DEF Expire
  <2>2. Entry \in DoneEntry
    BY <1>2, <2>1, EntryFacts
  <2>3. e \in TableEntry /\ e.state # "ASKING"
    BY <2>2, UnusedEntry DEF DoneEntry, TableEntry, DnsAssumption
  <2> HIDE DEF e
  <2>4. TableInv'
    BY <1>1, <1>2, <2>1, <2>3, Written
  <2>5. Pending' = Pending
    BY <1>1, <1>2, <2>1, <2>3, PendingSame DEF Asking, Entry
  <2>6. NamesInv'
    BY <1>1, <1>a, <2>1, <2>3, NamesKeptBy
  <2> QED
    BY <1>b, <2>1, <2>4, <2>5, <2>6 DEF Served
<1>10. CASE SkipUnused
  BY <1>2, <1>10, <1>a, <1>b
     DEF SkipUnused, TableInv, NamesInv, Asking, Pending, Served, DnsInv
<1> QED
  BY <1>5, <1>6, <1>7, <1>8, <1>9, <1>10 DEF dns_check_entry

LEMMA RecvServes ==
  ASSUME DnsAssumption, DnsInv, NEW p \in net, dns_recv(p)
  PROVE  DnsInv' /\ Served
<1> DEFINE k == EntryOf(p)
<1>1. k \in Asking /\ UNCHANGED <<dns_seqno, walk>>
  BY DEF dns_recv
<1>2. TableInv /\ dns_table[k] \in AskingEntry
  BY <1>1, EntryFacts DEF DnsInv, TableInv, Asking
<1>a. UNCHANGED names /\ k \in Index
  BY <1>1 DEF dns_recv, Asking
<1>b. NetInv'
  BY DEF dns_recv, DnsInv, NetInv
<1> SUFFICES TableInv' /\ NamesInv' /\ Served
  BY <1>1, <1>b DEF DnsInv
<1> HIDE DEF k
<1>3. ASSUME NEW ttl \in 0 .. MaxTtl, RecvAddress(p, ttl)
      PROVE  TableInv' /\ NamesInv' /\ Served
  <2> DEFINE e == IF ttl = 0 THEN Unused
                  ELSE [Unused EXCEPT !.state = "DONE",
                          !.seqno = dns_table[k].seqno, !.ttl = ttl]
  <2>1. PICK n \in Spelt(p.name) :
          /\ NameMatches(names[k], p.name, n)
          /\ reply' = [req |-> dns_table[k].found, ip |-> p.name, shown |-> n]
    BY <1>3 DEF RecvAddress, k
  <2>a. dns_table' = [dns_table EXCEPT ![k] = e]
    BY <1>3 DEF RecvAddress, k
  <2>b. PICK s \in Reqs : p.name = Name[s]
    BY DEF DnsInv, NetInv
  <2>c. n \in 0 .. Len(Name[s])
    BY <2>1, <2>b DEF Spelt, DnsAssumption, NameAssumption
  <2>d. dns_table[k].found \in Reqs
    BY <1>2 DEF AskingEntry
  <2>e. Service!Resembles(Name[dns_table[k].found], Name[s], n)
    <3>1. Holds(names[k], Name[dns_table[k].found])
      BY <1>1 DEF DnsInv, NamesInv
    <3> QED
      BY <2>1, <2>b, <2>c, <2>d, <3>1, MatchResembles
  <2>2. dns_table[k].seqno \in 0 .. SeqnoMod - 1
    BY <1>2 DEF AskingEntry
  <2>3. e \in TableEntry /\ e.state # "ASKING"
    <3>1. CASE ttl = 0
      BY <3>1, UnusedEntry
    <3>2. CASE ttl # 0
      <4>1. ttl \in 1 .. MaxTtl
        BY <3>2 DEF DnsAssumption
      <4>2. e = [state |-> "DONE", numdns |-> 0, tmr |-> 0, retries |-> 0,
                 seqno |-> dns_table[k].seqno, ttl |-> ttl,
                 found |-> NoAddr, age |-> 0]
        BY <3>2 DEF Unused
      <4> HIDE DEF e
      <4> QED
        BY <2>2, <4>1, <4>2 DEF DoneEntry, TableEntry
    <3> QED
      BY <3>1, <3>2
  <2> HIDE DEF e
  <2>4. NamesInv'
    BY <1>a, <2>3, <2>a, NamesKeptBy
  <2>5. TableInv' /\ Served
    BY <1>1, <1>2, <2>1, <2>3, <2>a, <2>b, <2>c, <2>e, CallsBack
  <2> QED
    BY <2>4, <2>5
<1>4. CASE RecvNothing(p)
  <2>1. NamesInv'
    BY <1>4, <1>a, UnusedEntry, NamesKeptBy DEF RecvNothing, k
  <2> QED
    BY <1>1, <1>2, <1>4, <2>1, UnusedEntry, CallsBack DEF RecvNothing, k
<1>5. CASE RecvError(p)
  BY <1>2, <1>5, <1>a
     DEF RecvError, TableInv, NamesInv, Asking, Pending, Served, DnsInv
<1> QED
  BY <1>3, <1>4, <1>5 DEF dns_recv

LEMMA NextServes ==
  ASSUME DnsAssumption, DnsInv, [DnsNext]_dnsVars
  PROVE  DnsInv' /\ Served
<1>1. ASSUME UNCHANGED <<dns_table, names, dns_seqno, reply>>,
             walk' \in 0 .. DNS_TABLE_SIZE, net' \subseteq net
      PROVE  DnsInv' /\ Served
  <2>1. TableInv' /\ NamesInv' /\ NetInv' /\ UNCHANGED <<Pending, reply>>
    BY <1>1 DEF DnsInv, TableInv, NamesInv, NetInv, Asking, Pending
  <2> QED
    BY <1>1, <2>1 DEF DnsInv, Served
<1>2. ASSUME NEW r \in Reqs, EnqueueFails(r)
      PROVE  DnsInv' /\ Served
  BY <1>1, <1>2 DEF EnqueueFails, DnsInv
<1>3. CASE dns_tmr
  BY <1>1, <1>3 DEF dns_tmr, DnsInv, DnsAssumption
<1>4. ASSUME NEW p \in net, Drop(p)
      PROVE  DnsInv' /\ Served
  BY <1>1, <1>4 DEF Drop, DnsInv
<1>5. CASE UNCHANGED dnsVars
  BY <1>1, <1>5 DEF dnsVars, DnsInv
<1> QED
  BY <1>2, <1>3, <1>4, <1>5, EnqueueServes, CheckServes, RecvServes
     DEF DnsNext, Timer, dns_gethostbyname

\* Only a full table refuses, and a full table holds nothing that looks old.
LEMMA RefusesRightly ==
  ASSUME DnsAssumption, DnsInv, [DnsNext]_dnsVars
  PROVE  RefusalRight
<1> SUFFICES ASSUME refused', ~ refused, NEW i \in Index,
                    dns_table[i].state # "ASKING"
             PROVE  /\ dns_table[i].state = "DONE"
                    /\ dns_table[i].seqno >= dns_seqno
  BY DEF RefusalRight, Asking
<1>1. TableFull
  BY DEF DnsNext, Timer, dnsVars, dns_gethostbyname, dns_enqueue, EnqueueFails,
         dns_tmr, dns_check_entry, dns_recv, Drop
<1>2. dns_table[i] \in TableEntry /\ dns_seqno \in Int
  BY DEF DnsInv, TableInv
<1>3. dns_table[i].state = "DONE"
  BY <1>1, <1>2, EntryFacts DEF TableFull, Free
<1>4. dns_table[i].seqno \in Int
  BY <1>2, <1>3, EntryFacts DEF DoneEntry
<1>5. Older = {}
  BY <1>1, OldestDone DEF TableFull
<1> QED
  BY <1>2, <1>3, <1>4, <1>5 DEF Older

-----------------------------------------------------------------------------

\* The invariant the theorems rest on: the entries that ask, ask for
\* different requests, hold their names and are on their retry schedule.
THEOREM TableSound == ASSUME DnsAssumption PROVE DnsSpec => []DnsInv
<1>1. DnsInit => DnsInv
  <2> SUFFICES ASSUME DnsInit PROVE DnsInv
    OBVIOUS
  <2>1. dns_table \in [Index -> TableEntry] /\ Asking = {}
    BY UnusedEntry DEF DnsInit, Asking
  <2>2. NamesInv /\ NetInv
    BY <2>1 DEF DnsInit, NamesInv, NetInv
  <2> QED
    BY <2>1, <2>2 DEF DnsInit, DnsInv, TableInv, DnsAssumption
<1>2. DnsInv /\ [DnsNext]_dnsVars => DnsInv'
  BY NextServes
<1> QED
  BY <1>1, <1>2, PTL DEF DnsSpec

\* dns.c implements the service, for every table size, retry limit, number
\* of servers, range of random identifiers and set of names: one callback per
\* request at most, with NULL or with the address of a name that was asked for
\* and resembles the requested one as far as the answer spelt it out, and none
\* that was not asked for, whatever the network does with the packets.
THEOREM ResolverServes == ASSUME DnsAssumption PROVE DnsSpec => ImplementsService
<1>1. DnsInit => Service!Init
  BY DEF DnsInit, Service!Init, Service!Failed, Failed, Pending, Asking, Unused
<1>2. DnsInv /\ [DnsNext]_dnsVars => [Service!Next]_(Service!vars)
  BY NextServes DEF Served, Service!vars
<1> QED
  BY <1>1, <1>2, TableSound, PTL DEF DnsSpec, Service!Spec, ImplementsService

\* Besides, no request waits longer than the retry schedule of all servers
\* takes, and one is refused only if no entry can be had.
THEOREM LookupsStaySound == ASSUME DnsAssumption PROVE DnsSpec => LookupsSound
<1>1. DnsInv => TimeoutBound
  BY WithinBudget DEF DnsInv
<1>2. DnsInv /\ TimeoutBound' /\ [DnsNext]_dnsVars
        => [RefusalRight /\ TimeoutBound']_dnsVars
  BY RefusesRightly
<1> QED
  BY <1>1, <1>2, TableSound, PTL DEF DnsSpec, LookupsSound
=============================================================================
