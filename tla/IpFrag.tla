------------------------------- MODULE IpFrag -------------------------------
(***************************************************************************)
(* Fragmentation and reassembly of IP datagrams (core/ipv4/ip_frag.c).     *)
(* ip_frag cuts a datagram, or a fragment on its way, to the size of a     *)
(* link; the network delivers the pieces in any order, any number of times *)
(* or never; ip_reass puts them together again.  The code is built only    *)
(* with IP_FRAG and IP_REASSEMBLY, which lwipopts.h of the template        *)
(* project turns off.  A fragment is one pbuf.                             *)
(***************************************************************************)
EXTENDS Naturals, Sequences, SequencesExt, FiniteSets

CONSTANTS
  Datagrams,   \* identifications in use, each with one source and destination
  Length,      \* the payload length of every datagram
  Paths,       \* the ways a datagram may take, each a sequence of link sizes
  Unit,        \* 8: what the offset field counts in
  MaxPbufs,    \* IP_REASS_MAX_PBUFS
  NumReass,    \* MEMP_NUM_REASSDATA
  MaxAge       \* IP_REASS_MAXAGE

FragAssumption ==
  /\ Unit \in Nat \ {0} /\ MaxPbufs \in Nat \ {0} /\ NumReass \in Nat \ {0}
  /\ MaxAge \in Nat /\ Length \in Nat \ {0}
  /\ \A d \in Datagrams : \A path \in Paths[d] :
       path # << >> /\ \A k \in DOMAIN path : path[k] >= Unit

VARIABLES
  reassdatagrams,      \* the list of struct ip_reassdata
  ip_reass_pbufcount,  \* pbufs that wait for reassembly
  dangling,            \* {}, or the id at whose fragment a struct that stays
                       \* linked in the list was freed
  out                  \* what the last call of ip_reass returned, << >> or one

fragVars == <<reassdatagrams, ip_reass_pbufcount, dangling, out>>

-----------------------------------------------------------------------------
\* ip_frag: the pieces of a payload [start, end) whose header has the more-
\* fragments flag mf, on a link that takes size bytes of payload.
Count(n, size) == IF n <= size THEN 1
                  ELSE LET nfb == (size \div Unit) * Unit
                       IN  1 + (n - size + nfb - 1) \div nfb

ip_frag(f, size) ==
  LET nfb == (size \div Unit) * Unit
      count == Count(f.end - f.start, size)
  IN  {[id |-> f.id, start |-> f.start + (k - 1) * nfb,
        end |-> IF k = count THEN f.end ELSE f.start + k * nfb,
        mf |-> f.mf \/ k < count] : k \in 1 .. count}

\* The pieces that arrive over a path, every link of which may cut again.
Crossed(fs, path) ==
  FoldLeft(LAMBDA acc, size : UNION {ip_frag(f, size) : f \in acc}, fs, path)

Whole(d) == [id |-> d, start |-> 0, end |-> Length, mf |-> FALSE]

Fragments(d) == UNION {Crossed({Whole(d)}, path) : path \in Paths[d]} \ {Whole(d)}

-----------------------------------------------------------------------------
Init ==
  /\ reassdatagrams = << >>
  /\ ip_reass_pbufcount = 0
  /\ dangling = {}
  /\ out = << >>

\* ip_reass_free_complete_datagram, with the right predecessor.
Freed(list, i) == RemoveAt(list, i)

\* ip_reass_remove_oldest_datagram: the last of the oldest that the fragment
\* does not belong to, 0 if there is none.  prev is left at the predecessor
\* of the last struct of the list, which is not always that of the oldest.
OldestOther(list, id) ==
  LET others == {i \in DOMAIN list : list[i].id # id}
  IN  IF others = {} THEN 0
      ELSE CHOOSE i \in others : \A j \in others :
             \/ list[i].timer < list[j].timer
             \/ list[i].timer = list[j].timer /\ j <= i

Unlinked(list, i) == i = 1 \/ i = Len(list)

\* The list, the pbufs freed and whether the freed struct stays linked.  A
\* struct holds at least the one pbuf that is needed, so one is enough.
RemoveOldest(list, id) ==
  LET i == OldestOther(list, id)
  IN  IF i = 0 THEN [list |-> list, freed |-> 0, bad |-> FALSE]
      ELSE [list |-> Freed(list, i), freed |-> Len(list[i].frags),
            bad |-> ~ Unlinked(list, i)]

NewDatagram(f) ==
  [id |-> f.id, frags |-> << >>, last |-> FALSE, len |-> 0, timer |-> MaxAge, hdr |-> f.start]

\* The struct for the fragment is found, or made in front of the list.
Entered(list, f) ==
  LET found == {i \in DOMAIN list : list[i].id = f.id}
  IN  IF found = {} THEN <<NewDatagram(f)>> \o list ELSE list

IndexOfId(list, id) == CHOOSE i \in DOMAIN list : list[i].id = id

\* The header of the first fragment is kept, the flag and the length are
\* taken from the last one.
Noted(r, f) ==
  [r EXCEPT !.hdr = IF f.start = 0 THEN 0 ELSE @,
            !.last = @ \/ ~ f.mf,
            !.len = IF f.mf THEN @ ELSE f.end]

-----------------------------------------------------------------------------
\* ip_reass_chain_frag_into_datagram_and_validate.
Place(frags, f) == 1 + Cardinality({k \in DOMAIN frags : frags[k].start <= f.start})

\* A fragment in front of all others is not compared with the next one.
Overlaps(frags, f) ==
  LET j == Place(frags, f)
  IN  \/ \E k \in 1 .. j - 1 : f.start < frags[k].end \/ f.start = frags[k].start
      \/ j > 1 /\ j <= Len(frags) /\ f.end > frags[j].start

Chained(frags, f) ==
  InsertAt(frags, Place(frags, f), [start |-> f.start, end |-> f.end])

Seamless(frags, a, b) == \A k \in a .. b - 1 : frags[k].end = frags[k + 1].start

\* The last walk left out.
ValidSoFar(frags, j) ==
  frags[1].start = 0 /\ Seamless(frags, 1, j - 1)

\* Whether the list has no hole: before the place of the new fragment, after
\* it, and in front of it only when it is the last of the list.
Valid(frags, j) ==
  /\ frags[1].start = 0
  /\ Seamless(frags, 1, j - 1)
  /\ Seamless(frags, j, Len(frags))
  /\ j = Len(frags) /\ j > 1 => frags[j - 1].end = frags[j].start

-----------------------------------------------------------------------------
Dropped(list, count, bad) ==
  /\ reassdatagrams' = list
  /\ ip_reass_pbufcount' = count
  /\ dangling' = bad
  /\ out' = << >>

\* The fragment is linked in; the datagram leaves when it is complete.
Kept(list, count, f) ==
  LET i == IndexOfId(list, f.id)
      r == Noted(list[i], f)
      frags == Chained(r.frags, f)
  IN  IF Overlaps(r.frags, f)
        THEN Dropped([list EXCEPT ![i] = r], count, dangling)
      ELSE IF r.last /\ Valid(frags, Place(r.frags, f))
        THEN /\ reassdatagrams' = RemoveAt(list, i)
             /\ ip_reass_pbufcount' = count + 1 - Len(frags)
             /\ out' = << [id |-> f.id, frags |-> frags, len |-> r.len, hdr |-> r.hdr,
                           by |-> Place(r.frags, f)] >>
             /\ UNCHANGED dangling
      ELSE /\ reassdatagrams' = [list EXCEPT ![i] = [r EXCEPT !.frags = frags]]
           /\ ip_reass_pbufcount' = count + 1
           /\ out' = << >>
           /\ UNCHANGED dangling

\* Room for one pbuf is made at the limit, and for one struct.
ip_reass(f) ==
  LET full == ip_reass_pbufcount + 1 > MaxPbufs
      a == IF full THEN RemoveOldest(reassdatagrams, f.id)
           ELSE [list |-> reassdatagrams, freed |-> 0, bad |-> FALSE]
      fresh == \A i \in DOMAIN a.list : a.list[i].id # f.id
      b == IF fresh /\ Len(a.list) >= NumReass THEN RemoveOldest(a.list, f.id)
           ELSE [list |-> a.list, freed |-> 0, bad |-> FALSE]
      count == ip_reass_pbufcount - a.freed - b.freed
  IN  /\ dangling = {}
      /\ IF full /\ a.freed = 0 THEN Dropped(reassdatagrams, ip_reass_pbufcount, {})
         ELSE IF a.bad \/ b.bad THEN Dropped(b.list, count, {f.id})
         ELSE Kept(Entered(b.list, f), count, f)

ip_reass_tmr ==
  LET kept == SelectSeq(reassdatagrams, LAMBDA r : r.timer > 0)
      gone == SelectSeq(reassdatagrams, LAMBDA r : r.timer = 0)
  IN  /\ dangling = {}
      /\ reassdatagrams' = [i \in DOMAIN kept |-> [kept[i] EXCEPT !.timer = @ - 1]]
      /\ ip_reass_pbufcount' =
           ip_reass_pbufcount - FoldLeft(LAMBDA n, r : n + Len(r.frags), 0, gone)
      /\ out' = << >>
      /\ UNCHANGED dangling

Next ==
  \/ \E d \in Datagrams : \E f \in Fragments(d) : ip_reass(f)
  \/ ip_reass_tmr

Spec == Init /\ [][Next]_fragVars

-----------------------------------------------------------------------------
\* The pbufs that wait are counted exactly and within IP_REASS_MAX_PBUFS.
CountExact ==
  /\ ip_reass_pbufcount = FoldLeft(LAMBDA n, r : n + Len(r.frags), 0, reassdatagrams)
  /\ ip_reass_pbufcount <= MaxPbufs

\* One struct for each datagram, the newest in front, whose fragments are in
\* order and do not overlap.
ListOrdered ==
  /\ Len(reassdatagrams) <= NumReass
  /\ \A i, j \in DOMAIN reassdatagrams : i < j =>
       /\ reassdatagrams[i].id # reassdatagrams[j].id
       /\ reassdatagrams[i].timer >= reassdatagrams[j].timer
  /\ \A i \in DOMAIN reassdatagrams :
       LET frags == reassdatagrams[i].frags IN
       /\ frags # << >>
       /\ \A k \in 2 .. Len(frags) :
            frags[k - 1].start < frags[k].start /\ frags[k - 1].end <= frags[k].start

\* The places where a datagram that is handed on lacks bytes.
Holes(o) == {k \in 2 .. Len(o.frags) : o.frags[k - 1].end # o.frags[k].start}

\* What ip_reass hands on begins with the first byte and the header of the
\* first fragment, ends with the last byte and repeats none.  It may lack
\* bytes in one place, right in front of the fragment that completed it, and
\* only when that fragment was inserted between two others: the code compares
\* it with the fragment behind it, not with the one before.  The comments
\* ("all fragments are received", at 441 and 568) promise Holes(o) = {}.
HandedOn ==
  \A n \in DOMAIN out :
    LET o == out[n] frags == o.frags IN
    /\ frags[1].start = 0 /\ o.hdr = 0
    /\ frags[Len(frags)].end = Length /\ o.len = Length
    /\ \A k \in 2 .. Len(frags) : frags[k - 1].end <= frags[k].start
    /\ Holes(o) \subseteq {o.by} \ {Len(frags)}

\* ip_reass_remove_oldest_datagram leaves a freed struct in the list only for
\* a fragment of the oldest datagram of all, at the limit of pbufs, while at
\* least two others wait: the struct is then the last but one.  The
\* assertions "prev != ipr" (165) and "prev->next == ipr" (167) then fail.
DanglesForTheOldest ==
  dangling # {} => /\ Len(reassdatagrams) >= 2
                   /\ dangling = {reassdatagrams[Len(reassdatagrams)].id}
                   /\ ip_reass_pbufcount < MaxPbufs

\* Whatever arrives, in whatever order and however often, while all copies of
\* a datagram are cut at the same places: the four statements above (ip_reass,
\* ip_reass_tmr).
ReassemblySound == CountExact /\ ListOrdered /\ HandedOn /\ DanglesForTheOldest

=============================================================================
