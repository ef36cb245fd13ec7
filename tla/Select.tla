------------------------------- MODULE Select --------------------------------
(***************************************************************************)
(* lwip_select and event_callback of sockets.c: threads that wait for any  *)
(* of several sockets, and the threads (tcpip_thread, and a reader whose   *)
(* netconn_recv takes data) that report events on them.  A step of the     *)
(* model is what the code does between two SYS_ARCH_UNPROTECTs.  The       *)
(* counter select_cb_ctr is kept as what it is compared for: whether the   *)
(* list changed since a walk last looked.                                  *)
(***************************************************************************)
EXTENDS Integers, Sequences, FiniteSets, SequencesExt

CONSTANTS Threads,     \* threads that call lwip_select
          Socks,       \* open sockets, 0 .. maxfdp1 - 1
          Callers,     \* threads that run event_callback
          Wants,       \* the pairs of a readset and a writeset that are waited for
          MaxRcv       \* bound on rcvevent

SelectAssumption ==
  /\ IsFiniteSet(Threads) /\ "none" \notin Threads
  /\ IsFiniteSet(Socks) /\ Socks = 0..(Cardinality(Socks) - 1)
  /\ \A w \in Wants : w[1] \cup w[2] # {} /\ w[1] \cup w[2] \subseteq Socks
  /\ MaxRcv \in Nat \ {0}

VARIABLES sock,             \* rcvevent, sendevent and select_waiting of each socket
          select_cb_list,   \* the threads of its elements, head first
          sel,              \* each lwip_select: where it is, and its lwip_select_cb
          walks             \* each event_callback: the socket and the element it is at

selectVars == <<sock, select_cb_list, sel, walks>>

NoSel == [at |-> "idle", i |-> 0, rd |-> {}, wr |-> {}, ready |-> FALSE,
          sem |-> 0, signalled |-> FALSE]
NoWalk == [at |-> "idle", s |-> 0, scb |-> "none", changed |-> FALSE]

SelectInit ==
  /\ sock = [s \in Socks |-> [rcv |-> 0, send |-> FALSE, waiting |-> 0]]
  /\ select_cb_list = <<>>
  /\ sel = [t \in Threads |-> NoSel]
  /\ walks = [c \in Callers |-> NoWalk]

LastSock == Cardinality(Socks) - 1

(* Increasing select_cb_ctr: every walk under way starts again. *)
Counted ==
  walks' = [c \in Callers |-> [walks[c] EXCEPT !.changed = walks[c].at = "walk"]]

Uncounted == UNCHANGED walks

-----------------------------------------------------------------------------
(* lwip_select *)

ReadyFor(f, s) == (s \in f.rd /\ sock[s].rcv > 0) \/ (s \in f.wr /\ sock[s].send)

lwip_select(t) ==
  /\ sel[t].at = "idle"
  /\ \E w \in Wants :
       sel' = [sel EXCEPT ![t] = [NoSel EXCEPT !.at = "scan", !.rd = w[1], !.wr = w[2]]]
  /\ UNCHANGED <<sock, select_cb_list, walks>>

(* One iteration of lwip_selscan: the socket is read under protection. *)
lwip_selscan(t) ==
  LET f == sel[t]
      ready == f.ready \/ ReadyFor(f, f.i)
  IN /\ f.at \in {"scan", "rescan", "final"}
     /\ IF f.i < LastSock
        THEN sel' = [sel EXCEPT ![t].i = @ + 1, ![t].ready = ready]
        ELSE \/ /\ f.at = "scan" /\ ~ready
                /\ sel' = [sel EXCEPT ![t] = [f EXCEPT !.at = "list", !.i = 0]]
             \/ /\ f.at = "rescan" /\ ~ready
                /\ sel' = [sel EXCEPT ![t] = [f EXCEPT !.at = "wait", !.i = 0]]
             \/ /\ f.at = "rescan" /\ ready
                /\ sel' = [sel EXCEPT ![t] = [f EXCEPT !.at = "leave", !.i = 0]]
             \/ /\ (f.at = "scan" /\ ready) \/ f.at = "final"
                /\ sel' = [sel EXCEPT ![t] = NoSel]
  /\ UNCHANGED <<sock, select_cb_list, walks>>

(* Put the lwip_select_cb on top of the list. *)
Enlist(t) ==
  /\ sel[t].at = "list"
  /\ select_cb_list' = <<t>> \o select_cb_list
  /\ Counted
  /\ sel' = [sel EXCEPT ![t].at = "enter"]
  /\ UNCHANGED sock

Step(t, next) ==
  LET f == sel[t]
  IN sel' = [sel EXCEPT ![t] = IF f.i < LastSock THEN [f EXCEPT !.i = f.i + 1]
                               ELSE [f EXCEPT !.i = 0, !.at = next, !.ready = FALSE]]

(* select_waiting of each socket of interest is increased, and later *)
(* decreased.                                                         *)
Waiting(t, at, d, next) ==
  /\ sel[t].at = at
  /\ sock' = IF sel[t].i \in sel[t].rd \cup sel[t].wr
             THEN [sock EXCEPT ![sel[t].i].waiting = @ + d]
             ELSE sock
  /\ Step(t, next)
  /\ UNCHANGED <<select_cb_list, walks>>

Enter(t) == Waiting(t, "enter", 1, "rescan")
Leave(t) == Waiting(t, "leave", -1, "off")

Woken(t) ==
  /\ sel[t].at = "wait"
  /\ sel[t].sem > 0
  /\ sel' = [sel EXCEPT ![t].at = "leave", ![t].sem = @ - 1]
  /\ UNCHANGED <<sock, select_cb_list, walks>>

SelectTimeout(t) ==
  /\ sel[t].at = "wait"
  /\ sel' = [sel EXCEPT ![t].at = "leave"]
  /\ UNCHANGED <<sock, select_cb_list, walks>>

Place(seq, t) == CHOOSE j \in 1..Len(seq) : seq[j] = t

(* Take the lwip_select_cb off the list without counting the change. *)
Unlist_Uncounted(t) ==
  /\ sel[t].at = "off"
  /\ select_cb_list' = RemoveAt(select_cb_list, Place(select_cb_list, t))
  /\ Uncounted
  /\ sel' = [sel EXCEPT ![t].at = "final"]
  /\ UNCHANGED sock

Unlist(t) ==
  /\ sel[t].at = "off"
  /\ select_cb_list' = RemoveAt(select_cb_list, Place(select_cb_list, t))
  /\ Counted
  /\ sel' = [sel EXCEPT ![t].at = "final"]
  /\ UNCHANGED sock

-----------------------------------------------------------------------------
(* event_callback *)

After(seq, t) ==
  LET k == Place(seq, t)
  IN IF k = Len(seq) THEN "none" ELSE seq[k + 1]

(* The body of the loop for one element: test it and signal its semaphore. *)
Tested(ss, s, t) ==
  IF /\ ~sel[t].signalled
     /\ (s \in sel[t].rd /\ ss[s].rcv > 0) \/ (s \in sel[t].wr /\ ss[s].send)
  THEN [sel EXCEPT ![t].signalled = TRUE, ![t].sem = @ + 1]
  ELSE sel

Visit(c, ss, s, t) ==
  IF t = "none"
  THEN /\ walks' = [walks EXCEPT ![c] = NoWalk]
       /\ UNCHANGED sel
  ELSE /\ walks' = [walks EXCEPT ![c] = [at |-> "walk", s |-> s, scb |-> t, changed |-> FALSE]]
       /\ sel' = Tested(ss, s, t)

Head1 == IF select_cb_list = <<>> THEN "none" ELSE Head(select_cb_list)

event_callback(c, s) ==
  /\ walks[c].at = "idle"
  /\ \E ev \in {[sock[s] EXCEPT !.rcv = @ + 1], [sock[s] EXCEPT !.rcv = @ - 1],
                [sock[s] EXCEPT !.send = TRUE], [sock[s] EXCEPT !.send = FALSE]} :
       LET ss == [sock EXCEPT ![s] = ev]
       IN /\ ev.rcv \in 0..MaxRcv
          /\ sock' = ss
          /\ IF ev.waiting = 0
             THEN UNCHANGED <<walks, sel>>
             ELSE Visit(c, ss, s, Head1)
  /\ UNCHANGED select_cb_list

(* The walk goes on under protection again: from the head when the list   *)
(* has changed, else with the next element.                                *)
Walk(c) ==
  /\ walks[c].at = "walk"
  /\ Visit(c, sock, walks[c].s,
           IF walks[c].changed THEN Head1 ELSE After(select_cb_list, walks[c].scb))
  /\ UNCHANGED <<sock, select_cb_list>>

SelectNext ==
  \/ \E t \in Threads :
       \/ lwip_select(t) \/ lwip_selscan(t) \/ Enlist(t) \/ Enter(t)
       \/ Woken(t) \/ SelectTimeout(t) \/ Leave(t) \/ Unlist(t)
  \/ \E c \in Callers : Walk(c) \/ \E s \in Socks : event_callback(c, s)

SelectSpec == SelectInit /\ [][SelectNext]_selectVars

-----------------------------------------------------------------------------
(* No event is lost between a scan and the wait: a select that waits with  *)
(* its semaphore not signalled, while a socket of its sets is ready, is    *)
(* still in front of a walk for that socket.                               *)
Ahead(c, t) ==
  \/ walks[c].changed
  \/ \E j, k \in 1..Len(select_cb_list) :
       select_cb_list[j] = walks[c].scb /\ select_cb_list[k] = t /\ j < k

NoLostWakeup ==
  \A t \in Threads : sel[t].at = "wait" /\ sel[t].sem = 0 =>
    \A s \in Socks : ReadyFor(sel[t], s) =>
      \E c \in Callers : walks[c].at = "walk" /\ walks[c].s = s /\ Ahead(c, t)

(* A walk stands on an element of the list, or has been told to start      *)
(* again: it never follows the next pointer of a lwip_select_cb whose      *)
(* thread has returned, and signals no freed semaphore.                    *)
WalkOnList ==
  \A c \in Callers : walks[c].at = "walk" =>
    walks[c].changed \/ walks[c].scb \in Range(select_cb_list)

(* select_waiting counts the selects that wait for the socket: it is zero  *)
(* when none is on the list, so event_callback can return early.           *)
WaitingCounted ==
  select_cb_list = <<>> => \A s \in Socks : sock[s].waiting = 0

(* A semaphore is signalled at most once for one wait. *)
SelectSound ==
  /\ NoLostWakeup /\ WalkOnList /\ WaitingCounted
  /\ \A t \in Threads : sel[t].sem \in {0, 1}
=============================================================================
