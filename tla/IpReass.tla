-------------------------------- MODULE IpReass --------------------------------
(***************************************************************************)
(* Reassembly of IP fragments (ip_frag.c).  ip_reass is called for every   *)
(* fragment that is received, in the Ethernet interrupt, and nothing else  *)
(* touches its state: one call is one step.                                *)
(*                                                                         *)
(* Every datagram has the same timer: it starts at IP_REASS_MAXAGE and     *)
(* only ip_reass_tmr counts it down, which timers.c calls and this program *)
(* does not (NO_SYS_NO_TIMERS; lwip_periodic_handle calls etharp_tmr       *)
(* alone).  An incomplete datagram leaves when room is needed, or never.   *)
(*                                                                         *)
(* Contents, headers with options (refused before any state is touched)    *)
(* and the ICMP message for a datagram that is thrown away are left out.   *)
(***************************************************************************)
EXTENDS Integers, Sequences, FiniteSets, SequencesExt

CONSTANTS Fragments,   \* what may arrive: [id, start, end, last]
          Clen(_),     \* the pbufs that a fragment occupies
          MaxPbufs,    \* IP_REASS_MAX_PBUFS
          NumReass,    \* MEMP_NUM_REASSDATA
          PoolSize     \* PBUF_POOL_SIZE

ASSUME ReassAssumption ==
    /\ Fragments \subseteq [id : Nat, start : Nat, end : Nat, last : BOOLEAN]
    /\ \A f \in Fragments : f.start < f.end /\ Clen(f) \in Nat \ {0}
    /\ {MaxPbufs, PoolSize} \subseteq Nat /\ MaxPbufs < PoolSize
    /\ NumReass \in Nat \ {0}

NoDatagram == [id |-> 0, hdr |-> 0, p |-> <<>>, LASTFRAG |-> FALSE, datagram_len |-> 0]

VARIABLES reassdatagrams,      \* the datagrams in progress, the newest first
          ip_reass_pbufcount,
          broken,              \* history: a datagram was freed and stayed linked
          delivered            \* what the last call returned, or NoDatagram

reassvars == <<reassdatagrams, ip_reass_pbufcount, broken, delivered>>

ReassInit ==
    /\ reassdatagrams = <<>> /\ ip_reass_pbufcount = 0 /\ broken = FALSE
    /\ delivered = NoDatagram

Clens(p) == FoldSeq(LAMBDA f, n : Clen(f) + n, 0, p)
-----------------------------------------------------------------------------
(* Making room. s is the state of a call: the list, the count, what was freed. *)

Entry == [list |-> reassdatagrams, count |-> ip_reass_pbufcount, freed |-> 0, 
          ok |-> TRUE, done |-> FALSE, broken |-> broken]

\* Mutation: what is freed is not taken off the count.
free_complete_datagram_miscounted(s, i, prev) ==
    [s EXCEPT !.list = RemoveAt(@, i), !.count = @ - 1, !.freed = @ + Clens(s.list[i].p),
              !.broken = @ \/ (i # 1 /\ prev # i - 1)]

(* The datagram at place i is freed and dequeued behind prev; unless i is the first, *)
(* a prev that is not the one before it leaves it linked.                            *)
ip_reass_free_complete_datagram(s, i, prev) ==
    [s EXCEPT !.list = RemoveAt(@, i), !.count = @ - Clens(s.list[i].p),
              !.freed = @ + Clens(s.list[i].p),
              !.broken = @ \/ (i # 1 /\ prev # i - 1)]

\* Mutation: of datagrams of the same age the first in the list is taken.
OldestOfFirst(others) == Min(others)

(* r->timer <= oldest->timer: with equal timers the last one of the list. *)
OldestOf(others) == Max(others)

(* One turn of the loop: prev is the last one that has a successor, wherever the *)
(* oldest is.  The loop ends when enough is freed or this was the only other one. *)
FreeOldest(s, id, pbufs_needed) ==
    LET others == {i \in DOMAIN s.list : s.list[i].id # id}
    IN  IF others = {} \/ s.done THEN s
        ELSE LET t == ip_reass_free_complete_datagram(s, OldestOf(others), Len(s.list) - 1)
             IN  [t EXCEPT !.done = t.freed >= pbufs_needed \/ Cardinality(others) = 1 \/ t.broken]

ip_reass_remove_oldest_datagram(s, id, pbufs_needed) ==
    FoldSeq(LAMBDA d, t : FreeOldest(t, id, pbufs_needed),
            [s EXCEPT !.freed = 0, !.done = FALSE], s.list)

(* Room for the pbufs of f, and then for a datagram of its own. *)
RoomForPbufs(f) ==
    IF ip_reass_pbufcount + Clen(f) <= MaxPbufs THEN Entry
    ELSE ip_reass_remove_oldest_datagram(Entry, f.id, Clen(f))

Known(s, f) == \E i \in DOMAIN s.list : s.list[i].id = f.id

ip_reass_enqueue_new_datagram(s, f) ==
    IF Len(s.list) < NumReass THEN s
    ELSE LET t == ip_reass_remove_oldest_datagram(s, f.id, Clen(f))
         IN  [t EXCEPT !.ok = t.freed >= Clen(f)]

Room(f) ==
    LET s == RoomForPbufs(f)
    IN  IF s.broken \/ s.count + Clen(f) > MaxPbufs \/ Known(s, f) THEN s
        ELSE ip_reass_enqueue_new_datagram(s, f)

(* Too many pbufs still, or no struct for a datagram: the fragment is freed. *)
Admitted(s, f) == s.count + Clen(f) <= MaxPbufs /\ s.ok
-----------------------------------------------------------------------------
(* Chaining. p is sorted by offset; Place is how many of p the walk passes. *)

Place(p, f) == Cardinality({i \in DOMAIN p : p[i].start <= f.start})

(* A fragment that begins inside one of p is thrown away; that it ends inside the *)
(* next one is only looked at when there is one before it.                        *)
ThrownAway(p, f) ==
    LET n == Place(p, f)
    IN  \/ \E i \in 1 .. n : f.start < p[i].end
        \/ 0 < n /\ n < Len(p) /\ f.end > p[n + 1].start

\* Mutation: that the chain starts with the first fragment is not looked at.
NoHolesAnyStart(p, n) ==
    \A j \in 1 .. Len(p) - 1 : p[j].end = p[j + 1].start \/ (j = n /\ n + 1 < Len(p))

(* The validation of the chain p, in which the new fragment has n before it: the walk *)
(* looks at what it passes, an append looks back, the last loop looks behind the new   *)
(* fragment.  Nothing looks at the joint in front of one that was inserted.            *)
NoHoles(p, n) ==
    /\ p[1].start = 0
    /\ \A j \in 1 .. Len(p) - 1 : p[j].end = p[j + 1].start \/ (j = n /\ n + 1 < Len(p))

(* What a datagram keeps of f whether or not it is chained: the header of the first *)
(* fragment, the end when it is the last.                                           *)
Seen(d, f) ==
    [d EXCEPT !.hdr = IF f.start = 0 THEN 0 ELSE @,
              !.LASTFRAG = @ \/ f.last,
              !.datagram_len = IF f.last THEN f.end ELSE @]

Chained(d, f) == [d EXCEPT !.p = InsertAt(@, Place(@, f) + 1, f)]

Complete(d, f) == d.LASTFRAG /\ NoHoles(d.p, Place(d.p, f) - 1)
-----------------------------------------------------------------------------
Become(s) ==
    /\ reassdatagrams' = s.list
    /\ ip_reass_pbufcount' = s.count
    /\ broken' = s.broken

(* Its datagram is looked up, or a new one put in front; f is chained or thrown away; *)
(* a datagram that validates is dequeued and handed up.                               *)
Accept(s, f) ==
    LET list == IF Known(s, f) THEN s.list
                ELSE <<[NoDatagram EXCEPT !.id = f.id, !.hdr = f.start]>> \o s.list
        at == CHOOSE i \in DOMAIN list : list[i].id = f.id
        d == Seen(list[at], f)
        e == Chained(d, f)
    IN  IF ThrownAway(d.p, f)
        THEN /\ Become([s EXCEPT !.list = [list EXCEPT ![at] = d]])
             /\ delivered' = NoDatagram
        ELSE IF Complete(e, f)
        THEN /\ Become([s EXCEPT !.list = RemoveAt(list, at), !.count = @ + Clen(f) - Clens(e.p)])
             /\ delivered' = e
        ELSE /\ Become([s EXCEPT !.list = [list EXCEPT ![at] = e], !.count = @ + Clen(f)])
             /\ delivered' = NoDatagram

(* A frame for which low_level_input finds no pbufs never gets here. *)
ip_reass(f) ==
    /\ ~broken
    /\ ip_reass_pbufcount + Clen(f) <= PoolSize
    /\ LET s == Room(f)
       IN  IF s.broken \/ ~Admitted(s, f)
           THEN Become(s) /\ delivered' = NoDatagram
           ELSE Accept(s, f)

(* After a datagram was freed that stays linked, nothing more is said. *)
Broken == broken /\ UNCHANGED reassvars

ReassNext == Broken \/ \E f \in Fragments : ip_reass(f)

ReassSpec == ReassInit /\ [][ReassNext]_reassvars
-----------------------------------------------------------------------------
Datagrams == [id : {f.id : f \in Fragments}, hdr : {f.start : f \in Fragments},
              p : Seq(Fragments), LASTFRAG : BOOLEAN,
              datagram_len : {0} \cup {f.end : f \in Fragments}]

ReassTypeOK ==
    /\ reassdatagrams \in Seq(Datagrams) /\ Len(reassdatagrams) <= NumReass
    /\ ip_reass_pbufcount \in 0 .. MaxPbufs /\ broken \in BOOLEAN
    /\ delivered \in Datagrams \cup {NoDatagram}

(* The count is what is really held, through chaining, duplicates, evictions and *)
(* deliveries; so PoolSize - MaxPbufs pbufs are always left for other frames.    *)
CountExact ==
    ~broken => ip_reass_pbufcount = FoldSeq(LAMBDA d, n : Clens(d.p) + n, 0, reassdatagrams)

(* The limits of pbufs and of datagrams hold, and the count that enforces the first *)
(* is exact, however fragments are mixed.                                            *)
ListInv == ReassTypeOK /\ CountExact

(* The datagram is cut in one way: pieces do not overlap, the last one ends it. *)
CutOnce(id) ==
    \A f, g \in Fragments : f.id = id /\ g.id = id =>
        /\ f # g => f.end <= g.start \/ g.end <= f.start
        /\ f.last => g.end <= f.end

(* What is handed up, in whatever order its fragments came, with duplicates and with  *)
(* others thrown away in between, begins with the first fragment, has that one's      *)
(* header, is in order without an overlap, and when it was cut in one way ends with   *)
(* its last.                                                                          *)
DeliveredInOrder ==
    delivered # NoDatagram =>
        LET p == delivered.p IN
        /\ p[1].start = 0 /\ delivered.hdr = 0
        /\ \A j \in 1 .. Len(p) - 1 : p[j].end <= p[j + 1].start
        /\ CutOnce(delivered.id) => Last(p).end = delivered.datagram_len

(* ip_frag.c:568-569, "the totally last fragment (flag more fragments = 0) was         *)
(* received at least once AND all fragments are received": nothing is missing between  *)
(* two fragments, nor after the last.  False: nothing looks at the joint in front of a *)
(* fragment that was inserted.                                                         *)
DeliveredWhole ==
    delivered # NoDatagram =>
        LET p == delivered.p IN
        /\ \A j \in 1 .. Len(p) - 1 : p[j].end = p[j + 1].start
        /\ Last(p).end = delivered.datagram_len

Ids(list) == {d.id : d \in Range(list)}

(* Room is made in order of age: a datagram given up was not the one whose fragment   *)
(* came, and no older one stays, but for that.                                        *)
GivesUpOldest ==
    [][\A j, k \in DOMAIN reassdatagrams :
          LET x == reassdatagrams[j].id
              y == reassdatagrams[k].id
          IN  /\ j < k /\ x \notin Ids(reassdatagrams') \cup {delivered'.id}
              /\ y \in Ids(reassdatagrams')
              => \E f \in Fragments : ip_reass(f) /\ y = f.id]_reassvars

(* A datagram that is freed is unlinked from the list: it is the one behind prev, as *)
(* LWIP_ASSERT("prev->next == ipr", prev->next == ipr) says (ip_frag.c:166-167).      *)
(* False: prev is the last that has a successor.                                      *)
FreedIsUnlinked == ~broken

(* It stays linked only when the fragment belongs to the oldest that is left: two     *)
(* newer ones are in progress, and all that were older than it have been given up     *)
(* first.                                                                             *)
BreaksOnlyForOldest ==
    [][broken' => \E f \in Fragments, k \in DOMAIN reassdatagrams :
           /\ ip_reass(f) /\ f.id = reassdatagrams[k].id
           /\ k > 2
           /\ \A j \in DOMAIN reassdatagrams :
                  j > k => reassdatagrams[j].id \notin Ids(reassdatagrams')]_reassvars
=============================================================================
