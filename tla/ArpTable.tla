------------------------------- MODULE ArpTable -------------------------------
(***************************************************************************)
(* The ARP table (netif/etharp.c): which host is known, asked for, or has  *)
(* a packet waiting.  The stack, all of it in the Ethernet interrupt,      *)
(* looks up, inserts and recycles entries; etharp_tmr, in the main loop,   *)
(* ages and frees them without excluding the interrupt.  Each step of      *)
(* etharp_tmr is one access to the table, each operation of the interrupt  *)
(* one step: nothing preempts it.                                          *)
(*                                                                         *)
(* ARP_QUEUEING is 0: an entry holds one packet.  Static entries are not   *)
(* built.  LWIP_DEBUG is defined (as 0), so that a freed entry is cleared. *)
(* etharp_cached_entry and snmp are left out: the first only saves a       *)
(* search, the second is empty.                                            *)
(***************************************************************************)
EXTENDS Integers, FiniteSets, FiniteSetsExt

CONSTANTS ARP_TABLE_SIZE, ARP_MAXAGE, ARP_AGE_REREQUEST_USED, ARP_MAXPENDING,
          Hosts,      \* the addresses of the network; a host's ethaddr is itself
          Pbufs,      \* names for packets that wait, one of them always free
          None        \* a null pointer, an address of zeros

ASSUME ArpAssumption ==
    /\ {ARP_TABLE_SIZE, ARP_MAXAGE, ARP_MAXPENDING} \subseteq Nat \ {0}
    /\ ARP_MAXPENDING <= ARP_AGE_REREQUEST_USED /\ ARP_AGE_REREQUEST_USED < ARP_MAXAGE
    /\ ARP_MAXAGE < 256
    /\ IsFiniteSet(Pbufs) /\ Cardinality(Pbufs) > ARP_TABLE_SIZE
    /\ None \notin Hosts \cup Pbufs

Slots == 0 .. ARP_TABLE_SIZE - 1

States == {"EMPTY", "PENDING", "STABLE", "STABLE_REREQUESTING"}
Stable == {"STABLE", "STABLE_REREQUESTING"}

VARIABLES arp_table,  \* [state, ipaddr, ethaddr, ctime, q] of each entry
          live,       \* the pbufs allocated for packets that wait
          tmr,        \* etharp_tmr: the access that comes next, or "idle"
          i,          \* its entry,
          state,      \* the state it read,
          ctime,      \* the ctime it counted up
          clash       \* history: the interrupt took the entry that was being freed or reset

tmrVars == <<tmr, i, state, ctime>>
vars == <<arp_table, live, tmrVars, clash>>

Cleared == [state |-> "EMPTY", ipaddr |-> None, ethaddr |-> None, ctime |-> 0, q |-> None]

Init ==
    /\ arp_table = [j \in Slots |-> Cleared]
    /\ live = {}
    /\ tmr = "idle" /\ i = 0 /\ state = "EMPTY" /\ ctime = 0
    /\ clash = FALSE
-----------------------------------------------------------------------------
(* etharp_find_entry. *)

InState(S) == {j \in Slots : arp_table[j].state \in S}

EntryOf(a) == {j \in InState(States \ {"EMPTY"}) : arp_table[j].ipaddr = a}

(* The last of the oldest. *)
Oldest(S) == {j \in S : \A k \in S : \/ arp_table[k].ctime < arp_table[j].ctime
                                     \/ (arp_table[k].ctime = arp_table[j].ctime /\ k <= j)}

Queued == {j \in InState({"PENDING"}) : arp_table[j].q # None}

\* Mutation: the waiting packets are given up before the entries without one.
RecycleQueued ==
    IF InState({"EMPTY"}) # {} THEN {Min(InState({"EMPTY"}))}
    ELSE IF Queued # {} THEN Oldest(Queued)
    ELSE IF InState(Stable) # {} THEN Oldest(InState(Stable))
    ELSE Oldest(InState({"PENDING"}))

(* "choose the least destructive entry to recycle" *)
Recycle ==
    IF InState({"EMPTY"}) # {} THEN {Min(InState({"EMPTY"}))}
    ELSE IF InState(Stable) # {} THEN Oldest(InState(Stable))
    ELSE IF InState({"PENDING"}) \ Queued # {} THEN Oldest(InState({"PENDING"}) \ Queued)
    ELSE Oldest(Queued)

\* Mutation: a new entry is made without a look at those that exist.
FoundFresh(a, tryHard) == IF tryHard THEN Recycle ELSE EntryOf(a)

(* The entry of a, and with TRY_HARD one for it if there is none. *)
Found(a, tryHard) ==
    IF EntryOf(a) # {} \/ ~tryHard THEN EntryOf(a) ELSE Recycle

\* Mutation: asking again makes the entry young.
FreshAlways(j, a) ==
    IF j \in EntryOf(a) THEN [arp_table[j] EXCEPT !.ctime = 0] ELSE [Cleared EXCEPT !.ipaddr = a]

(* The entry j as etharp_find_entry returns it for the address a. *)
Fresh(j, a) ==
    IF j \in EntryOf(a) THEN arp_table[j] ELSE [Cleared EXCEPT !.ipaddr = a]

\* Mutation: the packet of a recycled entry is forgotten.
DroppedNever(j, a) == {}

(* The packet that is freed when entry j is recycled for a. *)
Dropped(j, a) == IF j \in EntryOf(a) THEN {} ELSE {arp_table[j].q} \ {None}
-----------------------------------------------------------------------------
(* Before these accesses of etharp_tmr the interrupt had better leave the entry i alone; *)
(* before its others it may take it.                                                     *)
Freeing == {"free_q", "unlink", "empty", "clear_ctime", "clear_ipaddr", "clear_ethaddr"}
Window == Freeing \cup {"reset"}

(* The interrupt makes the entry j what it says. *)
Becomes(j, entry) ==
    /\ ~clash
    /\ arp_table' = [arp_table EXCEPT ![j] = entry]
    /\ clash' = (tmr \in Window /\ j = i)
    /\ UNCHANGED tmrVars

\* Mutation: the packet that was sent stays on the entry.
SentKept(entry) == entry

Sent(entry) == [entry EXCEPT !.q = None]

(* etharp_arp_input: a says where it is, and the packet that waited for it is sent *)
(* and freed.  The request or reply itself, and our reply, are not kept.           *)
etharp_update_arp_entry(a, forUs) ==
    \E j \in Found(a, forUs) :
       /\ Becomes(j, [Sent(Fresh(j, a)) EXCEPT !.state = "STABLE", !.ethaddr = a, !.ctime = 0])
       /\ live' = live \ {arp_table[j].q}

(* etharp_output to a known host that is about to expire: sent, and asked for again if *)
(* etharp_request gets a pbuf.  Without it, or to any other known host, the packet is  *)
(* sent and nothing changes.                                                           *)
etharp_output_to_arp_index(a) ==
    \E j \in EntryOf(a) \cap InState({"STABLE"}) :
       /\ arp_table[j].ctime >= ARP_AGE_REREQUEST_USED
       /\ Becomes(j, [arp_table[j] EXCEPT !.state = "STABLE_REREQUESTING"])
       /\ UNCHANGED live

(* etharp_output to another one: its entry is pending, and the packet is copied and waits *)
(* in the place of the one before it; without a pbuf for it, it is lost.                  *)
etharp_query(a, p) ==
    /\ EntryOf(a) \cap InState(Stable) = {}
    /\ \E j \in Found(a, TRUE) :
          LET entry == [Fresh(j, a) EXCEPT !.state = "PENDING"]
              rest  == live \ Dropped(j, a)
          IN  IF p = None
              THEN Becomes(j, entry) /\ live' = rest
              ELSE /\ p \notin live
                   /\ Becomes(j, [entry EXCEPT !.q = p])
                   /\ live' = (rest \ {entry.q}) \cup {p}

Stack ==
    \/ \E a \in Hosts, forUs \in BOOLEAN : etharp_update_arp_entry(a, forUs)
    \/ \E a \in Hosts : etharp_output_to_arp_index(a)
    \/ \E a \in Hosts, p \in Pbufs \cup {None} : etharp_query(a, p)
-----------------------------------------------------------------------------
(* etharp_tmr, one access to the table per step.                           *)

At(here, there) ==
    /\ tmr = here /\ ~clash
    /\ tmr' = there

NextEntry ==
    /\ i' = (i + 1) % ARP_TABLE_SIZE
    /\ state' = "EMPTY" /\ ctime' = 0

Keep == UNCHANGED <<i, state, ctime>>

Done == IF i + 1 = ARP_TABLE_SIZE THEN "idle" ELSE "state"

ReadState ==
    /\ IF arp_table[i].state = "EMPTY"
       THEN At("state", Done) /\ NextEntry
       ELSE At("state", "ctime") /\ state' = arp_table[i].state /\ UNCHANGED <<i, ctime>>
    /\ UNCHANGED <<arp_table, live, clash>>

ReadCtime ==
    /\ At("ctime", "count")
    /\ ctime' = (arp_table[i].ctime + 1) % 256
    /\ UNCHANGED <<i, state, arp_table, live, clash>>

WriteCtime ==
    /\ At("count", "expired")
    /\ arp_table' = [arp_table EXCEPT ![i].ctime = ctime]
    /\ Keep /\ UNCHANGED <<live, clash>>

ExpiredAt(s, t) == t >= ARP_MAXAGE \/ (s = "PENDING" /\ t >= ARP_MAXPENDING)

(* The fields are read again, or taken from what was read and counted before, as the *)
(* compiler has it.                                                                   *)
TestExpired ==
    /\ \E s \in {state, arp_table[i].state}, t \in {ctime, arp_table[i].ctime} :
          At("expired", IF ExpiredAt(s, t) THEN "free" ELSE "rerequesting")
    /\ Keep /\ UNCHANGED <<arp_table, live, clash>>

TestRerequesting ==
    /\ \E s \in {state, arp_table[i].state} :
          IF s = "STABLE_REREQUESTING"
          THEN /\ At("rerequesting", "reset") /\ Keep
               /\ clash' = (s # arp_table[i].state)
          ELSE /\ At("rerequesting", Done) /\ NextEntry
               /\ UNCHANGED clash
    /\ UNCHANGED <<arp_table, live>>

Reset ==
    /\ At("reset", Done) /\ NextEntry
    /\ arp_table' = [arp_table EXCEPT ![i].state = "STABLE"]
    /\ UNCHANGED <<live, clash>>

(* etharp_free_entry: the packet, if any, is freed, then unlinked, the entry emptied and cleared. *)
FreePacket ==
    /\ Keep /\ UNCHANGED <<arp_table, clash>>
    /\ \/ /\ At("free", IF arp_table[i].q # None THEN "free_q" ELSE "empty")
          /\ UNCHANGED live
       \/ /\ At("free_q", "unlink")
          /\ live' = live \ {arp_table[i].q}

Put(here, there, entry) ==
    /\ At(here, there)
    /\ arp_table' = [arp_table EXCEPT ![i] = entry]
    /\ UNCHANGED <<live, clash>>

FreeEntry ==
    LET entry == arp_table[i]
    IN  \/ Put("unlink", "empty", [entry EXCEPT !.q = None]) /\ Keep
        \/ Put("empty", "clear_ctime", [entry EXCEPT !.state = "EMPTY"]) /\ Keep
        \/ Put("clear_ctime", "clear_ipaddr", [entry EXCEPT !.ctime = 0]) /\ Keep
        \/ Put("clear_ipaddr", "clear_ethaddr", [entry EXCEPT !.ipaddr = None]) /\ Keep
        \/ Put("clear_ethaddr", Done, [entry EXCEPT !.ethaddr = None]) /\ NextEntry

(* The next call, when the last one has returned. *)
Call == At("idle", "state") /\ UNCHANGED <<i, state, ctime, arp_table, live, clash>>

etharp_tmr ==
    \/ Call
    \/ ReadState \/ ReadCtime \/ WriteCtime
    \/ TestExpired \/ TestRerequesting \/ Reset
    \/ FreePacket \/ FreeEntry

(* After a clash nothing more is said. *)
Clashed == clash /\ UNCHANGED vars

Next == Stack \/ etharp_tmr \/ Clashed

(* lwip_periodic_handle calls etharp_tmr for ever, and it gets on between interrupts: *)
(* KeepsAging of LocalTime.                                                           *)
Spec == Init /\ [][Next]_vars /\ WF_vars(etharp_tmr)
-----------------------------------------------------------------------------
Entries == [state : States, ipaddr : Hosts \cup {None}, ethaddr : Hosts \cup {None},
            ctime : 0 .. ARP_MAXAGE, q : Pbufs \cup {None}]

TypeOK ==
    /\ arp_table \in [Slots -> Entries] /\ live \subseteq Pbufs
    /\ tmr \in Window \cup {"idle", "state", "ctime", "count", "expired", "rerequesting", "free"}
    /\ i \in Slots /\ state \in States /\ ctime \in 0 .. ARP_MAXAGE
    /\ clash \in BOOLEAN

(* The lookup takes the first entry of an address for the only one: it is. *)
UniqueAddress ==
    \A j, k \in InState(States \ {"EMPTY"}) :
       j # k => arp_table[j].ipaddr # arp_table[k].ipaddr

(* Whatever etharp_tmr was about to do to an entry when the stack came in between, *)
(* ages stay in their range and no address gets a second entry.                    *)
TableInv == TypeOK /\ UniqueAddress

(* A stable entry has the ethaddr of its own host, and "no queued packets should exist on *)
(* stable entries" (etharp.c:367), unless the interrupt took the entry that was reset.    *)
RightHost ==
    ~clash => \A j \in InState(Stable) :
                 arp_table[j].ethaddr = arp_table[j].ipaddr /\ arp_table[j].q = None

(* Every packet that waits is on one entry and every one on an entry is allocated, but *)
(* for the one etharp_tmr has just freed: none is lost, sent after it was freed, or    *)
(* freed twice, unless the interrupt took the entry etharp_tmr was freeing.            *)
HeldOnce ==
    ~clash =>
       LET holders == {j \in Slots : arp_table[j].q # None} \ {j \in {i} : tmr = "unlink"}
       IN  /\ {arp_table[j].q : j \in holders} = live
           /\ Cardinality(live) = Cardinality(holders)

(* A packet that waits for another host is only given up when every entry is pending *)
(* with a packet of its own, and then it is that of the oldest.                      *)
GivenUpLast ==
    [][\A j \in Slots :
          arp_table[j].q # None /\ arp_table'[j].ipaddr \notin {arp_table[j].ipaddr, None}
          => Queued = Slots /\ \A k \in Slots : arp_table[k].ctime <= arp_table[j].ctime]_vars

(* No packet waits for ever: its host answers, or it is given up. *)
NoneWaitsForEver == \A p \in Pbufs : p \in live ~> (p \notin live \/ clash)
=============================================================================
