------------------------------ MODULE Stack_proofs ------------------------------
(***************************************************************************)
(* The network stack: the ARP table, and the reassembly of IP fragments    *)
(* from "Reassembly" on.                                                   *)
(*                                                                         *)
(* The ARP table keeps its shape, its packets and its addresses whatever   *)
(* the stack does between the accesses of etharp_tmr, for every size of    *)
(* the table, every network and every number of packets, as long as the    *)
(* stack leaves alone the entry that is being freed or reset.              *)
(*                                                                         *)
(* Reassembly keeps its count and its order of age and hands up whole      *)
(* datagrams, for every set of fragments and every limits: its folds are   *)
(* sums, or turns that keep what each of them keeps.                       *)
(***************************************************************************)
EXTENDS ArpTable, IpReass, SetLemmas, SequenceTheorems

(* The constants as the proofs use them. *)
LEMMA Consts ==
    /\ ARP_TABLE_SIZE \in Nat /\ ARP_TABLE_SIZE >= 1
    /\ ARP_MAXAGE \in Nat /\ ARP_MAXAGE >= 1 /\ ARP_MAXAGE < 256
    /\ None \notin Hosts /\ None \notin Pbufs
BY ArpAssumption

(* The loop of etharp_tmr stays in the table. *)
LEMMA SlotAfter == ASSUME NEW j \in Slots PROVE (j + 1) % ARP_TABLE_SIZE \in Slots
<1>1. j + 1 \in Nat /\ ARP_TABLE_SIZE \in Nat /\ ARP_TABLE_SIZE > 0
  BY Consts DEF Slots
<1>2. (j + 1) % ARP_TABLE_SIZE \in 0 .. ARP_TABLE_SIZE - 1
  BY <1>1, SMT
<1> QED BY <1>2 DEF Slots

(* The first empty entry is an entry, and empty. *)
LEMMA MinIsElement == ASSUME NEW S \in SUBSET Nat, S # {} PROVE Min(S) \in S
<1>1. PICK R : IsWellFoundedOn(R, Nat) /\ \A x, y \in Nat : y < x => <<y, x>> \in R
  BY LessIsWellFounded
<1>2. PICK x \in S : \A y \in S : ~(<<y, x>> \in R)
  BY <1>1, WFMin
<1>3. \A y \in S : x <= y
  <2> TAKE y \in S
  <2>1. x \in Nat /\ y \in Nat
    OBVIOUS
  <2>2. ~(y < x)
    BY <1>1, <1>2, <2>1
  <2> QED BY <2>1, <2>2
<1> QED BY <1>2, <1>3 DEF Min
-----------------------------------------------------------------------------
(* The invariant.                                                            *)

(* What entries hold while etharp_tmr stands where it does: it empties only what it *)
(* has unlinked, and resets only what asks again.                                   *)
PlaceInv ==
    /\ tmr \in {"clear_ctime", "clear_ipaddr", "clear_ethaddr"} => arp_table[i].state = "EMPTY"
    /\ tmr \in {"empty", "clear_ctime", "clear_ipaddr", "clear_ethaddr"} => arp_table[i].q = None
    /\ tmr = "reset" => arp_table[i].state = "STABLE_REREQUESTING"
    /\ \A j \in Slots : arp_table[j].state = "EMPTY" => arp_table[j].q = None

(* The places between counting an entry up and clearing or keeping it. *)
Counted == {"expired", "free", "free_q", "unlink", "empty", "clear_ctime"}

(* Only the entry that is being looked at can have reached ARP_MAXAGE. *)
AgeInv ==
    /\ \A j \in Slots : arp_table[j].ctime < ARP_MAXAGE \/ (j = i /\ tmr \in Counted)
    /\ tmr = "expired" => arp_table[i].ctime \in {ctime, 0}

StableInv ==
    \A j \in Slots : arp_table[j].state \in Stable =>
       arp_table[j].ethaddr = arp_table[j].ipaddr /\ arp_table[j].q = None

(* Entry j holds an allocated packet. *)
Holds(j) == arp_table[j].q # None /\ ~(tmr = "unlink" /\ j = i)

HeldInv ==
    /\ \A j \in Slots : Holds(j) => arp_table[j].q \in live
    /\ \A p \in live : \E j \in Slots : Holds(j) /\ arp_table[j].q = p
    /\ \A j, k \in Slots : Holds(j) /\ Holds(k) /\ j # k => arp_table[j].q # arp_table[k].q

UniqueInv ==
    \A j, k \in Slots : arp_table[j].state # "EMPTY" /\ arp_table[k].state # "EMPTY" /\ j # k
                        => arp_table[j].ipaddr # arp_table[k].ipaddr

QuietInv == ~clash => PlaceInv /\ AgeInv /\ StableInv /\ HeldInv

IInv == TypeOK /\ UniqueInv /\ QuietInv

(* The parts of an entry, and what it means that i is an entry. *)
LEMMA EntryType ==
    ASSUME TypeOK, NEW j \in Slots
    PROVE  /\ arp_table[j] \in Entries
           /\ arp_table[j].state \in States /\ arp_table[j].ipaddr \in Hosts \cup {None}
           /\ arp_table[j].ethaddr \in Hosts \cup {None}
           /\ arp_table[j].ctime \in 0 .. ARP_MAXAGE /\ arp_table[j].q \in Pbufs \cup {None}
BY DEF TypeOK, Entries

(* UniqueAddress in the words of the code. *)
LEMMA UniqueIs == ASSUME TypeOK PROVE UniqueInv <=> UniqueAddress
<1>1. \A j \in Slots : j \in InState(States \ {"EMPTY"}) <=> arp_table[j].state # "EMPTY"
  BY EntryType DEF InState
<1>2. InState(States \ {"EMPTY"}) \subseteq Slots
  BY DEF InState
<1> QED BY <1>1, <1>2 DEF UniqueInv, UniqueAddress

LEMMA InitInv == Init => IInv
<1> SUFFICES ASSUME Init PROVE IInv
  OBVIOUS
<1>1. 0 \in Slots /\ 0 \in 0 .. ARP_MAXAGE /\ 0 < ARP_MAXAGE
  BY Consts DEF Slots
<1>2. Cleared \in Entries
  BY <1>1 DEF Cleared, Entries, States
<1>3. \A j \in Slots : arp_table[j] = Cleared
  BY DEF Init
<1>4. /\ Cleared.state = "EMPTY" /\ Cleared.q = None /\ Cleared.ctime = 0
  BY DEF Cleared
<1>5. TypeOK
  BY <1>1, <1>2 DEF Init, TypeOK, States
<1>6. UniqueInv
  BY <1>3, <1>4 DEF UniqueInv
<1>7. PlaceInv
  BY <1>3, <1>4 DEF Init, PlaceInv
<1>8. AgeInv
  BY <1>1, <1>3, <1>4 DEF Init, AgeInv
<1>9. StableInv
  BY <1>3, <1>4 DEF StableInv, Stable
<1>10. HeldInv
  BY <1>3, <1>4 DEF Init, HeldInv, Holds
<1> QED BY <1>5, <1>6, <1>7, <1>8, <1>9, <1>10 DEF IInv, QuietInv
-----------------------------------------------------------------------------
(* The stack.  Whichever of its operations it is, it changes one entry.      *)

(* Entry j becomes "entry", for the address a. *)
Touches(j, a, entry) ==
    /\ Becomes(j, entry)
    /\ entry \in Entries /\ entry.ctime \in {0, arp_table[j].ctime}
    /\ a \in Hosts /\ entry.ipaddr = a /\ entry.state # "EMPTY"
    /\ entry.state \in Stable =>
          \/ entry.ethaddr = a /\ entry.q = None
          \/ /\ arp_table[j].state \in Stable /\ entry.ethaddr = arp_table[j].ethaddr
             /\ arp_table[j].ipaddr = a /\ entry.q = arp_table[j].q
    /\ \A k \in Slots : k # j /\ arp_table[k].state # "EMPTY" => arp_table[k].ipaddr # a
    /\ \/ entry.q = arp_table[j].q /\ live' = live
       \/ /\ entry.q = None \/ entry.q \in Pbufs \ live
          /\ live' = (live \ {arp_table[j].q}) \cup ({entry.q} \ {None})
    /\ \/ arp_table[j].ipaddr = a
       \/ arp_table[j].state = "EMPTY" \/ arp_table[j].q = None \/ arp_table[j].state \in Stable
       \/ Queued = Slots /\ \A k \in Slots : arp_table[k].ctime <= arp_table[j].ctime

(* What is recycled is an entry without a packet to lose, or the oldest of a table *)
(* full of packets.                                                                *)
LEMMA RecycleLeast ==
    ASSUME TypeOK, NEW j \in Recycle
    PROVE  /\ j \in Slots
           /\ \/ arp_table[j].state = "EMPTY" \/ arp_table[j].q = None
              \/ arp_table[j].state \in Stable
              \/ Queued = Slots /\ \A k \in Slots : arp_table[k].ctime <= arp_table[j].ctime
<1>1. \A S : Oldest(S) \subseteq S
  BY DEF Oldest
<1>2. \A S : InState(S) \subseteq Slots /\ \A k \in InState(S) : arp_table[k].state \in S
  BY DEF InState
<1>3. CASE InState({"EMPTY"}) # {}
  <2>1. InState({"EMPTY"}) \in SUBSET Nat
    BY <1>2, Consts DEF Slots
  <2>2. j = Min(InState({"EMPTY"}))
    BY <1>3 DEF Recycle
  <2>3. j \in InState({"EMPTY"})
    BY <1>3, <2>1, <2>2, MinIsElement
  <2> QED BY <1>2, <2>3
<1>4. CASE InState({"EMPTY"}) = {} /\ InState(Stable) # {}
  <2>1. j \in InState(Stable)
    BY <1>1, <1>4 DEF Recycle
  <2> QED BY <1>2, <2>1
<1>5. CASE /\ InState({"EMPTY"}) = {} /\ InState(Stable) = {}
           /\ InState({"PENDING"}) \ Queued # {}
  <2>1. j \in InState({"PENDING"}) \ Queued
    BY <1>1, <1>5 DEF Recycle
  <2> QED BY <1>2, <2>1 DEF Queued
<1>6. CASE /\ InState({"EMPTY"}) = {} /\ InState(Stable) = {}
           /\ InState({"PENDING"}) \ Queued = {}
  <2>1. j \in Oldest(Queued)
    BY <1>6 DEF Recycle
  <2>2. j \in Queued /\ Queued \subseteq Slots
    BY <1>1, <1>2, <2>1 DEF Queued
  <2>3. Queued = Slots
    <3>1. ASSUME NEW k \in Slots PROVE k \in Queued
      <4>1. arp_table[k].state \in States
        BY EntryType
      <4>2. k \in InState({"PENDING"})
        BY <1>6, <4>1 DEF InState, States, Stable
      <4> QED BY <1>6, <4>2
    <3> QED BY <2>2, <3>1
  <2>4. \A k \in Slots : arp_table[k].ctime <= arp_table[j].ctime
    <3> TAKE k \in Slots
    <3>1. arp_table[k].ctime \in Int /\ arp_table[j].ctime \in Int
      BY <2>2, EntryType
    <3>2. \/ arp_table[k].ctime < arp_table[j].ctime
          \/ arp_table[k].ctime = arp_table[j].ctime /\ k <= j
      BY <2>1, <2>3 DEF Oldest
    <3> QED BY <3>1, <3>2
  <2> QED BY <2>2, <2>3, <2>4
<1> QED BY <1>3, <1>4, <1>5, <1>6

(* The entry a search returns, and the entry it is then. *)
LEMMA FoundEntry ==
    ASSUME TypeOK, UniqueInv, NEW a \in Hosts, NEW try \in BOOLEAN, NEW j \in Found(a, try)
    PROVE  /\ j \in Slots
           /\ Fresh(j, a) \in Entries /\ Fresh(j, a).ipaddr = a
           /\ Fresh(j, a).ctime \in {0, arp_table[j].ctime}
           /\ \A k \in Slots : k # j /\ arp_table[k].state # "EMPTY" => arp_table[k].ipaddr # a
           /\ \/ /\ j \in EntryOf(a) /\ Fresh(j, a) = arp_table[j]
                 /\ arp_table[j].ipaddr = a /\ Dropped(j, a) = {}
              \/ /\ Fresh(j, a).q = None /\ Dropped(j, a) = {arp_table[j].q} \ {None}
                 /\ \/ arp_table[j].state = "EMPTY" \/ arp_table[j].q = None
                    \/ arp_table[j].state \in Stable
                    \/ Queued = Slots /\ \A k \in Slots : arp_table[k].ctime <= arp_table[j].ctime
<1>1. \A k : k \in EntryOf(a) <=>
               k \in Slots /\ arp_table[k].state # "EMPTY" /\ arp_table[k].ipaddr = a
  BY EntryType DEF EntryOf, InState
<1>2. CASE j \in EntryOf(a)
  <2>1. j \in Slots /\ arp_table[j].state # "EMPTY" /\ arp_table[j].ipaddr = a
    BY <1>1, <1>2
  <2>2. Fresh(j, a) = arp_table[j] /\ Dropped(j, a) = {}
    BY <1>2 DEF Fresh, Dropped
  <2>3. \A k \in Slots : k # j /\ arp_table[k].state # "EMPTY" => arp_table[k].ipaddr # a
    BY <2>1 DEF UniqueInv
  <2> QED BY <1>2, <2>1, <2>2, <2>3, EntryType
<1>3. CASE j \notin EntryOf(a)
  <2>1. EntryOf(a) = {} /\ j \in Recycle
    BY <1>3 DEF Found
  <2>2. j \in Slots
    BY <2>1, RecycleLeast
  <2>3. Fresh(j, a) = [Cleared EXCEPT !.ipaddr = a] /\ Dropped(j, a) = {arp_table[j].q} \ {None}
    BY <1>3 DEF Fresh, Dropped
  <2>4. /\ Fresh(j, a) \in Entries /\ Fresh(j, a).ipaddr = a
        /\ Fresh(j, a).ctime = 0 /\ Fresh(j, a).q = None
    BY <2>3, Consts DEF Cleared, Entries, States
  <2>5. \A k \in Slots : arp_table[k].state # "EMPTY" => arp_table[k].ipaddr # a
    BY <1>1, <2>1
  <2> QED BY <2>1, <2>2, <2>3, <2>4, <2>5, RecycleLeast
<1> QED BY <1>2, <1>3

LEMMA StackTouches ==
    ASSUME TypeOK, UniqueInv, Stack
    PROVE  \E j \in Slots, a \in Hosts, entry \in Entries : Touches(j, a, entry)
<1>1. None \notin live /\ live \subseteq Pbufs /\ None \notin Pbufs
  BY Consts DEF TypeOK
<1>2. ASSUME NEW a \in Hosts, NEW forUs \in BOOLEAN, etharp_update_arp_entry(a, forUs)
      PROVE  \E j \in Slots, b \in Hosts, entry \in Entries : Touches(j, b, entry)
  <2>1. PICK j \in Found(a, forUs) :
           /\ Becomes(j, [Sent(Fresh(j, a)) EXCEPT !.state = "STABLE", !.ethaddr = a, !.ctime = 0])
           /\ live' = live \ {arp_table[j].q}
    BY <1>2 DEF etharp_update_arp_entry
  <2> DEFINE e == [Sent(Fresh(j, a)) EXCEPT !.state = "STABLE", !.ethaddr = a, !.ctime = 0]
  <2>2. Fresh(j, a) \in Entries /\ Fresh(j, a).ipaddr = a /\ j \in Slots
    BY <2>1, FoundEntry
  <2>3. /\ e \in Entries /\ e.ipaddr = a /\ e.state = "STABLE" /\ e.ethaddr = a
        /\ e.ctime = 0 /\ e.q = None
    <3> DEFINE f == Sent(Fresh(j, a))
    <3>1. f \in Entries /\ f.ipaddr = a /\ f.q = None
      BY <2>2 DEF Sent, Entries
    <3>2. 0 \in 0 .. ARP_MAXAGE
      BY Consts
    <3> HIDE DEF f
    <3> DEFINE g == [f EXCEPT !.state = "STABLE", !.ethaddr = a, !.ctime = 0]
    <3> DEFINE g1 == [f EXCEPT !.state = "STABLE"]
    <3> DEFINE g2 == [g1 EXCEPT !.ethaddr = a]
    <3>3. g1 \in Entries /\ g1.ipaddr = a /\ g1.state = "STABLE" /\ g1.q = None
      BY <3>1 DEF Entries, States
    <3> HIDE DEF g1
    <3>4. /\ g2 \in Entries /\ g2.ipaddr = a /\ g2.state = "STABLE" /\ g2.ethaddr = a
          /\ g2.q = None
      BY <3>3 DEF Entries
    <3> HIDE DEF g2
    <3>5. g = [g2 EXCEPT !.ctime = 0]
      BY DEF g1, g2
    <3>6. /\ g \in Entries /\ g.ipaddr = a /\ g.state = "STABLE" /\ g.ethaddr = a
          /\ g.ctime = 0 /\ g.q = None
      BY <3>2, <3>4, <3>5 DEF Entries
    <3> QED BY <3>6 DEF f
  <2>4. Becomes(j, e)
    BY <2>1
  <2> HIDE DEF e
  <2>5. e.state # "EMPTY"
    BY <2>3
  <2>6. live' = (live \ {arp_table[j].q}) \cup ({e.q} \ {None})
    BY <2>1, <2>3
  <2>7. /\ \A k \in Slots : k # j /\ arp_table[k].state # "EMPTY" => arp_table[k].ipaddr # a
        /\ \/ arp_table[j].ipaddr = a
           \/ arp_table[j].state = "EMPTY" \/ arp_table[j].q = None \/ arp_table[j].state \in Stable
           \/ Queued = Slots /\ \A k \in Slots : arp_table[k].ctime <= arp_table[j].ctime
    BY <2>1, FoundEntry
  <2>8. Touches(j, a, e)
    BY <2>3, <2>4, <2>5, <2>6, <2>7 DEF Touches
  <2> QED BY <2>2, <2>3, <2>8
<1>3. ASSUME NEW a \in Hosts, etharp_output_to_arp_index(a)
      PROVE  \E j \in Slots, b \in Hosts, entry \in Entries : Touches(j, b, entry)
  <2>1. PICK j \in EntryOf(a) \cap InState({"STABLE"}) :
           /\ Becomes(j, [arp_table[j] EXCEPT !.state = "STABLE_REREQUESTING"])
           /\ live' = live
    BY <1>3 DEF etharp_output_to_arp_index
  <2> DEFINE e == [arp_table[j] EXCEPT !.state = "STABLE_REREQUESTING"]
  <2>2. j \in Slots /\ arp_table[j].state = "STABLE" /\ arp_table[j].ipaddr = a
    BY DEF EntryOf, InState
  <2>3. /\ e \in Entries /\ e.ipaddr = a /\ e.state = "STABLE_REREQUESTING"
        /\ e.ethaddr = arp_table[j].ethaddr
        /\ e.ctime = arp_table[j].ctime /\ e.q = arp_table[j].q
    BY <2>2, EntryType DEF Entries, States
  <2>4. Becomes(j, e)
    BY <2>1
  <2> HIDE DEF e
  <2>5. e.state # "EMPTY" /\ arp_table[j].state \in Stable
    BY <2>2, <2>3 DEF Stable
  <2>6. \A k \in Slots : k # j /\ arp_table[k].state # "EMPTY" => arp_table[k].ipaddr # a
    BY <2>2 DEF UniqueInv
  <2>7. Touches(j, a, e)
    BY <2>1, <2>2, <2>3, <2>4, <2>5, <2>6 DEF Touches
  <2> QED BY <2>2, <2>3, <2>7
<1>4. ASSUME NEW a \in Hosts, NEW p \in Pbufs \cup {None}, etharp_query(a, p)
      PROVE  \E j \in Slots, b \in Hosts, entry \in Entries : Touches(j, b, entry)
  <2>1. PICK j \in Found(a, TRUE) :
          LET entry == [Fresh(j, a) EXCEPT !.state = "PENDING"]
              rest  == live \ Dropped(j, a)
          IN  IF p = None
              THEN Becomes(j, entry) /\ live' = rest
              ELSE /\ p \notin live
                   /\ Becomes(j, [entry EXCEPT !.q = p])
                   /\ live' = (rest \ {entry.q}) \cup {p}
    BY <1>4 DEF etharp_query
  <2>10. TRUE \in BOOLEAN /\ j \in Found(a, TRUE)
    BY <2>1
  <2>11. /\ Fresh(j, a).ctime \in {0, arp_table[j].ctime}
         /\ \A k \in Slots : k # j /\ arp_table[k].state # "EMPTY" => arp_table[k].ipaddr # a
    BY <2>10, FoundEntry
  <2>12. \/ /\ Fresh(j, a) = arp_table[j] /\ Dropped(j, a) = {} /\ arp_table[j].ipaddr = a
         \/ /\ Fresh(j, a).q = None /\ Dropped(j, a) = {arp_table[j].q} \ {None}
            /\ \/ arp_table[j].state = "EMPTY" \/ arp_table[j].q = None
               \/ arp_table[j].state \in Stable
               \/ Queued = Slots /\ \A k \in Slots : arp_table[k].ctime <= arp_table[j].ctime
    BY <2>10, FoundEntry
  <2> DEFINE f == [Fresh(j, a) EXCEPT !.state = "PENDING"]
  <2> DEFINE e == IF p = None THEN f ELSE [f EXCEPT !.q = p]
  <2>2. Fresh(j, a) \in Entries /\ Fresh(j, a).ipaddr = a /\ j \in Slots
    BY <2>1, FoundEntry
  <2>3. f.q = Fresh(j, a).q
    BY <2>2 DEF Entries
  <2>4. /\ e \in Entries /\ e.ipaddr = a /\ e.state = "PENDING"
        /\ e.ctime = Fresh(j, a).ctime /\ e.q = IF p = None THEN Fresh(j, a).q ELSE p
    BY <2>2 DEF Entries, States
  <2>5. /\ Becomes(j, e)
        /\ p = None => live' = live \ Dropped(j, a)
        /\ p # None => /\ p \in Pbufs \ live
                       /\ live' = ((live \ Dropped(j, a)) \ {Fresh(j, a).q}) \cup {p}
    BY <2>1, <2>3
  <2> HIDE DEF e, f
  <2>6. e.state # "EMPTY" /\ e.state \notin Stable
    BY <2>4 DEF Stable
  <2>7. \/ e.q = arp_table[j].q /\ live' = live
        \/ /\ e.q = None \/ e.q \in Pbufs \ live
           /\ live' = (live \ {arp_table[j].q}) \cup ({e.q} \ {None})
    <3>1. CASE Fresh(j, a) = arp_table[j] /\ Dropped(j, a) = {}
      BY <1>1, <2>4, <2>5, <3>1
    <3>2. CASE Fresh(j, a).q = None /\ Dropped(j, a) = {arp_table[j].q} \ {None}
      BY <1>1, <2>4, <2>5, <3>2
    <3> QED BY <2>12, <3>1, <3>2
  <2>8. /\ e.ctime \in {0, arp_table[j].ctime}
        /\ \A k \in Slots : k # j /\ arp_table[k].state # "EMPTY" => arp_table[k].ipaddr # a
        /\ \/ arp_table[j].ipaddr = a
           \/ arp_table[j].state = "EMPTY" \/ arp_table[j].q = None \/ arp_table[j].state \in Stable
           \/ Queued = Slots /\ \A k \in Slots : arp_table[k].ctime <= arp_table[j].ctime
    BY <2>4, <2>11, <2>12
  <2>9. Touches(j, a, e)
    BY <2>4, <2>5, <2>6, <2>7, <2>8 DEF Touches
  <2> QED BY <2>2, <2>4, <2>9
<1> QED BY <1>2, <1>3, <1>4 DEF Stack

(* What the stack does to one entry keeps the table. *)
LEMMA TouchesStep ==
    ASSUME IInv, NEW j \in Slots, NEW a \in Hosts, NEW entry \in Entries, Touches(j, a, entry)
    PROVE  IInv'
<1>1. TypeOK /\ UniqueInv /\ PlaceInv /\ AgeInv /\ StableInv /\ HeldInv
  BY DEF IInv, QuietInv, Touches, Becomes
<1>2. /\ arp_table' = [arp_table EXCEPT ![j] = entry]
      /\ clash' = (tmr \in Window /\ j = i)
      /\ tmr' = tmr /\ i' = i /\ state' = state /\ ctime' = ctime
  BY DEF Touches, Becomes, tmrVars
<1>3. arp_table'[j] = entry /\ \A k \in Slots : k # j => arp_table'[k] = arp_table[k]
  BY <1>1, <1>2 DEF TypeOK
<1>4. None \notin live /\ None \notin Pbufs
  BY <1>1, Consts DEF TypeOK
<1>5. TypeOK'
  <2>1. arp_table' \in [Slots -> Entries]
    BY <1>1, <1>2 DEF TypeOK
  <2>2. live' \subseteq Pbufs
    BY <1>1 DEF Touches, TypeOK
  <2>3. clash' \in BOOLEAN
    BY <1>2
  <2> QED BY <1>1, <1>2, <2>1, <2>2, <2>3 DEF TypeOK
<1>6. UniqueInv'
  BY <1>1, <1>3 DEF UniqueInv, Touches
<1>7. ASSUME ~clash' PROVE PlaceInv' /\ AgeInv' /\ StableInv' /\ HeldInv'
  <2>1. j = i => tmr \notin Window
    BY <1>2, <1>7
  <2>2. entry.state # "EMPTY" /\ entry.ctime \in {0, arp_table[j].ctime}
    BY DEF Touches
  <2>3. PlaceInv'
    <3>1. /\ tmr' \in {"clear_ctime", "clear_ipaddr", "clear_ethaddr"} => arp_table'[i'].state = "EMPTY"
          /\ tmr' \in {"empty", "clear_ctime", "clear_ipaddr", "clear_ethaddr"} => arp_table'[i'].q = None
          /\ tmr' = "reset" => arp_table'[i'].state = "STABLE_REREQUESTING"
      <4>1. CASE j = i
        BY <1>2, <2>1, <4>1 DEF Window, Freeing
      <4>2. CASE j # i
        BY <1>1, <1>2, <1>3, <4>2 DEF PlaceInv, TypeOK
      <4> QED BY <4>1, <4>2
    <3>2. \A k \in Slots : arp_table'[k].state = "EMPTY" => arp_table'[k].q = None
      BY <1>1, <1>3, <2>2 DEF PlaceInv
    <3> QED BY <3>1, <3>2 DEF PlaceInv
  <2>4. AgeInv'
    <3>1. ARP_MAXAGE >= 1 /\ ARP_MAXAGE \in Nat /\ i \in Slots
      BY <1>1, Consts DEF TypeOK
    <3>2. \A k \in Slots : arp_table'[k].ctime < ARP_MAXAGE \/ (k = i' /\ tmr' \in Counted)
      BY <1>1, <1>2, <1>3, <2>2, <3>1 DEF AgeInv
    <3>3. tmr' = "expired" => arp_table'[i'].ctime \in {ctime', 0}
      BY <1>1, <1>2, <1>3, <2>2, <3>1 DEF AgeInv
    <3> QED BY <3>2, <3>3 DEF AgeInv
  <2>5. StableInv'
    <3>1. entry.state \in Stable => entry.ethaddr = entry.ipaddr /\ entry.q = None
      BY <1>1 DEF Touches, StableInv
    <3> QED BY <1>1, <1>3, <3>1 DEF StableInv
  <2>6. HeldInv'
    <3>1. ~(tmr = "unlink" /\ j = i)
      BY <2>1 DEF Window, Freeing
    <3>2. /\ Holds(j) <=> arp_table[j].q # None
          /\ Holds(j)' <=> entry.q # None
          /\ \A k \in Slots : k # j => (Holds(k)' <=> Holds(k))
      BY <1>2, <1>3, <3>1 DEF Holds
    <3>3. CASE entry.q = arp_table[j].q /\ live' = live
      <4>1. \A k \in Slots : arp_table'[k].q = arp_table[k].q /\ (Holds(k)' <=> Holds(k))
        BY <1>3, <3>2, <3>3
      <4> QED BY <1>1, <3>3, <4>1 DEF HeldInv
    <3>4. CASE /\ entry.q = None \/ entry.q \in Pbufs \ live
               /\ live' = (live \ {arp_table[j].q}) \cup ({entry.q} \ {None})
      <4>1. \A k \in Slots : Holds(k)' => arp_table'[k].q \in live'
        <5> TAKE k \in Slots
        <5>1. CASE k = j
          BY <1>3, <3>2, <3>4, <5>1
        <5>2. CASE k # j
          <6>1. Holds(k) => arp_table[k].q \in live /\ arp_table[k].q # arp_table[j].q
            BY <1>1, <3>2, <5>2 DEF HeldInv, Holds
          <6> QED BY <1>3, <3>2, <3>4, <5>2, <6>1
        <5> QED BY <5>1, <5>2
      <4>2. \A p \in live' : \E k \in Slots : Holds(k)' /\ arp_table'[k].q = p
        <5> TAKE p \in live'
        <5>1. CASE p = entry.q /\ p # None
          BY <1>3, <3>2, <5>1
        <5>2. CASE p \in live /\ p # arp_table[j].q
          <6>1. PICK k \in Slots : Holds(k) /\ arp_table[k].q = p
            BY <1>1, <5>2 DEF HeldInv
          <6> QED BY <1>3, <3>2, <5>2, <6>1
        <5> QED BY <3>4, <5>1, <5>2
      <4>3. \A k, l \in Slots : Holds(k)' /\ Holds(l)' /\ k # l => arp_table'[k].q # arp_table'[l].q
        BY <1>1, <1>3, <3>2, <3>4 DEF HeldInv
      <4> QED BY <4>1, <4>2, <4>3 DEF HeldInv
    <3> QED BY <3>3, <3>4 DEF Touches
  <2> QED BY <2>3, <2>4, <2>5, <2>6
<1> QED BY <1>5, <1>6, <1>7 DEF IInv, QuietInv
-----------------------------------------------------------------------------
(* etharp_tmr, access by access.                                             *)

LEMMA Quiet == ASSUME IInv, ~clash
               PROVE  TypeOK /\ UniqueInv /\ PlaceInv /\ AgeInv /\ StableInv /\ HeldInv /\ i \in Slots
BY DEF IInv, QuietInv, TypeOK

(* The next entry, and the end of the loop. *)
LEMMA NextEntryType ==
    ASSUME i \in Slots, NextEntry
    PROVE  i' \in Slots /\ state' \in States /\ ctime' \in 0 .. ARP_MAXAGE /\ Done \in {"idle", "state"}
BY SlotAfter, Consts DEF NextEntry, States, Done

(* An access that only looks. *)
LEMMA LooksStep ==
    ASSUME IInv, ~clash, UNCHANGED <<arp_table, live>>, tmr # "unlink", tmr' # "unlink",
           i' \in Slots, state' \in States, ctime' \in 0 .. ARP_MAXAGE, clash' \in BOOLEAN,
           tmr' \in Window \cup {"idle", "state", "ctime", "count", "expired", "rerequesting", "free"},
           ~clash' => PlaceInv' /\ AgeInv'
    PROVE  IInv'
<1>1. TypeOK /\ UniqueInv /\ StableInv /\ HeldInv
  BY Quiet
<1>2. TypeOK' /\ UniqueInv' /\ StableInv'
  BY <1>1 DEF TypeOK, UniqueInv, StableInv
<1>3. HeldInv'
  <2>1. \A j \in Slots : Holds(j)' <=> Holds(j)
    BY DEF Holds
  <2> QED BY <1>1, <2>1 DEF HeldInv
<1> QED BY <1>2, <1>3 DEF IInv, QuietInv

LEMMA CallStep == ASSUME IInv, Call PROVE IInv'
<1>1. /\ ~clash /\ tmr = "idle" /\ tmr' = "state"
      /\ UNCHANGED <<arp_table, live, i, state, ctime, clash>>
  BY DEF Call, At
<1>2. PlaceInv' /\ AgeInv'
  BY <1>1, Quiet DEF PlaceInv, AgeInv, Counted
<1> QED BY <1>1, <1>2, Quiet, LooksStep DEF TypeOK

LEMMA ReadStateStep == ASSUME IInv, ReadState PROVE IInv'
<1>1. ~clash /\ tmr = "state" /\ UNCHANGED <<arp_table, live, clash>>
  BY DEF ReadState, At
<1>2. CASE tmr' = Done /\ NextEntry
  <2>1. /\ i' \in Slots /\ state' \in States /\ ctime' \in 0 .. ARP_MAXAGE
        /\ tmr' \in {"idle", "state"}
    BY <1>1, <1>2, Quiet, NextEntryType
  <2>2. PlaceInv' /\ AgeInv'
    BY <1>1, <2>1, Quiet DEF PlaceInv, AgeInv, Counted
  <2> QED BY <1>1, <2>1, <2>2, Quiet, LooksStep DEF TypeOK
<1>3. CASE tmr' = "ctime" /\ state' = arp_table[i].state /\ UNCHANGED <<i, ctime>>
  <2>1. PlaceInv' /\ AgeInv'
    BY <1>1, <1>3, Quiet DEF PlaceInv, AgeInv, Counted
  <2>2. state' \in States
    BY <1>1, <1>3, Quiet, EntryType
  <2> QED BY <1>1, <1>3, <2>1, <2>2, Quiet, LooksStep DEF TypeOK
<1> QED BY <1>2, <1>3 DEF ReadState, At

LEMMA ReadCtimeStep == ASSUME IInv, ReadCtime PROVE IInv'
<1>1. /\ ~clash /\ tmr = "ctime" /\ tmr' = "count" /\ UNCHANGED <<i, state, arp_table, live, clash>>
      /\ ctime' = (arp_table[i].ctime + 1) % 256
  BY DEF ReadCtime, At
<1>2. arp_table[i].ctime \in Nat /\ arp_table[i].ctime < ARP_MAXAGE
  <2>1. arp_table[i].ctime \in 0 .. ARP_MAXAGE
    BY <1>1, Quiet, EntryType
  <2> QED BY <1>1, <2>1, Quiet, Consts DEF AgeInv, Counted
<1>3. ctime' \in 0 .. ARP_MAXAGE
  BY <1>1, <1>2, Consts
<1>4. PlaceInv' /\ AgeInv'
  BY <1>1, Quiet DEF PlaceInv, AgeInv, Counted
<1> QED BY <1>1, <1>3, <1>4, Quiet, LooksStep DEF TypeOK

LEMMA TestExpiredStep == ASSUME IInv, TestExpired PROVE IInv'
<1>1. PICK s \in {state, arp_table[i].state}, t \in {ctime, arp_table[i].ctime} :
         At("expired", IF ExpiredAt(s, t) THEN "free" ELSE "rerequesting")
  BY DEF TestExpired
<1>2. /\ ~clash /\ tmr = "expired" /\ UNCHANGED <<i, state, ctime, arp_table, live, clash>>
      /\ tmr' = IF ExpiredAt(s, t) THEN "free" ELSE "rerequesting"
  BY <1>1 DEF TestExpired, At, Keep
<1>3. PlaceInv'
  BY <1>2, Quiet DEF PlaceInv
<1>4. AgeInv'
  <2>1. CASE ExpiredAt(s, t)
    BY <1>2, <2>1, Quiet DEF AgeInv, Counted
  <2>2. CASE ~ExpiredAt(s, t)
    <3>1. arp_table[i].ctime \in {ctime, 0} /\ arp_table[i].ctime \in 0 .. ARP_MAXAGE
      BY <1>2, Quiet, EntryType DEF AgeInv
    <3>2. ctime \in 0 .. ARP_MAXAGE
      BY <1>2, Quiet DEF TypeOK
    <3>3. ~(t >= ARP_MAXAGE)
      BY <2>2 DEF ExpiredAt
    <3>4. arp_table[i].ctime < ARP_MAXAGE
      BY <3>1, <3>2, <3>3, Consts
    <3> QED BY <1>2, <2>2, <3>4, Quiet DEF AgeInv, Counted
  <2> QED BY <2>1, <2>2
<1>5. tmr' \in {"free", "rerequesting"}
  BY <1>2
<1> QED BY <1>2, <1>3, <1>4, <1>5, Quiet, LooksStep DEF TypeOK

LEMMA TestRerequestingStep == ASSUME IInv, TestRerequesting PROVE IInv'
<1>1. PICK s \in {state, arp_table[i].state} :
          IF s = "STABLE_REREQUESTING"
          THEN /\ At("rerequesting", "reset") /\ Keep
               /\ clash' = (s # arp_table[i].state)
          ELSE /\ At("rerequesting", Done) /\ NextEntry
               /\ UNCHANGED clash
  BY DEF TestRerequesting
<1>2. ~clash /\ tmr = "rerequesting" /\ UNCHANGED <<arp_table, live>>
  BY <1>1 DEF TestRerequesting, At
<1>3. CASE /\ s = "STABLE_REREQUESTING" /\ tmr' = "reset" /\ Keep
           /\ clash' = (s # arp_table[i].state)
  <2>1. ~clash' => PlaceInv' /\ AgeInv'
    BY <1>2, <1>3, Quiet DEF PlaceInv, AgeInv, Counted, Keep
  <2>2. clash' \in BOOLEAN
    BY <1>3
  <2>3. tmr' \in Window
    BY <1>3 DEF Window
  <2> QED BY <1>2, <1>3, <2>1, <2>2, <2>3, Quiet, LooksStep DEF TypeOK, Keep
<1>4. CASE tmr' = Done /\ NextEntry /\ UNCHANGED clash
  <2>1. /\ i' \in Slots /\ state' \in States /\ ctime' \in 0 .. ARP_MAXAGE
        /\ tmr' \in {"idle", "state"}
    BY <1>2, <1>4, Quiet, NextEntryType
  <2>2. PlaceInv' /\ AgeInv'
    BY <1>2, <2>1, Quiet DEF PlaceInv, AgeInv, Counted
  <2> QED BY <1>2, <1>4, <2>1, <2>2, Quiet, LooksStep DEF TypeOK
<1> QED BY <1>1, <1>3, <1>4 DEF At

(* An access that writes the entry it is at, and not its packet. *)
LEMMA WritesStep ==
    ASSUME IInv, ~clash, ~clash', NEW entry \in Entries,
           arp_table' = [arp_table EXCEPT ![i] = entry], live' = live,
           entry.q = arp_table[i].q, tmr # "unlink", tmr' # "unlink",
           i' \in Slots, state' \in States, ctime' \in 0 .. ARP_MAXAGE, clash' \in BOOLEAN,
           tmr' \in Window \cup {"idle", "state", "ctime", "count", "expired", "rerequesting", "free"},
           \/ entry.state = "EMPTY" /\ entry.q = None
           \/ /\ arp_table[i].state # "EMPTY" \/ entry.state = "EMPTY"
              /\ entry.ipaddr = arp_table[i].ipaddr /\ entry.ethaddr = arp_table[i].ethaddr
              /\ entry.state \in Stable => arp_table[i].state \in Stable,
           PlaceInv', AgeInv'
    PROVE  IInv'
<1>1. TypeOK /\ UniqueInv /\ StableInv /\ HeldInv /\ i \in Slots
  BY Quiet
<1>2. arp_table'[i] = entry /\ \A k \in Slots : k # i => arp_table'[k] = arp_table[k]
  BY <1>1 DEF TypeOK
<1>3. TypeOK'
  <2>1. arp_table' \in [Slots -> Entries]
    BY <1>1 DEF TypeOK
  <2> QED BY <1>1, <2>1 DEF TypeOK
<1>4. UniqueInv'
  BY <1>1, <1>2 DEF UniqueInv
<1>5. StableInv'
  BY <1>1, <1>2 DEF StableInv, Stable
<1>6. HeldInv'
  <2>1. \A j \in Slots : arp_table'[j].q = arp_table[j].q /\ (Holds(j)' <=> Holds(j))
    BY <1>2 DEF Holds
  <2> QED BY <1>1, <2>1 DEF HeldInv
<1> QED BY <1>3, <1>4, <1>5, <1>6 DEF IInv, QuietInv

LEMMA WriteCtimeStep == ASSUME IInv, WriteCtime PROVE IInv'
<1>1. /\ ~clash /\ ~clash' /\ tmr = "count" /\ tmr' = "expired"
      /\ UNCHANGED <<i, state, ctime, live, clash>>
      /\ arp_table' = [arp_table EXCEPT ![i].ctime = ctime]
  BY DEF WriteCtime, At, Keep
<1>2. TypeOK /\ i \in Slots
  BY <1>1, Quiet
<1> DEFINE e == [arp_table[i] EXCEPT !.ctime = ctime]
<1>3. /\ e \in Entries /\ e.ctime = ctime /\ e.q = arp_table[i].q /\ e.state = arp_table[i].state
      /\ e.ipaddr = arp_table[i].ipaddr /\ e.ethaddr = arp_table[i].ethaddr
  BY <1>2, EntryType DEF Entries, TypeOK
<1>4. arp_table' = [arp_table EXCEPT ![i] = e]
  BY <1>1
<1> HIDE DEF e
<1>5. arp_table'[i] = e /\ \A k \in Slots : k # i => arp_table'[k] = arp_table[k]
  BY <1>2, <1>4 DEF TypeOK
<1>6. PlaceInv'
  BY <1>1, <1>3, <1>5, Quiet DEF PlaceInv
<1>7. AgeInv'
  BY <1>1, <1>3, <1>5, Quiet DEF AgeInv, Counted
<1> QED BY <1>1, <1>2, <1>3, <1>4, <1>6, <1>7, WritesStep DEF TypeOK

LEMMA ResetStep == ASSUME IInv, Reset PROVE IInv'
<1>1. /\ ~clash /\ ~clash' /\ tmr = "reset" /\ tmr' = Done /\ NextEntry
      /\ UNCHANGED <<live, clash>>
      /\ arp_table' = [arp_table EXCEPT ![i].state = "STABLE"]
  BY DEF Reset, At
<1>2. TypeOK /\ i \in Slots /\ arp_table[i].state = "STABLE_REREQUESTING"
  BY <1>1, Quiet DEF PlaceInv
<1>3. /\ i' \in Slots /\ state' \in States /\ ctime' \in 0 .. ARP_MAXAGE
      /\ tmr' \in {"idle", "state"}
  BY <1>1, <1>2, NextEntryType
<1> DEFINE e == [arp_table[i] EXCEPT !.state = "STABLE"]
<1>4. /\ e \in Entries /\ e.ctime = arp_table[i].ctime /\ e.q = arp_table[i].q /\ e.state = "STABLE"
      /\ e.ipaddr = arp_table[i].ipaddr /\ e.ethaddr = arp_table[i].ethaddr
  BY <1>2, EntryType DEF Entries, States
<1>5. arp_table' = [arp_table EXCEPT ![i] = e]
  BY <1>1
<1> HIDE DEF e
<1>6. arp_table'[i] = e /\ \A k \in Slots : k # i => arp_table'[k] = arp_table[k]
  BY <1>2, <1>5 DEF TypeOK
<1>7. PlaceInv'
  BY <1>1, <1>3, <1>4, <1>6, Quiet DEF PlaceInv
<1>8. AgeInv'
  BY <1>1, <1>3, <1>4, <1>6, Quiet DEF AgeInv, Counted
<1>9. arp_table[i].state # "EMPTY" /\ arp_table[i].state \in Stable
  BY <1>2 DEF Stable
<1> QED BY <1>1, <1>2, <1>3, <1>4, <1>5, <1>7, <1>8, <1>9, WritesStep DEF TypeOK

LEMMA FreePacketStep == ASSUME IInv, FreePacket PROVE IInv'
<1>1. ~clash /\ UNCHANGED <<i, state, ctime, arp_table, clash>>
  BY DEF FreePacket, At, Keep
<1>2. CASE /\ At("free", IF arp_table[i].q # None THEN "free_q" ELSE "empty")
           /\ UNCHANGED live
  <2>1. PlaceInv' /\ AgeInv'
    BY <1>1, <1>2, Quiet DEF At, PlaceInv, AgeInv, Counted
  <2>2. tmr = "free" /\ tmr' \in {"free_q", "empty"}
    BY <1>2 DEF At
  <2> QED BY <1>1, <1>2, <2>1, <2>2, Quiet, LooksStep DEF TypeOK, Window, Freeing
<1>3. CASE At("free_q", "unlink") /\ live' = live \ {arp_table[i].q}
  <2>1. /\ tmr = "free_q" /\ tmr' = "unlink"
        /\ TypeOK /\ UniqueInv /\ PlaceInv /\ AgeInv /\ StableInv /\ HeldInv /\ i \in Slots
    BY <1>1, <1>3, Quiet DEF At
  <2>2. TypeOK' /\ UniqueInv' /\ StableInv' /\ PlaceInv' /\ AgeInv'
    BY <1>1, <1>3, <2>1
       DEF TypeOK, UniqueInv, StableInv, PlaceInv, AgeInv, Counted, Window, Freeing
  <2>3. HeldInv'
    <3>1. \A j \in Slots : Holds(j)' <=> Holds(j) /\ j # i
      BY <1>1, <2>1 DEF Holds
    <3>2. \A j \in Slots : Holds(j) <=> arp_table[j].q # None
      BY <2>1 DEF Holds
    <3>3. None \notin live
      BY <2>1, Consts DEF TypeOK
    <3>4. \A j \in Slots : Holds(j)' => arp_table'[j].q \in live'
      BY <1>1, <1>3, <2>1, <3>1, <3>2 DEF HeldInv
    <3>5. \A p \in live' : \E j \in Slots : Holds(j)' /\ arp_table'[j].q = p
      BY <1>1, <1>3, <2>1, <3>1 DEF HeldInv
    <3>6. \A j, k \in Slots : Holds(j)' /\ Holds(k)' /\ j # k => arp_table'[j].q # arp_table'[k].q
      BY <1>1, <2>1, <3>1 DEF HeldInv
    <3> QED BY <3>4, <3>5, <3>6 DEF HeldInv
  <2> QED BY <2>2, <2>3 DEF IInv, QuietInv
<1> QED BY <1>2, <1>3 DEF FreePacket

(* The packet that was freed is unlinked. *)
LEMMA UnlinkStep ==
    ASSUME IInv, Put("unlink", "empty", [arp_table[i] EXCEPT !.q = None]), Keep
    PROVE  IInv'
<1> DEFINE e == [arp_table[i] EXCEPT !.q = None]
<1>1. /\ ~clash /\ tmr = "unlink" /\ tmr' = "empty"
      /\ arp_table' = [arp_table EXCEPT ![i] = e] /\ UNCHANGED <<i, state, ctime, live, clash>>
  BY DEF Put, At, Keep
<1>2. TypeOK /\ UniqueInv /\ PlaceInv /\ AgeInv /\ StableInv /\ HeldInv /\ i \in Slots
  BY <1>1, Quiet
<1>3. /\ e \in Entries /\ e.ctime = arp_table[i].ctime /\ e.q = None
      /\ e.state = arp_table[i].state
      /\ e.ipaddr = arp_table[i].ipaddr /\ e.ethaddr = arp_table[i].ethaddr
  BY <1>2, EntryType DEF Entries
<1> HIDE DEF e
<1>4. arp_table'[i] = e /\ \A k \in Slots : k # i => arp_table'[k] = arp_table[k]
  BY <1>1, <1>2 DEF TypeOK
<1>5. TypeOK'
  <2>1. arp_table' \in [Slots -> Entries]
    BY <1>1, <1>2, <1>3 DEF TypeOK
  <2> QED BY <1>1, <1>2, <2>1 DEF TypeOK, Window, Freeing
<1>6. UniqueInv' /\ StableInv'
  BY <1>2, <1>3, <1>4 DEF UniqueInv, StableInv
<1>7. PlaceInv'
  BY <1>1, <1>2, <1>3, <1>4 DEF PlaceInv
<1>8. AgeInv'
  BY <1>1, <1>2, <1>3, <1>4 DEF AgeInv, Counted
<1>9. HeldInv'
  <2>1. \A j \in Slots : (Holds(j)' <=> Holds(j)) /\ (Holds(j) => arp_table'[j].q = arp_table[j].q)
    BY <1>1, <1>3, <1>4 DEF Holds
  <2> QED BY <1>1, <1>2, <2>1 DEF HeldInv
<1> QED BY <1>5, <1>6, <1>7, <1>8, <1>9 DEF IInv, QuietInv

(* The entry is emptied and cleared. *)
LEMMA EmptyStep ==
    ASSUME IInv, Put("empty", "clear_ctime", [arp_table[i] EXCEPT !.state = "EMPTY"]), Keep
    PROVE  IInv'
<1> DEFINE e == [arp_table[i] EXCEPT !.state = "EMPTY"]
<1>1. /\ ~clash /\ tmr = "empty" /\ tmr' = "clear_ctime"
      /\ arp_table' = [arp_table EXCEPT ![i] = e] /\ UNCHANGED <<i, state, ctime, live, clash>>
  BY DEF Put, At, Keep
<1>2. TypeOK /\ i \in Slots /\ arp_table[i].q = None
  BY <1>1, Quiet DEF PlaceInv
<1>3. /\ e \in Entries /\ e.ctime = arp_table[i].ctime /\ e.q = arp_table[i].q /\ e.state = "EMPTY"
  BY <1>2, EntryType DEF Entries, States
<1> HIDE DEF e
<1>4. arp_table'[i] = e /\ \A k \in Slots : k # i => arp_table'[k] = arp_table[k]
  BY <1>1, <1>2 DEF TypeOK
<1>5. PlaceInv'
  BY <1>1, <1>2, <1>3, <1>4, Quiet DEF PlaceInv
<1>6. AgeInv'
  BY <1>1, <1>3, <1>4, Quiet DEF AgeInv, Counted
<1>7. tmr' \in Window
  BY <1>1 DEF Window, Freeing
<1> QED BY <1>1, <1>2, <1>3, <1>5, <1>6, <1>7, WritesStep DEF TypeOK

(* A cleared field of an entry that is empty. *)
LEMMA ClearStep ==
    ASSUME IInv, ~clash, clash' = clash, NEW entry \in Entries,
           tmr \in {"clear_ctime", "clear_ipaddr", "clear_ethaddr"},
           entry.state = arp_table[i].state, entry.q = arp_table[i].q,
           entry.ctime \in {0, arp_table[i].ctime}, tmr = "clear_ctime" => entry.ctime = 0,
           arp_table' = [arp_table EXCEPT ![i] = entry], live' = live,
           \/ /\ tmr' \in {"clear_ipaddr", "clear_ethaddr"}
              /\ i' = i /\ state' = state /\ ctime' = ctime
           \/ tmr' = Done /\ NextEntry
    PROVE  IInv'
<1>1. TypeOK /\ i \in Slots /\ arp_table[i].q = None /\ arp_table[i].state = "EMPTY"
  BY Quiet DEF PlaceInv
<1>2. arp_table'[i] = entry /\ \A k \in Slots : k # i => arp_table'[k] = arp_table[k]
  BY <1>1 DEF TypeOK
<1>3. \A k \in Slots : arp_table'[k].ctime < ARP_MAXAGE
  <2> TAKE k \in Slots
  <2>1. CASE k # i
    BY <1>2, <2>1, Quiet DEF AgeInv
  <2>2. CASE k = i /\ tmr = "clear_ctime"
    BY <1>2, <2>2, Consts
  <2>3. CASE k = i /\ tmr # "clear_ctime"
    <3>1. arp_table[i].ctime < ARP_MAXAGE
      BY <1>1, <2>3, Quiet DEF AgeInv, Counted
    <3> QED BY <1>2, <2>3, <3>1, Consts
  <2> QED BY <2>1, <2>2, <2>3
<1>4. \A k \in Slots : arp_table'[k].state = "EMPTY" => arp_table'[k].q = None
  BY <1>1, <1>2, Quiet DEF PlaceInv
<1>5. CASE /\ tmr' \in {"clear_ipaddr", "clear_ethaddr"}
           /\ i' = i /\ state' = state /\ ctime' = ctime
  <2>1. PlaceInv' /\ AgeInv'
    BY <1>1, <1>2, <1>3, <1>4, <1>5 DEF PlaceInv, AgeInv
  <2>2. tmr' \in Window
    BY <1>5 DEF Window, Freeing
  <2>3. i' \in Slots /\ state' \in States /\ ctime' \in 0 .. ARP_MAXAGE /\ clash' \in BOOLEAN /\ ~clash'
    BY <1>1, <1>5 DEF TypeOK
  <2>4. entry.state = "EMPTY" /\ entry.q = None
    BY <1>1
  <2> QED BY <1>1, <1>5, <2>1, <2>2, <2>3, <2>4, WritesStep
<1>6. CASE tmr' = Done /\ NextEntry
  <2>1. /\ i' \in Slots /\ state' \in States /\ ctime' \in 0 .. ARP_MAXAGE
        /\ tmr' \in {"idle", "state"}
    BY <1>1, <1>6, NextEntryType
  <2>2. PlaceInv' /\ AgeInv'
    BY <1>3, <1>4, <2>1 DEF PlaceInv, AgeInv
  <2>3. entry.state = "EMPTY" /\ entry.q = None /\ clash' \in BOOLEAN /\ ~clash'
    BY <1>1 DEF TypeOK
  <2> QED BY <1>1, <2>1, <2>2, <2>3, WritesStep
<1> QED BY <1>5, <1>6

LEMMA FreeEntryStep == ASSUME IInv, FreeEntry PROVE IInv'
<1>1. ~clash => TypeOK /\ i \in Slots /\ arp_table[i] \in Entries
  BY Quiet, EntryType
<1>2. CASE Put("unlink", "empty", [arp_table[i] EXCEPT !.q = None]) /\ Keep
  BY <1>2, UnlinkStep
<1>3. CASE Put("empty", "clear_ctime", [arp_table[i] EXCEPT !.state = "EMPTY"]) /\ Keep
  BY <1>3, EmptyStep
<1>4. CASE Put("clear_ctime", "clear_ipaddr", [arp_table[i] EXCEPT !.ctime = 0]) /\ Keep
  <2> DEFINE e == [arp_table[i] EXCEPT !.ctime = 0]
  <2>1. /\ ~clash /\ clash' = clash /\ tmr = "clear_ctime" /\ tmr' = "clear_ipaddr" /\ live' = live
        /\ arp_table' = [arp_table EXCEPT ![i] = e]
        /\ i' = i /\ state' = state /\ ctime' = ctime
    BY <1>4 DEF Put, At, Keep
  <2>2. 0 \in 0 .. ARP_MAXAGE
    BY Consts
  <2>3. /\ e \in Entries /\ e.state = arp_table[i].state /\ e.q = arp_table[i].q /\ e.ctime = 0
    BY <1>1, <2>1, <2>2 DEF Entries
  <2> HIDE DEF e
  <2> QED BY <2>1, <2>3, ClearStep
<1>5. CASE Put("clear_ipaddr", "clear_ethaddr", [arp_table[i] EXCEPT !.ipaddr = None]) /\ Keep
  <2> DEFINE e == [arp_table[i] EXCEPT !.ipaddr = None]
  <2>1. /\ ~clash /\ clash' = clash /\ tmr = "clear_ipaddr" /\ tmr' = "clear_ethaddr" /\ live' = live
        /\ arp_table' = [arp_table EXCEPT ![i] = e]
        /\ i' = i /\ state' = state /\ ctime' = ctime
    BY <1>5 DEF Put, At, Keep
  <2>2. /\ e \in Entries /\ e.state = arp_table[i].state /\ e.q = arp_table[i].q
        /\ e.ctime = arp_table[i].ctime
    BY <1>1, <2>1 DEF Entries
  <2> HIDE DEF e
  <2> QED BY <2>1, <2>2, ClearStep
<1>6. CASE Put("clear_ethaddr", Done, [arp_table[i] EXCEPT !.ethaddr = None]) /\ NextEntry
  <2> DEFINE e == [arp_table[i] EXCEPT !.ethaddr = None]
  <2>1. /\ ~clash /\ clash' = clash /\ tmr = "clear_ethaddr" /\ tmr' = Done /\ live' = live
        /\ arp_table' = [arp_table EXCEPT ![i] = e]
    BY <1>6 DEF Put, At
  <2>2. /\ e \in Entries /\ e.state = arp_table[i].state /\ e.q = arp_table[i].q
        /\ e.ctime = arp_table[i].ctime
    BY <1>1, <2>1 DEF Entries
  <2> HIDE DEF e
  <2> QED BY <1>6, <2>1, <2>2, ClearStep
<1> QED BY <1>2, <1>3, <1>4, <1>5, <1>6 DEF FreeEntry
-----------------------------------------------------------------------------
(* Every step of the stack and of etharp_tmr keeps the invariant. *)
LEMMA NextInv == ASSUME IInv, [Next]_vars PROVE IInv'
<1>1. CASE Stack
  <2>1. PICK j \in Slots, a \in Hosts, entry \in Entries : Touches(j, a, entry)
    BY <1>1, StackTouches DEF IInv
  <2> QED BY <2>1, TouchesStep
<1>2. CASE etharp_tmr
  BY <1>2, CallStep, ReadStateStep, ReadCtimeStep, WriteCtimeStep, TestExpiredStep,
     TestRerequestingStep, ResetStep, FreePacketStep, FreeEntryStep DEF etharp_tmr
<1>3. CASE UNCHANGED vars
  BY <1>3 DEF vars, tmrVars, IInv, TypeOK, UniqueInv, QuietInv, PlaceInv, AgeInv, StableInv,
              HeldInv, Holds
<1> QED BY <1>1, <1>2, <1>3 DEF Next, Clashed

THEOREM Invariance == Spec => []IInv
BY InitInv, NextInv, PTL DEF Spec

(* Ages stay in their range and no address has two entries, whatever etharp_tmr was about *)
(* to do to an entry when the stack came in between.                                      *)
THEOREM TableKept == Spec => []TableInv
<1>1. IInv => TableInv
  BY UniqueIs DEF IInv, TableInv
<1> QED BY Invariance, <1>1, PTL

(* A stable entry has the ethaddr of its own host and no packet, unless the interrupt took *)
(* the entry that was freed or reset.                                                      *)
THEOREM RightAddress == Spec => []RightHost
<1>1. IInv => RightHost
  BY DEF IInv, QuietInv, StableInv, RightHost, InState
<1> QED BY Invariance, <1>1, PTL

(* No packet that waits is lost, sent after it was freed, or freed twice, unless the *)
(* interrupt took the entry that was freed.                                          *)
THEOREM PacketsHeld == Spec => []HeldOnce
<1>1. ASSUME IInv, ~clash PROVE HeldOnce
  <2> DEFINE holders == {j \in Slots : arp_table[j].q # None} \ {j \in {i} : tmr = "unlink"}
  <2>1. HeldInv
    BY <1>1, Quiet
  <2>2. \A j : j \in holders <=> j \in Slots /\ Holds(j)
    BY DEF Holds
  <2> HIDE DEF holders
  <2>3. {arp_table[j].q : j \in holders} = live
    BY <2>1, <2>2 DEF HeldInv
  <2> DEFINE f == [j \in holders |-> arp_table[j].q]
  <2>4. f \in Bijection(holders, live)
    <3>1. f \in [holders -> live]
      BY <2>3
    <3>2. \A j, k \in holders : f[j] = f[k] => j = k
      BY <2>1, <2>2 DEF HeldInv
    <3>3. \A p \in live : \E j \in holders : f[j] = p
      BY <2>3
    <3> QED BY <3>1, <3>2, <3>3 DEF Bijection, Injection, IsInjective, Surjection
  <2>5. IsFiniteSet(holders)
    <3>1. IsFiniteSet(Slots)
      <4>1. 0 \in Int /\ ARP_TABLE_SIZE - 1 \in Int
        BY Consts
      <4> QED BY <4>1, FS_Interval DEF Slots
    <3>2. holders \in SUBSET Slots
      BY <2>2
    <3> QED BY <3>1, <3>2, FS_Subset
  <2>6. ExistsBijection(holders, live)
    BY <2>4 DEF ExistsBijection
  <2>7. Cardinality(live) = Cardinality(holders)
    BY <2>5, <2>6, FS_Bijection
  <2> QED BY <2>3, <2>7 DEF HeldOnce, holders
<1>2. IInv => HeldOnce
  BY <1>1 DEF HeldOnce
<1> QED BY Invariance, <1>2, PTL

(* A packet that waits is only given up for another host when every entry holds one, and *)
(* then it is the oldest.                                                                *)
THEOREM OldestGivenUp == Spec => GivenUpLast
<1>1. ASSUME IInv, [Next]_vars
      PROVE  [\A j \in Slots :
                 arp_table[j].q # None /\ arp_table'[j].ipaddr \notin {arp_table[j].ipaddr, None}
                 => Queued = Slots /\ \A k \in Slots : arp_table[k].ctime <= arp_table[j].ctime]_vars
  <2>1. SUFFICES ASSUME NEW j \in Slots, arp_table[j].q # None,
                        arp_table'[j].ipaddr \notin {arp_table[j].ipaddr, None}
                 PROVE  Queued = Slots /\ \A k \in Slots : arp_table[k].ctime <= arp_table[j].ctime
    OBVIOUS
  <2>2. TypeOK
    BY <1>1 DEF IInv
  <2>3. CASE Stack
    <3>1. PICK k \in Slots, a \in Hosts, entry \in Entries : Touches(k, a, entry)
      BY <1>1, <2>3, StackTouches DEF IInv
    <3>2. ~clash /\ arp_table' = [arp_table EXCEPT ![k] = entry] /\ entry.ipaddr = a
      BY <3>1 DEF Touches, Becomes
    <3>3. k = j /\ arp_table[j].ipaddr # a
      BY <2>1, <2>2, <3>2 DEF TypeOK
    <3>4. arp_table[j].state # "EMPTY" /\ arp_table[j].state \notin Stable
      BY <1>1, <2>1, <3>2, Quiet DEF PlaceInv, StableInv
    <3> QED BY <2>1, <3>1, <3>3, <3>4 DEF Touches
  <2>4. CASE etharp_tmr
    <3>1. \/ arp_table' = arp_table
          \/ arp_table' = [arp_table EXCEPT ![i].ctime = ctime]
          \/ arp_table' = [arp_table EXCEPT ![i].state = "STABLE"]
          \/ arp_table' = [arp_table EXCEPT ![i] = [arp_table[i] EXCEPT !.q = None]]
          \/ arp_table' = [arp_table EXCEPT ![i] = [arp_table[i] EXCEPT !.state = "EMPTY"]]
          \/ arp_table' = [arp_table EXCEPT ![i] = [arp_table[i] EXCEPT !.ctime = 0]]
          \/ arp_table' = [arp_table EXCEPT ![i] = [arp_table[i] EXCEPT !.ipaddr = None]]
          \/ arp_table' = [arp_table EXCEPT ![i] = [arp_table[i] EXCEPT !.ethaddr = None]]
      BY <2>4 DEF etharp_tmr, Call, ReadState, ReadCtime, WriteCtime, TestExpired, TestRerequesting,
                  Reset, FreePacket, FreeEntry, Put
    <3>2. arp_table \in [Slots -> Entries] /\ arp_table[i] \in Entries /\ i \in Slots
      BY <2>2, EntryType DEF TypeOK
    <3>3. arp_table'[j].ipaddr \in {arp_table[j].ipaddr, None}
      BY <3>1, <3>2 DEF Entries
    <3> QED BY <2>1, <3>3
  <2>5. CASE UNCHANGED vars
    BY <2>1, <2>5 DEF vars
  <2> QED BY <1>1, <2>3, <2>4, <2>5 DEF Next, Clashed
<1> QED BY Invariance, <1>1, PTL DEF Spec, GivenUpLast
-----------------------------------------------------------------------------
(* Reassembly.                                                               *)
(* The pbufs of a chain and of a list of datagrams, as sums. *)

ClenAt(p) == [k \in DOMAIN p |-> Clen(p[k])]

(* The fold over a chain is a sum over its places. *)
LEMMA ClensIsSum ==
    ASSUME NEW p, IsFiniteSet(DOMAIN p)
    PROVE  Clens(p) = SumOf(ClenAt(p), DOMAIN p)
<1> DEFINE D == DOMAIN p
           IsFold(g) == g = [s \in SUBSET D |->
                               IF s = {} THEN 0 ELSE Clen(p[Pick(s)]) + g[s \ {Pick(s)}]]
<1>1. Clens(p) = (CHOOSE g : IsFold(g))[D]
  BY Zenon DEF Clens, FoldSeq, FoldFunction, FoldFunctionOnSet, MapThenFoldSet, Pick
<1>2. ASSUME NEW g PROVE IsFold(g) <=> IsSum(g, ClenAt(p), SUBSET D)
  <2>1. ASSUME NEW s \in SUBSET D, s # {} PROVE Clen(p[Pick(s)]) = ClenAt(p)[Pick(s)]
    <3>1. Pick(s) \in D
      BY <2>1, PickIn
    <3> QED BY <3>1 DEF ClenAt
  <2>2. [s \in SUBSET D |-> IF s = {} THEN 0 ELSE Clen(p[Pick(s)]) + g[s \ {Pick(s)}]]
        = [s \in SUBSET D |-> IF s = {} THEN 0 ELSE ClenAt(p)[Pick(s)] + g[s \ {Pick(s)}]]
    BY <2>1, Zenon
  <2> QED BY <2>2, Zenon DEF IsSum
<1> HIDE DEF IsFold
<1>3. PICK h : IsSum(h, ClenAt(p), SUBSET D) /\ SumOf(ClenAt(p), D) = h[D]
  BY SumIsSum
<1>4. IsFold(CHOOSE g : IsFold(g))
  BY <1>2, <1>3
<1>5. PICK g : IsFold(g) /\ Clens(p) = g[D]
  BY <1>1, <1>4
<1>6. g[D] = h[D]
  <2>1. IsSum(g, ClenAt(p), SUBSET D)
    BY <1>2, <1>5
  <2>2. PICK f : f = ClenAt(p)
    OBVIOUS
  <2> QED BY <1>3, <2>1, <2>2, SumsAgree
<1> QED BY <1>3, <1>5, <1>6

Total(list) == FoldSeq(LAMBDA d, n : Clens(d.p) + n, 0, list)
TotalAt(list) == [k \in DOMAIN list |-> Clens(list[k].p)]

(* The fold over a list is a sum over its places. *)
LEMMA TotalIsSum ==
    ASSUME NEW list, IsFiniteSet(DOMAIN list)
    PROVE  Total(list) = SumOf(TotalAt(list), DOMAIN list)
<1> DEFINE D == DOMAIN list
           IsFold(g) == g = [s \in SUBSET D |->
                               IF s = {} THEN 0 ELSE Clens(list[Pick(s)].p) + g[s \ {Pick(s)}]]
<1>1. Total(list) = (CHOOSE g : IsFold(g))[D]
  BY Zenon DEF Total, FoldSeq, FoldFunction, FoldFunctionOnSet, MapThenFoldSet, Pick
<1>2. ASSUME NEW g PROVE IsFold(g) <=> IsSum(g, TotalAt(list), SUBSET D)
  <2>1. ASSUME NEW s \in SUBSET D, s # {} PROVE Clens(list[Pick(s)].p) = TotalAt(list)[Pick(s)]
    <3>1. Pick(s) \in D
      BY <2>1, PickIn
    <3> QED BY <3>1 DEF TotalAt
  <2>2. [s \in SUBSET D |-> IF s = {} THEN 0 ELSE Clens(list[Pick(s)].p) + g[s \ {Pick(s)}]]
        = [s \in SUBSET D |-> IF s = {} THEN 0 ELSE TotalAt(list)[Pick(s)] + g[s \ {Pick(s)}]]
    BY <2>1, Zenon
  <2> QED BY <2>2, Zenon DEF IsSum
<1> HIDE DEF IsFold
<1>3. PICK h : IsSum(h, TotalAt(list), SUBSET D) /\ SumOf(TotalAt(list), D) = h[D]
  BY SumIsSum
<1>4. IsFold(CHOOSE g : IsFold(g))
  BY <1>2, <1>3
<1>5. PICK g : IsFold(g) /\ Total(list) = g[D]
  BY <1>1, <1>4
<1>6. g[D] = h[D]
  <2>1. IsSum(g, TotalAt(list), SUBSET D)
    BY <1>2, <1>5
  <2>2. PICK f : f = TotalAt(list)
    OBVIOUS
  <2> QED BY <1>3, <2>1, <2>2, SumsAgree
<1> QED BY <1>3, <1>5, <1>6
-----------------------------------------------------------------------------
(* What inserting and removing do to a sequence, place by place. *)

(* q is a, of m elements, and then b, of n. *)
Joins(q, a, b, m, n) ==
    /\ Len(q) = m + n
    /\ \A k \in 1 .. m + n : q[k] = IF k <= m THEN a[k] ELSE b[k - m]

(* What the concatenation of two sequences is. *)
LEMMA Joined ==
    ASSUME NEW S, NEW a \in Seq(S), NEW b \in Seq(S), NEW q, q = a \o b,
           NEW m, m = Len(a), NEW n, n = Len(b)
    PROVE  q \in Seq(S) /\ Joins(q, a, b, m, n)
BY ConcatProperties DEF Joins

(* q is p with f put in at m. *)
Inserts(q, p, m, f) ==
    /\ Len(q) = Len(p) + 1
    /\ \A k \in 1 .. Len(p) + 1 :
           q[k] = IF k < m THEN p[k] ELSE IF k = m THEN f ELSE p[k - 1]

(* Inserting puts the new element at its place. *)
LEMMA Inserted ==
    ASSUME NEW S, NEW p \in Seq(S), NEW m \in 1 .. Len(p) + 1, NEW f \in S,
           NEW q, q = InsertAt(p, m, f)
    PROVE  q \in Seq(S) /\ Inserts(q, p, m, f)
<1>1. PICK a, b, c, L, n : /\ L = Len(p) /\ n = m - 1
                           /\ a = SubSeq(p, 1, n) /\ b = <<f>> /\ c = SubSeq(p, m, L)
  OBVIOUS
<1>2. L \in Nat /\ n \in Nat /\ n <= L /\ m = n + 1 /\ \A k \in 1 .. L : p[k] \in S
  BY <1>1, LenProperties, ElementOfSeq
<1>3. a \in Seq(S) /\ Len(a) = n /\ \A k \in 1 .. n : a[k] = p[k]
  BY <1>1, <1>2, SubSeqProperties
<1>4. c \in Seq(S) /\ Len(c) = L - n /\ \A k \in 1 .. L - n : c[k] = p[n + k]
  BY <1>1, <1>2, SubSeqProperties
<1>5. b \in Seq(S) /\ 1 = Len(b) /\ b[1] = f
  BY <1>1
<1>6. PICK d : d = a \o b
  OBVIOUS
<1>7. d \in Seq(S) /\ Joins(d, a, b, n, 1)
  <2>1. n = Len(a) /\ 1 = Len(b)
    BY <1>3, <1>5
  <2> QED BY <1>3, <1>5, <1>6, <2>1, Joined, Zenon
<1>8. q = d \o c
  BY <1>1, <1>6 DEF InsertAt
<1>9. PICK r : r = L - n
  OBVIOUS
<1>10. q \in Seq(S) /\ Joins(q, d, c, m, r)
  <2>1. m = Len(d) /\ r = Len(c)
    BY <1>2, <1>4, <1>7, <1>9 DEF Joins
  <2> QED BY <1>4, <1>7, <1>8, <2>1, Joined, Zenon
<1>11. m + r = L + 1
  BY <1>2, <1>9
<1>12. ASSUME NEW k \in 1 .. L + 1
       PROVE  q[k] = IF k < m THEN p[k] ELSE IF k = m THEN f ELSE p[k - 1]
  <2>1. CASE k < m
    <3>1. k \in 1 .. n /\ k \in 1 .. n + 1 /\ k \in 1 .. m + r /\ k <= m /\ k <= n
      BY <1>2, <1>11, <2>1
    <3>2. q[k] = d[k] /\ d[k] = a[k] /\ a[k] = p[k]
      BY <1>3, <1>7, <1>10, <3>1 DEF Joins
    <3> QED BY <2>1, <3>2
  <2>2. CASE k = m
    <3>1. k \in 1 .. n + 1 /\ k \in 1 .. m + r /\ k <= m /\ ~(k <= n) /\ k - n = 1 /\ ~(k < m)
      BY <1>2, <1>11, <2>2
    <3>2. q[k] = d[k] /\ d[k] = b[1]
      BY <1>7, <1>10, <3>1 DEF Joins
    <3> QED BY <1>5, <2>2, <3>1, <3>2
  <2>3. CASE k > m
    <3>1. /\ k \in 1 .. m + r /\ ~(k <= m) /\ k - m \in 1 .. L - n
          /\ n + (k - m) = k - 1 /\ ~(k < m) /\ k # m
      BY <1>2, <1>11, <2>3
    <3>2. q[k] = c[k - m] /\ c[k - m] = p[k - 1]
      BY <1>4, <1>10, <3>1 DEF Joins
    <3> QED BY <3>1, <3>2
  <2> QED BY <1>2, <2>1, <2>2, <2>3
<1> QED BY <1>1, <1>10, <1>11, <1>12 DEF Joins, Inserts

(* Removing leaves the others in their order. *)
LEMMA Removed ==
    ASSUME NEW S, NEW p \in Seq(S), NEW m \in 1 .. Len(p), NEW q, q = RemoveAt(p, m)
    PROVE  /\ q \in Seq(S) /\ Len(q) = Len(p) - 1
           /\ Without(q, p, m, Len(p) - 1)
<1>1. PICK a, c, L : a = SubSeq(p, 1, m - 1) /\ L = Len(p) /\ c = SubSeq(p, m + 1, L)
  OBVIOUS
<1>2. L \in Nat /\ m \in Nat /\ 1 <= m /\ m <= L /\ \A k \in 1 .. L : p[k] \in S
  BY <1>1, LenProperties, ElementOfSeq
<1>3. a \in Seq(S) /\ Len(a) = m - 1 /\ \A k \in 1 .. m - 1 : a[k] = p[k]
  BY <1>1, <1>2, SubSeqProperties
<1>4. c \in Seq(S) /\ Len(c) = L - m /\ \A k \in 1 .. L - m : c[k] = p[m + k]
  BY <1>1, <1>2, SubSeqProperties
<1>5. q = a \o c
  BY <1>1 DEF RemoveAt
<1>6. PICK n, r : n = m - 1 /\ r = L - m
  OBVIOUS
<1>9. q \in Seq(S) /\ Joins(q, a, c, n, r)
  <2>1. n = Len(a) /\ r = Len(c)
    BY <1>3, <1>4, <1>6
  <2> QED BY <1>3, <1>4, <1>5, <2>1, Joined
<1>7. n + r = L - 1 /\ n \in Nat /\ r \in Nat
  BY <1>2, <1>6
<1>8. ASSUME NEW k \in 1 .. L - 1 PROVE q[k] = IF k < m THEN p[k] ELSE p[k + 1]
  <2>1. CASE k < m
    <3>1. k \in 1 .. m - 1 /\ k \in 1 .. n + r /\ k <= n
      BY <1>2, <1>6, <1>7, <2>1
    <3>2. q[k] = a[k] /\ a[k] = p[k]
      BY <1>3, <1>9, <3>1 DEF Joins
    <3> QED BY <2>1, <3>2
  <2>2. CASE k >= m
    <3>1. /\ k \in 1 .. n + r /\ ~(k <= n) /\ k - n \in 1 .. L - m
          /\ m + (k - n) = k + 1 /\ ~(k < m)
      BY <1>2, <1>6, <1>7, <2>2
    <3>2. q[k] = c[k - n] /\ c[k - n] = p[k + 1]
      BY <1>4, <1>9, <3>1 DEF Joins
    <3> QED BY <3>1, <3>2
  <2> QED BY <1>2, <2>1, <2>2
<1> QED BY <1>1, <1>7, <1>8, <1>9 DEF Without, Joins
-----------------------------------------------------------------------------
(* The pbufs of a chain. *)

(* The places of a sequence. *)
LEMMA SeqDomain ==
    ASSUME NEW S, NEW p \in Seq(S)
    PROVE  IsFiniteSet(DOMAIN p) /\ DOMAIN p = 1 .. Len(p) /\ Len(p) \in Nat
<1>1. DOMAIN p = 1 .. Len(p) /\ Len(p) \in Nat
  BY LenProperties
<1>2. 1 \in Int /\ Len(p) \in Int
  BY <1>1
<1>3. IsFiniteSet(1 .. Len(p))
  BY <1>2, FS_Interval, Zenon
<1> QED BY <1>1, <1>3

(* The pbufs of a chain, as a sum over its places. *)
LEMMA ClensAt ==
    ASSUME NEW p \in Seq(Fragments)
    PROVE  /\ NatOn(ClenAt(p), 1 .. Len(p)) /\ Clens(p) = SumOf(ClenAt(p), 1 .. Len(p))
           /\ \A k \in 1 .. Len(p) : ClenAt(p)[k] = Clen(p[k])
<1>1. IsFiniteSet(DOMAIN p) /\ DOMAIN p = 1 .. Len(p)
  BY SeqDomain
<1>2. \A k \in 1 .. Len(p) : Clen(p[k]) \in Nat
  BY ElementOfSeq, ReassAssumption
<1> QED BY <1>1, <1>2, ClensIsSum DEF NatOn, ClenAt

(* They are a natural number. *)
LEMMA ClensNat == ASSUME NEW p \in Seq(Fragments) PROVE Clens(p) \in Nat
<1>1. Len(p) \in Nat
  BY LenProperties
<1> QED BY <1>1, ClensAt, SumUpTo

(* A chain without fragments has none. *)
LEMMA ClensNone == Clens(<<>>) = 0
<1>1. <<>> \in Seq(Fragments) /\ Len(<<>>) = 0 /\ 1 .. 0 = {}
  OBVIOUS
<1>2. Clens(<<>>) = SumOf(ClenAt(<<>>), {})
  BY <1>1, ClensAt
<1> QED BY <1>2, SumEmpty

(* A chain of some fragments has pbufs. *)
LEMMA ClensPositive == ASSUME NEW p \in Seq(Fragments), p # <<>> PROVE Clens(p) > 0
<1>1. PICK n : n = Len(p) - 1
  OBVIOUS
<1>2. n \in Nat /\ Len(p) = n + 1
  BY <1>1, EmptySeq
<1>3. PICK v, w : v = ClenAt(p) /\ w = [k \in 1 .. n |-> v[k]]
  OBVIOUS
<1>4. NatOn(v, 1 .. n + 1) /\ Clens(p) = SumOf(v, 1 .. n + 1) /\ v[n + 1] = Clen(p[n + 1])
  BY <1>2, <1>3, ClensAt
<1>5. Clen(p[n + 1]) \in Nat \ {0}
  BY <1>2, ElementOfSeq, ReassAssumption
<1>6. Without(w, v, n + 1, n) /\ NatOn(w, 1 .. n)
  BY <1>2, <1>3, <1>4 DEF Without, NatOn
<1>7. n + 1 \in 1 .. n + 1
  BY <1>2
<1>8. PICK m : m = n + 1
  OBVIOUS
<1>9. SumOf(v, 1 .. n + 1) = v[m] + SumOf(w, 1 .. n)
  BY <1>2, <1>4, <1>6, <1>7, <1>8, SumWithoutOne
<1>10. SumOf(w, 1 .. n) \in Nat
  BY <1>2, <1>6, SumUpTo
<1> QED BY <1>4, <1>5, <1>8, <1>9, <1>10

(* A fragment that is put in adds its pbufs. *)
LEMMA ClensInserted ==
    ASSUME NEW p \in Seq(Fragments), NEW m \in 1 .. Len(p) + 1, NEW f \in Fragments,
           NEW q, q = InsertAt(p, m, f)
    PROVE  Clens(q) = Clens(p) + Clen(f)
<1>1. /\ q \in Seq(Fragments) /\ Len(q) = Len(p) + 1
      /\ \A k \in 1 .. Len(p) + 1 :
             q[k] = IF k < m THEN p[k] ELSE IF k = m THEN f ELSE p[k - 1]
  <2>1. q \in Seq(Fragments) /\ Inserts(q, p, m, f)
    BY Inserted
  <2> QED BY <2>1 DEF Inserts
<1>2. PICK L, v, w : L = Len(p) /\ v = ClenAt(q) /\ w = ClenAt(p)
  OBVIOUS
<1>3. L \in Nat /\ m \in 1 .. L + 1
  BY <1>2, LenProperties
<1>4. /\ NatOn(v, 1 .. L + 1) /\ Clens(q) = SumOf(v, 1 .. L + 1)
      /\ \A k \in 1 .. L + 1 : v[k] = Clen(q[k])
  BY <1>1, <1>2, ClensAt
<1>5. /\ NatOn(w, 1 .. L) /\ Clens(p) = SumOf(w, 1 .. L)
      /\ \A k \in 1 .. L : w[k] = Clen(p[k])
  BY <1>2, ClensAt
<1>6. Without(w, v, m, L)
  <2>1. ASSUME NEW k \in 1 .. L PROVE w[k] = IF k < m THEN v[k] ELSE v[k + 1]
    <3>1. CASE k < m
      <4>1. k \in 1 .. L + 1
        BY <1>3
      <4>2. q[k] = p[k]
        BY <1>1, <1>2, <3>1, <4>1
      <4> QED BY <1>4, <1>5, <3>1, <4>1, <4>2
    <3>2. CASE ~(k < m)
      <4>1. ~(k + 1 < m) /\ k + 1 # m /\ k + 1 \in 1 .. L + 1 /\ (k + 1) - 1 = k
        BY <1>3, <3>2
      <4>2. q[k + 1] = p[k]
        BY <1>1, <1>2, <4>1
      <4> QED BY <1>4, <1>5, <3>2, <4>1, <4>2
    <3> QED BY <3>1, <3>2
  <2> QED BY <2>1 DEF Without
<1>7. SumOf(v, 1 .. L + 1) = v[m] + SumOf(w, 1 .. L)
  BY <1>3, <1>4, <1>6, SumWithoutOne
<1>8. v[m] = Clen(f)
  BY <1>1, <1>2, <1>3, <1>4
<1>9. v[m] \in Nat /\ SumOf(w, 1 .. L) \in Nat
  <2>1. v[m] \in Nat
    BY <1>3, <1>4 DEF NatOn
  <2> QED BY <1>3, <1>5, <2>1, SumUpTo
<1> QED BY <1>4, <1>5, <1>7, <1>8, <1>9
-----------------------------------------------------------------------------
(* The pbufs of a list of datagrams. *)

(* The pbufs of a list, as a sum over its places. *)
LEMMA TotalOf ==
    ASSUME NEW list \in Seq(Datagrams)
    PROVE  /\ NatOn(TotalAt(list), 1 .. Len(list))
           /\ Total(list) = SumOf(TotalAt(list), 1 .. Len(list))
           /\ \A k \in 1 .. Len(list) : TotalAt(list)[k] = Clens(list[k].p)
<1>1. IsFiniteSet(DOMAIN list) /\ DOMAIN list = 1 .. Len(list)
  BY SeqDomain
<1>2. \A k \in 1 .. Len(list) : Clens(list[k].p) \in Nat
  <2>1. ASSUME NEW k \in 1 .. Len(list) PROVE list[k].p \in Seq(Fragments)
    <3>1. list[k] \in Datagrams
      BY ElementOfSeq
    <3> QED BY <3>1 DEF Datagrams
  <2> QED BY <2>1, ClensNat
<1> QED BY <1>1, <1>2, TotalIsSum DEF NatOn, TotalAt

(* They are a natural number. *)
LEMMA TotalNat == ASSUME NEW list \in Seq(Datagrams) PROVE Total(list) \in Nat
<1>1. Len(list) \in Nat
  BY LenProperties
<1> QED BY <1>1, TotalOf, SumUpTo

(* A list without datagrams has none. *)
LEMMA TotalNone == Total(<<>>) = 0
<1>1. <<>> \in Seq(Datagrams) /\ Len(<<>>) = 0 /\ 1 .. 0 = {}
  OBVIOUS
<1>2. Total(<<>>) = SumOf(TotalAt(<<>>), {})
  BY <1>1, TotalOf
<1> QED BY <1>2, SumEmpty

(* What is dequeued takes its own pbufs off the sum. *)
LEMMA TotalRemoved ==
    ASSUME NEW list \in Seq(Datagrams), NEW m \in 1 .. Len(list), NEW q, q = RemoveAt(list, m)
    PROVE  /\ Total(list) = Clens(list[m].p) + Total(q)
           /\ Clens(list[m].p) \in Nat /\ Total(q) \in Nat
<1>1. PICK n : n = Len(list) - 1
  OBVIOUS
<1>2. n \in Nat /\ Len(list) = n + 1 /\ m \in 1 .. n + 1
  BY <1>1, LenProperties
<1>3. q \in Seq(Datagrams) /\ Len(q) = n /\ Without(q, list, m, n)
  BY <1>1, Removed
<1>4. PICK v, w : v = TotalAt(list) /\ w = TotalAt(q)
  OBVIOUS
<1>5. /\ NatOn(v, 1 .. n + 1) /\ Total(list) = SumOf(v, 1 .. n + 1)
      /\ \A k \in 1 .. n + 1 : v[k] = Clens(list[k].p)
  BY <1>2, <1>4, TotalOf
<1>6. /\ Total(q) = SumOf(w, 1 .. n)
      /\ \A k \in 1 .. n : w[k] = Clens(q[k].p)
  BY <1>3, <1>4, TotalOf
<1>7. Without(w, v, m, n)
  <2>1. ASSUME NEW k \in 1 .. n PROVE w[k] = IF k < m THEN v[k] ELSE v[k + 1]
    <3>1. k \in 1 .. n + 1 /\ k + 1 \in 1 .. n + 1
      BY <1>2
    <3>2. q[k] = IF k < m THEN list[k] ELSE list[k + 1]
      BY <1>3 DEF Without
    <3> QED BY <1>5, <1>6, <3>1, <3>2
  <2> QED BY <2>1 DEF Without
<1>8. SumOf(v, 1 .. n + 1) = v[m] + SumOf(w, 1 .. n)
  BY <1>2, <1>5, <1>7, SumWithoutOne
<1>9. v[m] \in Nat /\ v[m] = Clens(list[m].p)
  BY <1>2, <1>5 DEF NatOn
<1>10. Total(q) \in Nat
  BY <1>3, TotalNat
<1> QED BY <1>5, <1>6, <1>8, <1>9, <1>10

(* q is list with d at m. *)
Replaces(q, list, m, d) ==
    Len(q) = Len(list) /\ \A k \in 1 .. Len(list) : q[k] = IF k = m THEN d ELSE list[k]

(* The sums of q and list differ by what d holds more than what was at m. *)
Exchanged(q, list, m, d) == Total(q) + Clens(list[m].p) = Total(list) + Clens(d.p)

(* A datagram in place of another changes the sum by the difference. *)
LEMMA TotalReplaced ==
    ASSUME NEW list \in Seq(Datagrams), NEW m \in 1 .. Len(list), NEW d \in Datagrams,
           NEW q, q = [list EXCEPT ![m] = d]
    PROVE  /\ q \in Seq(Datagrams) /\ Replaces(q, list, m, d)
           /\ Exchanged(q, list, m, d)
<1>1. /\ q \in Seq(Datagrams) /\ Len(q) = Len(list)
      /\ \A k \in 1 .. Len(list) : q[k] = IF k = m THEN d ELSE list[k]
  BY ExceptSeq
<1>2. PICK n, v, w : n = Len(list) /\ v = TotalAt(list) /\ w = TotalAt(q)
  OBVIOUS
<1>3. n \in Nat /\ m \in 1 .. n
  BY <1>2, LenProperties
<1>4. /\ NatOn(v, 1 .. n) /\ Total(list) = SumOf(v, 1 .. n)
      /\ \A k \in 1 .. n : v[k] = Clens(list[k].p)
  BY <1>2, TotalOf
<1>5. /\ NatOn(w, 1 .. n) /\ Total(q) = SumOf(w, 1 .. n)
      /\ \A k \in 1 .. n : w[k] = Clens(q[k].p)
  BY <1>1, <1>2, TotalOf
<1>6. \A k \in 1 .. n : k # m => w[k] = v[k]
  <2>1. ASSUME NEW k \in 1 .. n, k # m PROVE w[k] = v[k]
    <3>1. q[k] = list[k]
      BY <1>1, <1>2, <2>1
    <3> QED BY <1>4, <1>5, <3>1
  <2> QED BY <2>1
<1>7. SumOf(w, 1 .. n) + v[m] = SumOf(v, 1 .. n) + w[m]
  BY <1>3, <1>4, <1>5, <1>6, SumReplaceOne
<1>8. v[m] = Clens(list[m].p) /\ w[m] = Clens(d.p)
  BY <1>1, <1>2, <1>3, <1>4, <1>5
<1> QED BY <1>1, <1>4, <1>5, <1>7, <1>8 DEF Replaces, Exchanged

(* A datagram put in front adds its pbufs. *)
LEMMA TotalNewFirst ==
    ASSUME NEW list \in Seq(Datagrams), NEW d \in Datagrams, NEW q, q = <<d>> \o list
    PROVE  /\ q \in Seq(Datagrams) /\ Len(q) = Len(list) + 1 /\ q[1] = d
           /\ \A k \in 2 .. Len(list) + 1 : q[k] = list[k - 1]
           /\ Total(q) = Clens(d.p) + Total(list)
<1>1. PICK n, a : n = Len(list) /\ a = <<d>>
  OBVIOUS
<1>2. n \in Nat /\ a \in Seq(Datagrams) /\ 1 = Len(a) /\ a[1] = d
  BY <1>1, LenProperties
<1>3. q \in Seq(Datagrams) /\ Joins(q, a, list, 1, n)
  BY <1>1, <1>2, Joined
<1>4. /\ Len(q) = n + 1 /\ q[1] = d
      /\ \A k \in 2 .. n + 1 : q[k] = list[k - 1]
  <2>1. Len(q) = n + 1
    BY <1>2, <1>3 DEF Joins
  <2>2. q[1] = d
    BY <1>2, <1>3 DEF Joins
  <2>3. ASSUME NEW k \in 2 .. n + 1 PROVE q[k] = list[k - 1]
    <3>1. k \in 1 .. 1 + n /\ ~(k <= 1)
      BY <1>2
    <3> QED BY <1>3, <3>1 DEF Joins
  <2> QED BY <2>1, <2>2, <2>3
<1>5. PICK v, w : v = TotalAt(q) /\ w = TotalAt(list)
  OBVIOUS
<1>6. /\ NatOn(v, 1 .. n + 1) /\ Total(q) = SumOf(v, 1 .. n + 1)
      /\ \A k \in 1 .. n + 1 : v[k] = Clens(q[k].p)
  BY <1>3, <1>4, <1>5, TotalOf
<1>7. /\ NatOn(w, 1 .. n) /\ Total(list) = SumOf(w, 1 .. n)
      /\ \A k \in 1 .. n : w[k] = Clens(list[k].p)
  BY <1>1, <1>5, TotalOf
<1>8. Without(w, v, 1, n)
  <2>1. ASSUME NEW k \in 1 .. n PROVE w[k] = IF k < 1 THEN v[k] ELSE v[k + 1]
    <3>1. k + 1 \in 2 .. n + 1 /\ k + 1 \in 1 .. n + 1 /\ ~(k < 1) /\ (k + 1) - 1 = k
      BY <1>2
    <3>2. q[k + 1] = list[k]
      BY <1>4, <3>1
    <3> QED BY <1>6, <1>7, <3>1, <3>2
  <2> QED BY <2>1 DEF Without
<1>9. 1 \in 1 .. n + 1
  BY <1>2
<1>10. PICK m : m = 1
  OBVIOUS
<1>11. SumOf(v, 1 .. n + 1) = v[m] + SumOf(w, 1 .. n)
  BY <1>2, <1>6, <1>8, <1>9, <1>10, SumWithoutOne
<1>12. v[m] = Clens(d.p)
  BY <1>4, <1>6, <1>9, <1>10
<1> QED BY <1>1, <1>3, <1>4, <1>6, <1>7, <1>11, <1>12
-----------------------------------------------------------------------------
(* Making room is a number of turns: what every turn keeps, all of them keep. *)

IsTurns(g, s, id, needed, D) ==
    g = [u \in D |-> IF u = {} THEN s ELSE FreeOldest(g[u \ {Pick(u)}], id, needed)]

(* The recursion of the fold has a solution on the sets of at most n places. *)
LEMMA TurnsExistSmall ==
    ASSUME NEW S, IsFiniteSet(S), NEW s, NEW id, NEW needed, NEW n \in Nat
    PROVE  \E g : IsTurns(g, s, id, needed, Small(S, n))
<1> DEFINE P == {k \in Nat : \E g : IsTurns(g, s, id, needed, Small(S, k))}
<1>1. 0 \in P
  <2>1. \A u \in Small(S, 0) : u = {}
    BY FS_Subset, FS_CardinalityType, FS_EmptySet DEF Small
  <2>2. IsTurns([u \in Small(S, 0) |-> s], s, id, needed, Small(S, 0))
    BY <2>1 DEF IsTurns
  <2> QED BY <2>2
<1>2. ASSUME NEW k \in P PROVE k + 1 \in P
  <2>1. PICK g : IsTurns(g, s, id, needed, Small(S, k))
    OBVIOUS
  <2> DEFINE h == [u \in Small(S, k + 1) |->
                     IF u = {} THEN s ELSE FreeOldest(g[u \ {Pick(u)}], id, needed)]
  <2>2. ASSUME NEW u \in Small(S, k + 1), u # {} PROVE u \ {Pick(u)} \in Small(S, k)
    <3>1. IsFiniteSet(u) /\ Pick(u) \in u
      BY <2>2, FS_Subset, PickIn DEF Small
    <3>2. Cardinality(u \ {Pick(u)}) = Cardinality(u) - 1 /\ Cardinality(u) \in Nat
      BY <3>1, FS_RemoveElement, FS_CardinalityType
    <3> QED BY <3>2 DEF Small
  <2>3. ASSUME NEW u \in Small(S, k) PROVE g[u] = h[u] /\ u \in Small(S, k + 1)
    <3>1. Cardinality(u) \in Nat
      BY FS_Subset, FS_CardinalityType DEF Small
    <3>2. u \in Small(S, k + 1)
      BY <3>1 DEF Small
    <3>3. g[u] = IF u = {} THEN s ELSE FreeOldest(g[u \ {Pick(u)}], id, needed)
      BY <2>1, Zenon DEF IsTurns
    <3> QED BY <3>2, <3>3, Zenon
  <2>4. ASSUME NEW u \in Small(S, k + 1), u # {} PROVE g[u \ {Pick(u)}] = h[u \ {Pick(u)}]
    BY <2>2, <2>3, <2>4, Zenon
  <2>5. h = [u \in Small(S, k + 1) |->
               IF u = {} THEN s ELSE FreeOldest(h[u \ {Pick(u)}], id, needed)]
    BY <2>4, Zenon
  <2>6. IsTurns(h, s, id, needed, Small(S, k + 1))
    BY <2>5, Zenon DEF IsTurns
  <2>7. \E r : IsTurns(r, s, id, needed, Small(S, k + 1))
    BY <2>6, Zenon
  <2>8. k + 1 \in Nat
    OBVIOUS
  <2> HIDE DEF h
  <2> QED BY <2>7, <2>8, Zenon
<1> HIDE DEF P
<1>3. n \in P
  BY <1>1, <1>2, AllNats DEF P
<1> QED BY <1>3 DEF P

(* The solution stays in every set that the turns stay in. *)
LEMMA TurnsKeep ==
    ASSUME NEW S, IsFiniteSet(S), NEW s, NEW id, NEW needed, NEW J, s \in J,
           \A t \in J : FreeOldest(t, id, needed) \in J,
           NEW g, IsTurns(g, s, id, needed, SUBSET S)
    PROVE  g[S] \in J
<1> DEFINE B == {V \in SUBSET S : g[V] \notin J}
<1>1. SUFFICES ASSUME B # {} PROVE FALSE
  OBVIOUS
<1>2. PICK V \in B : \A W \in SUBSET V : W # V => W \notin B
  <2>1. B \in SUBSET SUBSET S
    OBVIOUS
  <2> HIDE DEF B
  <2> QED BY <1>1, <2>1, SmallestSet
<1>3. V \in SUBSET S
  OBVIOUS
<1>4. g[V] = IF V = {} THEN s ELSE FreeOldest(g[V \ {Pick(V)}], id, needed)
  BY <1>3, Zenon DEF IsTurns
<1>5. CASE V = {}
  BY <1>4, <1>5
<1>6. CASE V # {}
  <2>1. PICK W : W = V \ {Pick(V)}
    OBVIOUS
  <2>2. W \in SUBSET V /\ W # V /\ W \in SUBSET S
    BY <1>6, <2>1, PickIn
  <2>3. g[W] \in J
    BY <1>2, <2>2
  <2>4. FreeOldest(g[W], id, needed) \in J
    BY <2>3
  <2>5. g[V] = FreeOldest(g[W], id, needed)
    BY <1>4, <1>6, <2>1
  <2> QED BY <2>4, <2>5
<1> QED BY <1>5, <1>6

(* So does what ip_reass_remove_oldest_datagram returns. *)
LEMMA RemovalKeeps ==
    ASSUME NEW s, IsFiniteSet(DOMAIN s.list), NEW id, NEW needed, NEW J,
           [s EXCEPT !.freed = 0, !.done = FALSE] \in J,
           \A t \in J : FreeOldest(t, id, needed) \in J
    PROVE  ip_reass_remove_oldest_datagram(s, id, needed) \in J
<1>1. PICK D, b : D = DOMAIN s.list /\ b = [s EXCEPT !.freed = 0, !.done = FALSE]
  OBVIOUS
<1> DEFINE IsFold(g) == g = [u \in SUBSET D |->
                              IF u = {} THEN b ELSE FreeOldest(g[u \ {Pick(u)}], id, needed)]
<1>2. ip_reass_remove_oldest_datagram(s, id, needed) = (CHOOSE g : IsFold(g))[D]
  BY <1>1, Zenon DEF ip_reass_remove_oldest_datagram, FoldSeq, FoldFunction,
                     FoldFunctionOnSet, MapThenFoldSet, Pick
<1>3. \A g : IsFold(g) <=> IsTurns(g, b, id, needed, SUBSET D)
  BY Zenon DEF IsTurns
<1> HIDE DEF IsFold
<1>4. \E g : IsTurns(g, b, id, needed, SUBSET D)
  <2>1. Cardinality(D) \in Nat /\ Small(D, Cardinality(D)) = SUBSET D
    BY <1>1, FS_CardinalityType, FS_Subset DEF Small
  <2>2. \E g : IsTurns(g, b, id, needed, Small(D, Cardinality(D)))
    BY <1>1, <2>1, TurnsExistSmall
  <2> QED BY <2>1, <2>2, Zenon
<1>5. IsFold(CHOOSE g : IsFold(g))
  BY <1>3, <1>4
<1>6. PICK g : IsTurns(g, b, id, needed, SUBSET D)
               /\ ip_reass_remove_oldest_datagram(s, id, needed) = g[D]
  BY <1>2, <1>3, <1>5
<1>7. g[D] \in J
  BY <1>1, <1>6, TurnsKeep
<1> QED BY <1>6, <1>7
-----------------------------------------------------------------------------
(* What is left of the list of a call: its first datagrams, and behind them the one *)
(* the fragment belongs to, if that was further back.                               *)

CallStates == [list : Seq(Datagrams), count : Nat, freed : Nat,
               ok : BOOLEAN, done : BOOLEAN, broken : BOOLEAN]

(* The datagram id is at place o of L and nowhere else, or, with o = 0, not in it. *)
PlaceOf(L, id, o) == o \in 0 .. Len(L) /\ \A k \in 1 .. Len(L) : L[k].id = id <=> k = o

(* M is the first c of L, and the one at o when it is behind them. *)
Kept(M, L, c, o) ==
    /\ c \in 0 .. Len(L) /\ (c = o => o = 0)
    /\ Len(M) = IF c < o THEN c + 1 ELSE c
    /\ \A k \in 1 .. c : M[k] = L[k]
    /\ c < o => M[c + 1] = L[o]

(* Before the first turn all of the list is kept. *)
LEMMA KeptAll ==
    ASSUME NEW L \in Seq(Datagrams), NEW o \in 0 .. Len(L)
    PROVE  \E c \in 0 .. Len(L) : Kept(L, L, c, o)
<1>1. Len(L) \in Nat
  BY LenProperties
<1>2. CASE o = Len(L) /\ o # 0
  <2>1. PICK c : c = Len(L) - 1
    OBVIOUS
  <2>2. c \in 0 .. Len(L) /\ c < o /\ Len(L) = c + 1 /\ o = c + 1
    BY <1>1, <1>2, <2>1
  <2>3. Kept(L, L, c, o)
    BY <1>1, <2>2 DEF Kept
  <2> QED BY <2>2, <2>3
<1>3. CASE o # Len(L) \/ o = 0
  <2>1. PICK c : c = Len(L)
    OBVIOUS
  <2>2. c \in 0 .. Len(L) /\ ~(c < o) /\ (c = o => o = 0)
    BY <1>1, <1>3, <2>1
  <2>3. Kept(L, L, c, o)
    BY <1>1, <2>1, <2>2 DEF Kept
  <2> QED BY <2>2, <2>3
<1> QED BY <1>2, <1>3

(* The others are the first c but for the fragment's own, and the last of them the oldest. *)
OldestAt(M, others, c) ==
    /\ others = {} <=> c = 0
    /\ c # 0 => c \in 1 .. Len(M) /\ OldestOf(others) = c

(* The oldest of the others is the one at c. *)
LEMMA OldestIsLast ==
    ASSUME NEW L \in Seq(Datagrams), NEW id, NEW o, PlaceOf(L, id, o),
           NEW M \in Seq(Datagrams), NEW c, Kept(M, L, c, o),
           NEW others, others = {k \in DOMAIN M : M[k].id # id}
    PROVE  OldestAt(M, others, c)
<1>1. Len(L) \in Nat /\ DOMAIN M = 1 .. Len(M) /\ Len(M) \in Nat
  BY LenProperties
<1>2. c \in Nat /\ o \in Nat /\ c <= Len(L) /\ o <= Len(L)
  BY <1>1 DEF Kept, PlaceOf
<1>3. others \subseteq 1 .. c
  <2>1. ASSUME NEW k \in 1 .. Len(M), k \notin 1 .. c PROVE M[k].id = id
    <3>1. c < o /\ k = c + 1
      BY <1>1, <1>2, <2>1 DEF Kept
    <3>2. M[k] = L[o] /\ o \in 1 .. Len(L)
      BY <1>2, <3>1 DEF Kept
    <3> QED BY <3>2 DEF PlaceOf
  <2> QED BY <1>1, <2>1
<1>4. ASSUME c # 0 PROVE c \in others /\ c \in 1 .. Len(M)
  <2>1. c \in 1 .. c /\ c \in 1 .. Len(L) /\ c # o
    BY <1>2, <1>4 DEF Kept
  <2>2. M[c] = L[c] /\ L[c].id # id
    BY <2>1 DEF Kept, PlaceOf
  <2>3. c \in 1 .. Len(M)
    BY <1>2, <2>1 DEF Kept
  <2> QED BY <1>1, <2>2, <2>3
<1>5. c = 0 => others = {}
  BY <1>3
<1>6. ASSUME c # 0 PROVE OldestOf(others) = c
  <2>1. c \in others /\ \A k \in others : c >= k
    BY <1>2, <1>3, <1>4, <1>6
  <2>2. \A x \in others : (\A k \in others : x >= k) => x = c
    BY <1>2, <1>3, <2>1
  <2>3. Max(others) = CHOOSE x \in others : \A k \in others : x >= k
    BY DEF Max
  <2> QED BY <2>1, <2>2, <2>3 DEF OldestOf
<1> QED BY <1>4, <1>5, <1>6 DEF OldestAt

(* Freeing the oldest of the others keeps fewer of them. *)
LEMMA KeptLess ==
    ASSUME NEW L \in Seq(Datagrams), NEW o \in 0 .. Len(L),
           NEW M \in Seq(Datagrams), NEW c, Kept(M, L, c, o), c # 0,
           NEW q, q = RemoveAt(M, c)
    PROVE  /\ q \in Seq(Datagrams) /\ Len(q) = Len(M) - 1
           /\ \E e \in 0 .. Len(L) : Kept(q, L, e, o) /\ (c < o => e < o)
<1>1. Len(L) \in Nat /\ Len(M) \in Nat
  BY LenProperties
<1>2. c \in Nat /\ o \in Nat /\ c <= Len(L) /\ o <= Len(L) /\ c # o /\ c \in 1 .. Len(M)
  BY <1>1 DEF Kept
<1>3. q \in Seq(Datagrams) /\ Len(q) = Len(M) - 1 /\ Without(q, M, c, Len(M) - 1)
  BY <1>2, Removed
<1>4. \A k \in 1 .. Len(M) - 1 : q[k] = IF k < c THEN M[k] ELSE M[k + 1]
  BY <1>3 DEF Without
<1>5. PICK a : a = c - 1
  OBVIOUS
<1>6. CASE c < o
  <2>1. a \in 0 .. Len(L) /\ a < o /\ Len(M) = c + 1 /\ a + 1 = c /\ Len(q) = a + 1
    BY <1>1, <1>2, <1>3, <1>5, <1>6 DEF Kept
  <2>2. \A k \in 1 .. a : q[k] = L[k]
    <3>1. ASSUME NEW k \in 1 .. a PROVE q[k] = L[k]
      <4>1. k \in 1 .. Len(M) - 1 /\ k < c /\ k \in 1 .. c
        BY <1>1, <1>2, <2>1
      <4>2. q[k] = M[k] /\ M[k] = L[k]
        BY <1>4, <4>1 DEF Kept
      <4> QED BY <4>2
    <3> QED BY <3>1
  <2>3. q[a + 1] = L[o]
    <3>1. c \in 1 .. Len(M) - 1 /\ ~(c < c)
      BY <1>2, <2>1
    <3>2. q[c] = M[c + 1] /\ M[c + 1] = L[o]
      BY <1>4, <1>6, <3>1 DEF Kept
    <3> QED BY <2>1, <3>2
  <2>4. Kept(q, L, a, o)
    <3>1. a = o => o = 0
      BY <1>2, <2>1
    <3> QED BY <2>1, <2>2, <2>3, <3>1 DEF Kept
  <2> QED BY <1>3, <2>1, <2>4
<1>7. CASE o < c
  <2>1. Len(M) = c /\ a \in Nat /\ Len(q) = a /\ a <= Len(L)
    BY <1>1, <1>2, <1>3, <1>5, <1>7 DEF Kept
  <2>2. \A k \in 1 .. a : q[k] = L[k]
    <3>1. ASSUME NEW k \in 1 .. a PROVE q[k] = L[k]
      <4>1. k \in 1 .. Len(M) - 1 /\ k < c /\ k \in 1 .. c
        BY <1>2, <1>5, <2>1
      <4>2. q[k] = M[k] /\ M[k] = L[k]
        BY <1>4, <4>1 DEF Kept
      <4> QED BY <4>2
    <3> QED BY <3>1
  <2>3. CASE a # o \/ o = 0
    <3>1. a \in 0 .. Len(L) /\ ~(a < o) /\ (a = o => o = 0)
      BY <1>1, <1>2, <1>5, <1>7, <2>1, <2>3
    <3>2. Kept(q, L, a, o)
      BY <2>1, <2>2, <3>1 DEF Kept
    <3> QED BY <1>2, <1>3, <1>7, <3>1, <3>2
  <2>4. CASE a = o /\ o # 0
    <3>1. PICK e : e = o - 1
      OBVIOUS
    <3>2. /\ e \in 0 .. Len(L) /\ e < o /\ o = e + 1 /\ Len(q) = e + 1 /\ (e = o => o = 0)
          /\ o \in 1 .. a /\ \A k \in 1 .. e : k \in 1 .. a
      BY <1>1, <1>2, <2>1, <2>4, <3>1
    <3>3. q[e + 1] = L[o] /\ \A k \in 1 .. e : q[k] = L[k]
      BY <2>2, <3>2
    <3>4. Kept(q, L, e, o)
      BY <3>2, <3>3 DEF Kept
    <3> QED BY <1>3, <3>2, <3>4
  <2> QED BY <2>3, <2>4
<1> QED BY <1>2, <1>6, <1>7
-----------------------------------------------------------------------------
(* Every turn keeps this of the list L that the removal began with: the count is that *)
(* of what is left, and only a turn over a fragment's own datagram breaks the list.    *)
Shrunk(t, L, o) ==
    /\ t.ok /\ t.count = Total(t.list) /\ t.count <= Total(L)
    /\ Len(t.list) <= Len(L) /\ (t.freed > 0 => Len(t.list) < Len(L))
    /\ \E c \in 0 .. Len(L) : Kept(t.list, L, c, o) /\ (t.broken => t.done /\ o > 2 /\ c < o)

(* One turn. *)
LEMMA TurnShrinks ==
    ASSUME NEW L \in Seq(Datagrams), NEW id, NEW o, PlaceOf(L, id, o), NEW needed \in Nat,
           NEW t \in CallStates, Shrunk(t, L, o), NEW u, u = FreeOldest(t, id, needed)
    PROVE  u \in CallStates /\ Shrunk(u, L, o)
<1>1. PICK M, others : M = t.list /\ others = {k \in DOMAIN M : M[k].id # id}
  OBVIOUS
<1>2. M \in Seq(Datagrams) /\ Len(L) \in Nat /\ Len(M) \in Nat
  BY <1>1, LenProperties DEF CallStates
<1>3. PICK c \in 0 .. Len(L) : Kept(M, L, c, o) /\ (t.broken => t.done /\ o > 2 /\ c < o)
  BY <1>1 DEF Shrunk
<1>4. /\ others = {} <=> c = 0
      /\ c # 0 => c \in 1 .. Len(M) /\ OldestOf(others) = c
  <2>1. OldestAt(M, others, c)
    BY <1>1, <1>2, <1>3, OldestIsLast
  <2> QED BY <2>1 DEF OldestAt
<1>5. CASE others = {} \/ t.done
  <2>1. u = t
    BY <1>1, <1>5 DEF FreeOldest
  <2> QED BY <2>1
<1>6. CASE others # {} /\ ~t.done
  <2>1. c # 0 /\ c \in 1 .. Len(M) /\ OldestOf(others) = c
    BY <1>4, <1>6
  <2>2. PICK v : v = ip_reass_free_complete_datagram(t, c, Len(M) - 1)
    OBVIOUS
  <2>3. PICK over \in BOOLEAN : over = (v.freed >= needed \/ Cardinality(others) = 1 \/ v.broken)
    OBVIOUS
  <2>4. u = [v EXCEPT !.done = over]
    BY <1>1, <1>6, <2>1, <2>2, <2>3 DEF FreeOldest
  <2>5. PICK q, n : q = RemoveAt(M, c) /\ n = Clens(M[c].p)
    OBVIOUS
  <2>6. o \in 0 .. Len(L) /\ o \in Nat /\ c \in Nat /\ c # o
    BY <1>2, <1>3, <2>1 DEF PlaceOf, Kept
  <2>7. /\ q \in Seq(Datagrams) /\ Len(q) = Len(M) - 1
        /\ \E e \in 0 .. Len(L) : Kept(q, L, e, o) /\ (c < o => e < o)
    BY <1>2, <1>3, <2>1, <2>5, <2>6, KeptLess
  <2>8. Total(M) = n + Total(q) /\ n \in Nat /\ Total(q) \in Nat
    BY <1>2, <2>1, <2>5, TotalRemoved
  <2>9. v = [list |-> q, count |-> t.count - n, freed |-> t.freed + n, ok |-> t.ok,
             done |-> t.done, broken |-> t.broken \/ (c # 1 /\ Len(M) - 1 # c - 1)]
    BY <1>1, <2>2, <2>5 DEF ip_reass_free_complete_datagram, CallStates
  <2>10. /\ u.list = q /\ u.count = t.count - n /\ u.freed = t.freed + n /\ u.ok = t.ok
         /\ u.done = over /\ u.broken = (t.broken \/ (c # 1 /\ Len(M) - 1 # c - 1))
    BY <2>4, <2>9
  <2>11. ~t.broken
    BY <1>3, <1>6
  <2>12. ASSUME u.broken PROVE u.done /\ o > 2 /\ c < o
    <3>1. over
      BY <2>3, <2>9, <2>10, <2>12
    <3>2. c # 1 /\ Len(M) # c
      BY <1>2, <2>6, <2>10, <2>11, <2>12
    <3>3. c < o
      BY <1>3, <2>6, <3>2 DEF Kept
    <3> QED BY <2>1, <2>6, <2>10, <3>1, <3>2, <3>3
  <2>13. t.count = Total(M) /\ t.count <= Total(L) /\ Total(M) \in Nat /\ Total(L) \in Nat
         /\ t.ok /\ Len(M) <= Len(L) /\ t.freed \in Nat
    BY <1>1, <1>2, TotalNat DEF Shrunk, CallStates
  <2>14. u.count = Total(q) /\ u.count \in Nat /\ u.count <= Total(L) /\ u.freed \in Nat
    <3>1. PICK a, b, l : a = Total(M) /\ b = Total(q) /\ l = Total(L)
      OBVIOUS
    <3>2. a = n + b /\ n \in Nat /\ b \in Nat /\ a <= l /\ l \in Nat /\ t.count = a
      BY <2>8, <2>13, <3>1
    <3>3. u.count = a - n /\ u.freed = t.freed + n
      BY <2>10, <3>2
    <3>4. u.count = b
      BY <3>2, <3>3
    <3>5. u.count \in Nat /\ u.count <= l
      BY <3>2, <3>4
    <3>6. u.freed \in Nat
      BY <2>13, <3>2, <3>3
    <3> QED BY <3>1, <3>4, <3>5, <3>6
  <2>15. u \in CallStates
    <3>1. PICK a, b, e : a = u.count /\ b = u.freed /\ e = u.broken
      OBVIOUS
    <3>2. u = [list |-> q, count |-> a, freed |-> b, ok |-> t.ok, done |-> over, broken |-> e]
      BY <2>4, <2>9, <2>10, <3>1
    <3>3. a \in Nat /\ b \in Nat /\ e \in BOOLEAN /\ t.ok \in BOOLEAN
      BY <2>10, <2>14, <3>1 DEF CallStates
    <3> QED BY <2>3, <2>7, <3>2, <3>3 DEF CallStates
  <2>16. Len(q) < Len(L) /\ Len(q) <= Len(L)
    BY <1>2, <2>7, <2>13
  <2>17. \E e \in 0 .. Len(L) : Kept(u.list, L, e, o) /\ (u.broken => u.done /\ o > 2 /\ e < o)
    <3>1. PICK e \in 0 .. Len(L) : Kept(q, L, e, o) /\ (c < o => e < o)
      BY <2>7
    <3> QED BY <2>10, <2>12, <3>1
  <2> QED BY <2>10, <2>13, <2>14, <2>15, <2>16, <2>17 DEF Shrunk
<1> QED BY <1>5, <1>6

(* All the turns of a removal. *)
LEMMA RemovalShrinks ==
    ASSUME NEW s \in CallStates, s.ok, ~s.broken, s.count = Total(s.list),
           NEW L, L = s.list, NEW id, NEW o, PlaceOf(L, id, o), NEW needed \in Nat,
           NEW u, u = ip_reass_remove_oldest_datagram(s, id, needed)
    PROVE  u \in CallStates /\ Shrunk(u, L, o)
<1>1. L \in Seq(Datagrams)
  BY DEF CallStates
<1>2. IsFiniteSet(DOMAIN s.list) /\ Len(L) \in Nat
  BY <1>1, SeqDomain
<1>3. PICK J : J = {t \in CallStates : Shrunk(t, L, o)}
  OBVIOUS
<1>4. [s EXCEPT !.freed = 0, !.done = FALSE] \in J
  <2>1. PICK b : b = [s EXCEPT !.freed = 0, !.done = FALSE]
    OBVIOUS
  <2>2. b = [list |-> L, count |-> s.count, freed |-> 0, ok |-> s.ok, done |-> FALSE,
             broken |-> s.broken]
    BY <2>1 DEF CallStates
  <2>3. b \in CallStates
    BY <1>1, <2>2 DEF CallStates
  <2>4. \E c \in 0 .. Len(L) : Kept(L, L, c, o)
    BY <1>1, KeptAll DEF PlaceOf
  <2>5. Shrunk(b, L, o)
    <3>1. Total(L) \in Nat
      BY <1>1, TotalNat
    <3> QED BY <1>2, <2>2, <2>4, <3>1 DEF Shrunk
  <2> QED BY <1>3, <2>1, <2>3, <2>5
<1>5. ASSUME NEW t \in J PROVE FreeOldest(t, id, needed) \in J
  <2>1. t \in CallStates /\ Shrunk(t, L, o)
    BY <1>3
  <2>2. PICK v : v = FreeOldest(t, id, needed)
    OBVIOUS
  <2>3. v \in CallStates /\ Shrunk(v, L, o)
    BY <1>1, <2>1, <2>2, TurnShrinks
  <2> QED BY <1>3, <2>2, <2>3
<1>6. u \in J
  BY <1>2, <1>4, <1>5, RemovalKeeps
<1> QED BY <1>3, <1>6
-----------------------------------------------------------------------------
(* No two datagrams of the list are the same one. *)
Apart(list) == \A j, k \in 1 .. Len(list) : list[j].id = list[k].id => j = k

(* Where a datagram that was kept had been. *)
LEMMA KeptFrom ==
    ASSUME NEW L \in Seq(Datagrams), NEW M \in Seq(Datagrams), NEW c, NEW o \in 0 .. Len(L),
           Kept(M, L, c, o), NEW k \in 1 .. Len(M)
    PROVE  \/ k <= c /\ k \in 1 .. Len(L) /\ M[k] = L[k]
           \/ c < o /\ k = c + 1 /\ o \in 1 .. Len(L) /\ M[k] = L[o]
<1>1. Len(L) \in Nat /\ Len(M) \in Nat
  BY LenProperties
<1>2. c \in Nat /\ c <= Len(L) /\ o \in Nat
  BY <1>1 DEF Kept
<1>3. CASE k <= c
  BY <1>1, <1>2, <1>3 DEF Kept
<1>4. CASE ~(k <= c)
  <2>1. c < o /\ k = c + 1 /\ o \in 1 .. Len(L)
    BY <1>1, <1>2, <1>4 DEF Kept
  <2> QED BY <2>1 DEF Kept
<1> QED BY <1>3, <1>4

(* What is kept of datagrams that differ are datagrams that differ. *)
LEMMA KeptApart ==
    ASSUME NEW L \in Seq(Datagrams), NEW M \in Seq(Datagrams), NEW c, NEW o \in 0 .. Len(L),
           Kept(M, L, c, o), Apart(L)
    PROVE  Apart(M)
<1>1. SUFFICES ASSUME NEW j \in 1 .. Len(M), NEW k \in 1 .. Len(M), M[j].id = M[k].id
               PROVE  j = k
  BY DEF Apart
<1>2. Len(L) \in Nat /\ Len(M) \in Nat
  BY LenProperties
<1>3. c \in Nat /\ o \in Nat
  BY <1>2 DEF Kept
<1>4. \/ j <= c /\ j \in 1 .. Len(L) /\ M[j] = L[j]
      \/ c < o /\ j = c + 1 /\ o \in 1 .. Len(L) /\ M[j] = L[o]
  BY KeptFrom
<1>5. \/ k <= c /\ k \in 1 .. Len(L) /\ M[k] = L[k]
      \/ c < o /\ k = c + 1 /\ o \in 1 .. Len(L) /\ M[k] = L[o]
  BY KeptFrom
<1>6. CASE j <= c /\ j \in 1 .. Len(L) /\ M[j] = L[j]
  <2>1. CASE k <= c /\ k \in 1 .. Len(L) /\ M[k] = L[k]
    BY <1>1, <1>6, <2>1 DEF Apart
  <2>2. CASE c < o /\ k = c + 1 /\ o \in 1 .. Len(L) /\ M[k] = L[o]
    <3>1. j = o
      BY <1>1, <1>6, <2>2 DEF Apart
    <3> QED BY <1>3, <1>6, <2>2, <3>1
  <2> QED BY <1>5, <2>1, <2>2
<1>7. CASE c < o /\ j = c + 1 /\ o \in 1 .. Len(L) /\ M[j] = L[o]
  <2>1. CASE k <= c /\ k \in 1 .. Len(L) /\ M[k] = L[k]
    <3>1. k = o
      BY <1>1, <1>7, <2>1 DEF Apart
    <3> QED BY <1>3, <1>7, <2>1, <3>1
  <2>2. CASE c < o /\ k = c + 1
    BY <1>7, <2>2
  <2> QED BY <1>5, <2>1, <2>2
<1> QED BY <1>4, <1>6, <1>7

(* A fragment's own datagram is kept. *)
LEMMA OwnKept ==
    ASSUME NEW L \in Seq(Datagrams), NEW M \in Seq(Datagrams), NEW c, NEW o, NEW id,
           PlaceOf(L, id, o), Kept(M, L, c, o)
    PROVE  (\E k \in DOMAIN M : M[k].id = id) <=> o # 0
<1>1. Len(L) \in Nat /\ Len(M) \in Nat /\ DOMAIN M = 1 .. Len(M)
  BY LenProperties
<1>2. c \in Nat /\ c <= Len(L) /\ o \in Nat /\ o <= Len(L)
  BY <1>1 DEF Kept, PlaceOf
<1>3. ASSUME o # 0 PROVE \E k \in DOMAIN M : M[k].id = id
  <2>1. o \in 1 .. Len(L) /\ L[o].id = id /\ c # o
    BY <1>1, <1>2, <1>3 DEF PlaceOf, Kept
  <2>2. CASE c < o
    <3>1. c + 1 \in 1 .. Len(M) /\ M[c + 1] = L[o]
      BY <1>1, <1>2, <2>2 DEF Kept
    <3> QED BY <1>1, <2>1, <3>1
  <2>3. CASE o < c
    <3>1. o \in 1 .. c /\ o \in 1 .. Len(M)
      BY <1>1, <1>2, <1>3, <2>3 DEF Kept
    <3>2. M[o] = L[o]
      BY <3>1 DEF Kept
    <3> QED BY <1>1, <2>1, <3>1, <3>2
  <2> QED BY <1>2, <2>1, <2>2, <2>3
<1>4. ASSUME NEW k \in DOMAIN M, M[k].id = id PROVE o # 0
  <2>1. o \in 0 .. Len(L) /\ k \in 1 .. Len(M)
    BY <1>1 DEF PlaceOf
  <2>2. \/ k <= c /\ k \in 1 .. Len(L) /\ M[k] = L[k]
        \/ c < o /\ k = c + 1 /\ o \in 1 .. Len(L) /\ M[k] = L[o]
    BY <2>1, KeptFrom
  <2>3. CASE k <= c /\ k \in 1 .. Len(L) /\ M[k] = L[k]
    BY <1>1, <1>4, <2>3 DEF PlaceOf
  <2>4. CASE c < o
    BY <1>2, <2>4
  <2> QED BY <2>2, <2>3, <2>4
<1> QED BY <1>3, <1>4

(* Of a list that another was kept of, without a datagram of its own, the first ones. *)
LEMMA KeptTwice ==
    ASSUME NEW L \in Seq(Datagrams), NEW M \in Seq(Datagrams), NEW N \in Seq(Datagrams),
           NEW c, NEW e, Kept(M, L, c, 0), Kept(N, M, e, 0)
    PROVE  e \in 0 .. Len(L) /\ Kept(N, L, e, 0)
<1>1. Len(L) \in Nat /\ Len(M) \in Nat
  BY LenProperties
<1>2. c \in Nat /\ c <= Len(L) /\ Len(M) = c /\ e \in Nat /\ e <= c /\ Len(N) = e
  BY <1>1 DEF Kept
<1>3. ASSUME NEW k \in 1 .. e PROVE N[k] = L[k]
  <2>1. k \in 1 .. c
    BY <1>2
  <2> QED BY <2>1 DEF Kept
<1> QED BY <1>1, <1>2, <1>3 DEF Kept
-----------------------------------------------------------------------------
(* The room that a call makes. *)

(* What is left of the list L, and whether there is a struct for a new datagram. *)
RoomMade(s, L, f, o) ==
    /\ s.count = Total(s.list) /\ s.count <= Total(L) /\ Len(s.list) <= Len(L)
    /\ \E c \in 0 .. Len(L) : Kept(s.list, L, c, o) /\ (s.broken => o > 2 /\ c < o)
    /\ Known(s, f) <=> o # 0
    /\ ~s.broken /\ Admitted(s, f) /\ ~Known(s, f) => Len(s.list) < NumReass

(* ip_reass makes room by one removal, or two, or none. *)
LEMMA RoomIsMade ==
    ASSUME NEW L, L = reassdatagrams, L \in Seq(Datagrams), Len(L) <= NumReass,
           ip_reass_pbufcount = Total(L), broken = FALSE,
           NEW f \in Fragments, NEW o, PlaceOf(L, f.id, o), NEW s, s = Room(f)
    PROVE  s \in CallStates /\ RoomMade(s, L, f, o)
<1>1. PICK m : m = Clen(f)
  OBVIOUS
<1>2. m \in Nat /\ m > 0 /\ Len(L) \in Nat /\ Total(L) \in Nat /\ NumReass \in Nat /\ o \in Nat
  BY <1>1, ReassAssumption, LenProperties, TotalNat DEF PlaceOf
<1>3. PICK a : a = Entry
  OBVIOUS
<1>4. a = [list |-> L, count |-> Total(L), freed |-> 0, ok |-> TRUE, done |-> FALSE,
           broken |-> FALSE]
  BY <1>3 DEF Entry
<1>5. a \in CallStates
  BY <1>2, <1>4 DEF CallStates
<1>6. \E c \in 0 .. Len(L) : Kept(L, L, c, o)
  BY KeptAll DEF PlaceOf
<1>7. Shrunk(a, L, o)
  BY <1>2, <1>4, <1>6 DEF Shrunk
<1>8. PICK b : b = RoomForPbufs(f)
  OBVIOUS
<1>9. b \in CallStates /\ Shrunk(b, L, o)
  <2>1. CASE b = a
    BY <1>5, <1>7, <2>1
  <2>2. CASE b = ip_reass_remove_oldest_datagram(a, f.id, m)
    <3>1. a.ok /\ ~a.broken /\ a.count = Total(a.list) /\ L = a.list
      BY <1>4
    <3>2. PICK x : x = f.id
      OBVIOUS
    <3> QED BY <1>2, <1>5, <2>2, <3>1, <3>2, RemovalShrinks
  <2> QED BY <1>1, <1>3, <1>8, <2>1, <2>2 DEF RoomForPbufs
<1>10. PICK M : M = b.list
  OBVIOUS
<1>11. M \in Seq(Datagrams) /\ Len(M) \in Nat
  BY <1>9, <1>10, LenProperties DEF CallStates
<1>12. PICK c \in 0 .. Len(L) : Kept(M, L, c, o) /\ (b.broken => o > 2 /\ c < o)
  BY <1>9, <1>10 DEF Shrunk
<1>13. Known(b, f) <=> o # 0
  <2>1. PICK x : x = f.id
    OBVIOUS
  <2>2. (\E k \in DOMAIN M : M[k].id = x) <=> o # 0
    BY <1>11, <1>12, <2>1, OwnKept
  <2> QED BY <1>10, <2>1, <2>2 DEF Known
<1>14. CASE b.broken \/ b.count + Clen(f) > MaxPbufs \/ Known(b, f)
  <2>1. s = b
    BY <1>8, <1>14 DEF Room
  <2>2. ~(~s.broken /\ Admitted(s, f) /\ ~Known(s, f))
    <3>1. b.count \in Nat /\ MaxPbufs \in Nat
      BY <1>9, ReassAssumption DEF CallStates
    <3> QED BY <1>1, <1>2, <1>14, <2>1, <3>1 DEF Admitted
  <2> QED BY <1>9, <1>10, <1>12, <1>13, <2>1, <2>2 DEF Shrunk, RoomMade
<1>15. CASE ~(b.broken \/ b.count + Clen(f) > MaxPbufs \/ Known(b, f))
  <2>1. s = ip_reass_enqueue_new_datagram(b, f) /\ o = 0
    BY <1>8, <1>13, <1>15 DEF Room
  <2>2. CASE Len(M) < NumReass
    <3>1. s = b
      BY <1>10, <2>1, <2>2 DEF ip_reass_enqueue_new_datagram
    <3> QED BY <1>9, <1>10, <1>12, <1>13, <2>2, <3>1 DEF Shrunk, RoomMade
  <2>3. CASE ~(Len(M) < NumReass)
    <3>1. PICK t, x : t = ip_reass_remove_oldest_datagram(b, x, m) /\ x = f.id
      OBVIOUS
    <3>2. s = [t EXCEPT !.ok = t.freed >= m]
      BY <1>1, <1>10, <2>1, <2>3, <3>1 DEF ip_reass_enqueue_new_datagram
    <3>3. PlaceOf(M, x, 0)
      <4>1. \A k \in 1 .. Len(M) : M[k].id # x
        BY <1>10, <1>11, <1>15, <3>1, LenProperties DEF Known
      <4> QED BY <1>11, <4>1 DEF PlaceOf
    <3>4. b.ok /\ ~b.broken /\ b.count = Total(b.list) /\ b.count <= Total(L) /\ Len(M) <= Len(L)
      BY <1>9, <1>10, <1>15 DEF Shrunk
    <3>5. t \in CallStates /\ Shrunk(t, M, 0)
      BY <1>2, <1>9, <1>10, <3>1, <3>3, <3>4, RemovalShrinks
    <3>6. PICK N : N = t.list
      OBVIOUS
    <3>7. N \in Seq(Datagrams) /\ Len(N) \in Nat
      BY <3>5, <3>6, LenProperties DEF CallStates
    <3>8. PICK e : Kept(N, M, e, 0) /\ ~t.broken
      BY <3>5, <3>6 DEF Shrunk
    <3>9. e \in 0 .. Len(L) /\ Kept(N, L, e, 0)
      BY <1>11, <1>12, <2>1, <3>7, <3>8, KeptTwice
    <3>10. PICK g \in BOOLEAN : g <=> t.freed >= m
      BY <1>2, <3>5 DEF CallStates
    <3>11. s = [list |-> N, count |-> t.count, freed |-> t.freed, ok |-> g, done |-> t.done,
                broken |-> t.broken]
      BY <3>2, <3>5, <3>6, <3>10 DEF CallStates
    <3>12. s \in CallStates
      BY <3>5, <3>7, <3>11 DEF CallStates
    <3>13. ~Known(s, f)
      <4>1. ~(\E k \in DOMAIN N : N[k].id = x)
        <5>1. PlaceOf(L, x, 0)
          BY <2>1, <3>1
        <5>2. PICK z : z = 0
          OBVIOUS
        <5> QED BY <3>7, <3>9, <5>1, <5>2, OwnKept
      <4> QED BY <3>1, <3>11, <4>1 DEF Known
    <3>14. s.count = Total(s.list) /\ s.count <= Total(L) /\ Len(s.list) <= Len(L)
      <4>1. t.count = Total(N) /\ t.count <= Total(M) /\ Len(N) <= Len(M)
        BY <3>5, <3>6 DEF Shrunk
      <4>2. Total(M) \in Nat /\ Total(M) <= Total(L)
        BY <1>10, <1>11, <3>4, TotalNat
      <4>3. t.count \in Nat
        BY <3>5 DEF CallStates
      <4>4. PICK y, z : y = Total(M) /\ z = Total(L)
        OBVIOUS
      <4>5. t.count <= z /\ Len(N) <= Len(L)
        BY <1>2, <1>11, <3>4, <3>7, <4>1, <4>2, <4>3, <4>4
      <4> QED BY <3>11, <4>1, <4>4, <4>5
    <3>15. Admitted(s, f) => Len(s.list) < NumReass
      <4>1. SUFFICES ASSUME g PROVE Len(N) < NumReass
        BY <3>11 DEF Admitted
      <4>2. t.freed > 0
        <5>1. t.freed \in Nat /\ t.freed >= m
          BY <3>5, <3>10, <4>1 DEF CallStates
        <5> QED BY <1>2, <5>1
      <4>3. Len(N) < Len(M)
        BY <3>5, <3>6, <4>2 DEF Shrunk
      <4> QED BY <1>2, <1>11, <3>4, <3>7, <4>3
    <3>16. ~s.broken /\ s.list = N
      BY <3>8, <3>11
    <3> QED BY <2>1, <3>9, <3>12, <3>13, <3>14, <3>15, <3>16 DEF RoomMade
  <2> QED BY <2>2, <2>3
<1> QED BY <1>14, <1>15
-----------------------------------------------------------------------------
(* A chain is sorted, so that the walk stops at the place of a fragment. *)

Rising(p) == \A j, k \in 1 .. Len(p) : j < k => p[j].start < p[k].start

(* The fields of a fragment. *)
LEMMA FragmentTypes ==
    ASSUME NEW f \in Fragments
    PROVE  f.id \in Nat /\ f.start \in Nat /\ f.end \in Nat /\ f.start < f.end /\ f.last \in BOOLEAN
BY ReassAssumption

(* The fragments that the walk passes are the first ones. *)
LEMMA PassedIsPrefix ==
    ASSUME NEW p \in Seq(Fragments), Rising(p), NEW f \in Fragments, NEW n \in Nat
    PROVE  n <= Len(p) => \E m \in 0 .. n : {k \in 1 .. n : p[k].start <= f.start} = 1 .. m
<1> DEFINE Passed(j) == {k \in 1 .. j : p[k].start <= f.start}
           P == {j \in Nat : j <= Len(p) => \E m \in 0 .. j : Passed(j) = 1 .. m}
<1>1. Len(p) \in Nat /\ \A k \in 1 .. Len(p) : p[k].start \in Nat
  <2>1. ASSUME NEW k \in 1 .. Len(p) PROVE p[k].start \in Nat
    BY ElementOfSeq, FragmentTypes
  <2> QED BY <2>1, LenProperties
<1>2. f.start \in Nat
  BY FragmentTypes
<1>3. 0 \in P
  <2>1. Passed(0) = 1 .. 0
    OBVIOUS
  <2> QED BY <2>1
<1>4. ASSUME NEW j \in P PROVE j + 1 \in P
  <2>1. SUFFICES ASSUME j + 1 <= Len(p) PROVE \E m \in 0 .. j + 1 : Passed(j + 1) = 1 .. m
    OBVIOUS
  <2>2. PICK m \in 0 .. j : Passed(j) = 1 .. m
    BY <1>1, <2>1
  <2>3. CASE p[j + 1].start <= f.start
    <3>1. ASSUME NEW k \in 1 .. j + 1 PROVE p[k].start <= f.start
      <4>1. k \in 1 .. Len(p) /\ j + 1 \in 1 .. Len(p) /\ (k < j + 1 \/ k = j + 1)
        BY <1>1, <2>1
      <4>2. k < j + 1 => p[k].start < p[j + 1].start
        BY <4>1 DEF Rising
      <4> QED BY <1>1, <1>2, <2>3, <4>1, <4>2
    <3>2. Passed(j + 1) = 1 .. j + 1
      BY <3>1
    <3> QED BY <3>2
  <2>4. CASE ~(p[j + 1].start <= f.start)
    <3>1. Passed(j + 1) = Passed(j)
      BY <2>4
    <3> QED BY <2>2, <3>1
  <2> QED BY <2>3, <2>4
<1> HIDE DEF P
<1>5. n \in P
  BY <1>3, <1>4, AllNats DEF P
<1> QED BY <1>5 DEF P

(* Their number is the place of the fragment. *)
LEMMA PlaceIsPassed ==
    ASSUME NEW p \in Seq(Fragments), Rising(p), NEW f \in Fragments, NEW n, n = Place(p, f)
    PROVE  n \in 0 .. Len(p) /\ \A k \in 1 .. Len(p) : p[k].start <= f.start <=> k <= n
<1>1. Len(p) \in Nat /\ DOMAIN p = 1 .. Len(p)
  BY LenProperties
<1>2. PICK S : S = {k \in 1 .. Len(p) : p[k].start <= f.start}
  OBVIOUS
<1>3. PICK m \in 0 .. Len(p) : S = 1 .. m
  <2>1. PICK l : l = Len(p)
    OBVIOUS
  <2>2. l \in Nat /\ l <= Len(p)
    BY <1>1, <2>1
  <2>3. \E m \in 0 .. l : {k \in 1 .. l : p[k].start <= f.start} = 1 .. m
    BY <2>2, PassedIsPrefix
  <2> QED BY <1>2, <2>1, <2>3
<1>4. Cardinality(S) = m
  <2>1. 1 \in Int /\ m \in Int
    BY <1>1
  <2>2. Cardinality(1 .. m) = IF 1 > m THEN 0 ELSE m - 1 + 1
    BY <2>1, FS_Interval, Zenon
  <2> QED BY <1>1, <1>3, <2>2
<1>5. n = m
  BY <1>1, <1>2, <1>4 DEF Place
<1> QED BY <1>1, <1>2, <1>3, <1>5
-----------------------------------------------------------------------------
(* A datagram in progress: its fragments in order, the header of the first, and the *)
(* end of a last fragment, which is in the chain when the datagram is cut in one way. *)

HasLast(d, p) ==
    \E g \in Fragments : /\ g.last /\ g.id = d.id /\ g.end = d.datagram_len
                         /\ CutOnce(d.id) => \E k \in 1 .. Len(p) : p[k] = g

Chain(d) ==
    /\ Rising(d.p) /\ \A k \in 1 .. Len(d.p) : d.p[k].id = d.id
    /\ \A k \in 1 .. Len(d.p) : d.p[k].start = 0 => d.hdr = 0
    /\ d.LASTFRAG => HasLast(d, d.p)

(* A new datagram has a chain without fragments. *)
LEMMA NewChain ==
    ASSUME NEW f \in Fragments, NEW d, d = [NoDatagram EXCEPT !.id = f.id, !.hdr = f.start]
    PROVE  d \in Datagrams /\ Chain(d) /\ d.id = f.id /\ d.p = <<>>
<1>1. d = [id |-> f.id, hdr |-> f.start, p |-> <<>>, LASTFRAG |-> FALSE, datagram_len |-> 0]
  BY DEF NoDatagram
<1>2. <<>> \in Seq(Fragments) /\ Len(<<>>) = 0
  OBVIOUS
<1>3. f.id \in {g.id : g \in Fragments} /\ f.start \in {g.start : g \in Fragments}
  OBVIOUS
<1>4. PICK q : q = <<>>
  OBVIOUS
<1>5. PICK x, h : x = f.id /\ h = f.start
  OBVIOUS
<1>6. PICK e : e = [id |-> x, hdr |-> h, p |-> q, LASTFRAG |-> FALSE, datagram_len |-> 0]
  OBVIOUS
<1>7. e = d
  BY <1>1, <1>4, <1>5, <1>6
<1>8. q \in Seq(Fragments) /\ Len(q) = 0
  BY <1>2, <1>4
<1>9. e \in Datagrams
  BY <1>3, <1>5, <1>6, <1>8 DEF Datagrams
<1>10. e.p = q /\ e.LASTFRAG = FALSE /\ e.id = x
  BY <1>6
<1>11. Chain(e)
  BY <1>8, <1>10 DEF Chain, Rising
<1> QED BY <1>4, <1>5, <1>7, <1>9, <1>10, <1>11

(* What a datagram keeps of a fragment. *)
LEMMA SeenType ==
    ASSUME NEW d \in Datagrams, NEW f \in Fragments, NEW e, e = Seen(d, f)
    PROVE  /\ e \in Datagrams /\ e.id = d.id /\ e.p = d.p
           /\ e.hdr = IF f.start = 0 THEN 0 ELSE d.hdr
           /\ e.LASTFRAG = (d.LASTFRAG \/ f.last)
           /\ e.datagram_len = IF f.last THEN f.end ELSE d.datagram_len
<1>1. e = [id |-> d.id, hdr |-> IF f.start = 0 THEN 0 ELSE d.hdr, p |-> d.p,
           LASTFRAG |-> d.LASTFRAG \/ f.last,
           datagram_len |-> IF f.last THEN f.end ELSE d.datagram_len]
  BY DEF Seen, Datagrams
<1>2. d.id \in {g.id : g \in Fragments} /\ d.p \in Seq(Fragments)
  BY DEF Datagrams
<1>3. PICK h : h = IF f.start = 0 THEN 0 ELSE d.hdr
  OBVIOUS
<1>4. h \in {g.start : g \in Fragments}
  <2>1. d.hdr \in {g.start : g \in Fragments}
    BY DEF Datagrams
  <2>2. f.start \in {g.start : g \in Fragments}
    OBVIOUS
  <2> QED BY <1>3, <2>1, <2>2
<1>5. PICK l : l = IF f.last THEN f.end ELSE d.datagram_len
  OBVIOUS
<1>6. l \in {0} \cup {g.end : g \in Fragments}
  <2>1. d.datagram_len \in {0} \cup {g.end : g \in Fragments}
    BY DEF Datagrams
  <2>2. f.end \in {g.end : g \in Fragments}
    OBVIOUS
  <2> QED BY <1>5, <2>1, <2>2
<1>7. PICK b \in BOOLEAN : b = (d.LASTFRAG \/ f.last)
  OBVIOUS
<1>8. e = [id |-> d.id, hdr |-> h, p |-> d.p, LASTFRAG |-> b, datagram_len |-> l]
  BY <1>1, <1>3, <1>5, <1>7
<1>9. e \in Datagrams
  BY <1>2, <1>4, <1>6, <1>8 DEF Datagrams
<1> QED BY <1>1, <1>9
-----------------------------------------------------------------------------
(* A fragment that is thrown away and is the last one of its datagram, cut in one way, *)
(* is in the chain already.                                                            *)
LEMMA ThrownAwayIsThere ==
    ASSUME NEW p \in Seq(Fragments), Rising(p), NEW f \in Fragments, ThrownAway(p, f),
           \A k \in 1 .. Len(p) : p[k].id = f.id, CutOnce(f.id)
    PROVE  \E k \in 1 .. Len(p) : p[k] = f
<1>1. PICK n : n = Place(p, f)
  OBVIOUS
<1>2. n \in 0 .. Len(p) /\ \A k \in 1 .. Len(p) : p[k].start <= f.start <=> k <= n
  BY <1>1, PlaceIsPassed
<1>3. Len(p) \in Nat /\ f.start \in Nat /\ f.end \in Nat /\ f.start < f.end
  BY LenProperties, FragmentTypes
<1>4. ASSUME NEW k \in 1 .. Len(p), p[k] # f
      PROVE  /\ p[k].start \in Nat /\ p[k].end \in Nat /\ p[k].start < p[k].end
             /\ p[k].end <= f.start \/ f.end <= p[k].start
  <2>1. PICK g : g = p[k]
    OBVIOUS
  <2>2. g \in Fragments
    BY <2>1, ElementOfSeq
  <2>3. g.id = f.id /\ g # f
    BY <1>4, <2>1
  <2>4. g.end <= f.start \/ f.end <= g.start
    BY <2>2, <2>3 DEF CutOnce
  <2>5. g.start \in Nat /\ g.end \in Nat /\ g.start < g.end
    BY <2>2, FragmentTypes
  <2> QED BY <2>1, <2>4, <2>5
<1>5. ASSUME NEW k \in 1 .. n, f.start < p[k].end PROVE p[k] = f
  <2>1. k \in 1 .. Len(p) /\ k <= n
    BY <1>2, <1>3
  <2>2. p[k].start <= f.start
    BY <1>2, <2>1
  <2> QED BY <1>3, <1>4, <1>5, <2>1, <2>2
<1>6. ASSUME 0 < n, n < Len(p), f.end > p[n + 1].start PROVE p[n + 1] = f
  <2>1. n + 1 \in 1 .. Len(p) /\ ~(n + 1 <= n)
    BY <1>2, <1>3, <1>6
  <2>2. ~(p[n + 1].start <= f.start)
    BY <1>2, <2>1
  <2> QED BY <1>3, <1>4, <1>6, <2>1, <2>2
<1>7. \/ \E k \in 1 .. n : f.start < p[k].end
      \/ 0 < n /\ n < Len(p) /\ f.end > p[n + 1].start
  BY <1>1 DEF ThrownAway
<1>8. \A k \in 1 .. n : k \in 1 .. Len(p)
  BY <1>2, <1>3
<1>9. n < Len(p) => n + 1 \in 1 .. Len(p)
  BY <1>2, <1>3
<1> QED BY <1>5, <1>6, <1>7, <1>8, <1>9

(* A fragment that is thrown away leaves the chain as it was. *)
LEMMA ThrownAwayKeeps ==
    ASSUME NEW d \in Datagrams, Chain(d), NEW f \in Fragments, f.id = d.id,
           ThrownAway(d.p, f), NEW e, e = Seen(d, f)
    PROVE  Chain(e)
<1>1. /\ e.id = d.id /\ e.p = d.p
      /\ e.hdr = IF f.start = 0 THEN 0 ELSE d.hdr
      /\ e.LASTFRAG = (d.LASTFRAG \/ f.last)
      /\ e.datagram_len = IF f.last THEN f.end ELSE d.datagram_len
  BY SeenType
<1>2. d.p \in Seq(Fragments)
  BY DEF Datagrams
<1>3. Rising(e.p) /\ \A k \in 1 .. Len(e.p) : e.p[k].id = e.id
  BY <1>1 DEF Chain
<1>4. \A k \in 1 .. Len(e.p) : e.p[k].start = 0 => e.hdr = 0
  BY <1>1 DEF Chain
<1>5. ASSUME e.LASTFRAG PROVE HasLast(e, e.p)
  <2>1. CASE f.last
    <3>1. CutOnce(e.id) => \E k \in 1 .. Len(e.p) : e.p[k] = f
      <4>1. PICK p : p = d.p
        OBVIOUS
      <4>2. p \in Seq(Fragments) /\ Rising(p) /\ ThrownAway(p, f)
            /\ \A k \in 1 .. Len(p) : p[k].id = f.id
        BY <1>2, <4>1 DEF Chain
      <4>3. CutOnce(f.id) => \E k \in 1 .. Len(p) : p[k] = f
        BY <4>2, ThrownAwayIsThere
      <4> QED BY <1>1, <4>1, <4>3
    <3> QED BY <1>1, <2>1, <3>1 DEF HasLast
  <2>2. CASE ~f.last
    <3>1. d.LASTFRAG /\ e.datagram_len = d.datagram_len
      BY <1>1, <1>5, <2>2
    <3>2. HasLast(d, d.p)
      BY <3>1 DEF Chain
    <3> QED BY <1>1, <3>1, <3>2 DEF HasLast
  <2> QED BY <2>1, <2>2
<1> QED BY <1>3, <1>4, <1>5 DEF Chain

(* What a fragment that is chained finds before it and behind it. *)
LEMMA Fits ==
    ASSUME NEW p \in Seq(Fragments), Rising(p), NEW f \in Fragments, ~ThrownAway(p, f),
           NEW n, n = Place(p, f)
    PROVE  /\ n \in 0 .. Len(p)
           /\ \A k \in 1 .. n : p[k].end <= f.start /\ p[k].start < f.start
           /\ \A k \in n + 1 .. Len(p) : f.start < p[k].start
<1>1. n \in 0 .. Len(p) /\ \A k \in 1 .. Len(p) : p[k].start <= f.start <=> k <= n
  BY PlaceIsPassed
<1>2. Len(p) \in Nat /\ f.start \in Nat
  BY LenProperties, FragmentTypes
<1>3. ASSUME NEW k \in 1 .. Len(p) PROVE p[k].start \in Nat /\ p[k].end \in Nat /\ p[k].start < p[k].end
  BY ElementOfSeq, FragmentTypes
<1>4. ASSUME NEW k \in 1 .. n PROVE p[k].end <= f.start /\ p[k].start < f.start
  <2>1. k \in 1 .. Len(p)
    BY <1>1, <1>2
  <2>2. ~(f.start < p[k].end)
    BY DEF ThrownAway
  <2> QED BY <1>2, <1>3, <2>1, <2>2
<1>5. ASSUME NEW k \in n + 1 .. Len(p) PROVE f.start < p[k].start
  <2>1. k \in 1 .. Len(p) /\ ~(k <= n)
    BY <1>1, <1>2
  <2>2. ~(p[k].start <= f.start)
    BY <1>1, <2>1
  <2> QED BY <1>2, <1>3, <2>1, <2>2
<1> QED BY <1>1, <1>4, <1>5

(* q is p with f put in behind the first n. *)
PutIn(q, p, n, f) ==
    /\ Len(q) = Len(p) + 1
    /\ \A k \in 1 .. n : q[k] = p[k]
    /\ q[n + 1] = f
    /\ \A k \in n + 1 .. Len(p) : q[k + 1] = p[k]

(* A chain stays sorted when a fragment is put in where it belongs. *)
LEMMA RisingWith ==
    ASSUME NEW p \in Seq(Fragments), Rising(p), NEW f \in Fragments, NEW n \in 0 .. Len(p),
           \A k \in 1 .. n : p[k].start < f.start,
           \A k \in n + 1 .. Len(p) : f.start < p[k].start,
           NEW q \in Seq(Fragments), PutIn(q, p, n, f)
    PROVE  Rising(q)
<1>1. SUFFICES ASSUME NEW j \in 1 .. Len(q), NEW k \in 1 .. Len(q), j < k
               PROVE  q[j].start < q[k].start
  BY DEF Rising
<1>2. Len(p) \in Nat /\ Len(q) = Len(p) + 1 /\ n \in Nat /\ n <= Len(p) /\ f.start \in Nat
  BY LenProperties, FragmentTypes DEF PutIn
<1>3. CASE k <= n
  <2>1. j \in 1 .. n /\ k \in 1 .. n /\ j \in 1 .. Len(p) /\ k \in 1 .. Len(p)
    BY <1>1, <1>2, <1>3
  <2> QED BY <1>1, <2>1 DEF PutIn, Rising
<1>4. CASE k = n + 1
  <2>1. j \in 1 .. n
    BY <1>1, <1>2, <1>4
  <2> QED BY <1>4, <2>1 DEF PutIn
<1>5. CASE k > n + 1
  <2>1. PICK h : h = k - 1
    OBVIOUS
  <2>2. h \in n + 1 .. Len(p) /\ k = h + 1 /\ h \in 1 .. Len(p)
    BY <1>2, <1>5, <2>1
  <2>3. q[k] = p[h]
    BY <2>2 DEF PutIn
  <2>4. CASE j <= n
    <3>1. j \in 1 .. n /\ j \in 1 .. Len(p) /\ j < h
      BY <1>2, <2>2, <2>4
    <3>2. q[j] = p[j]
      BY <3>1 DEF PutIn
    <3> QED BY <2>2, <2>3, <3>1, <3>2 DEF Rising
  <2>5. CASE j = n + 1
    BY <2>2, <2>3, <2>5 DEF PutIn
  <2>6. CASE j > n + 1
    <3>1. PICK i0 : i0 = j - 1
      OBVIOUS
    <3>2. i0 \in n + 1 .. Len(p) /\ j = i0 + 1 /\ i0 \in 1 .. Len(p) /\ i0 < h
      BY <1>1, <1>2, <2>1, <2>6, <3>1
    <3>3. q[j] = p[i0]
      BY <3>2 DEF PutIn
    <3> QED BY <2>2, <2>3, <3>2, <3>3 DEF Rising
  <2> QED BY <1>2, <2>4, <2>5, <2>6
<1> QED BY <1>2, <1>3, <1>4, <1>5
-----------------------------------------------------------------------------
(* A fragment that is chained. *)

(* It is a chain still, and f is where it was put. *)
LEMMA ChainedKeeps ==
    ASSUME NEW d \in Datagrams, Chain(d), NEW f \in Fragments, f.id = d.id,
           ~ThrownAway(d.p, f), NEW x, x = Seen(d, f), NEW e, e = Chained(x, f),
           NEW n, n = Place(d.p, f)
    PROVE  /\ e \in Datagrams /\ Chain(e) /\ e.id = d.id
           /\ n \in 0 .. Len(d.p) /\ PutIn(e.p, d.p, n, f) /\ Place(e.p, f) = n + 1
           /\ Clens(e.p) = Clens(d.p) + Clen(f)
<1>1. PICK p : p = d.p
  OBVIOUS
<1>2. p \in Seq(Fragments) /\ Rising(p) /\ Len(p) \in Nat
  BY <1>1, LenProperties DEF Datagrams, Chain
<1>3. /\ x \in Datagrams /\ x.id = d.id /\ x.p = p
      /\ x.hdr = IF f.start = 0 THEN 0 ELSE d.hdr
      /\ x.LASTFRAG = (d.LASTFRAG \/ f.last)
      /\ x.datagram_len = IF f.last THEN f.end ELSE d.datagram_len
  BY <1>1, SeenType
<1>4. /\ n \in 0 .. Len(p)
      /\ \A k \in 1 .. n : p[k].end <= f.start /\ p[k].start < f.start
      /\ \A k \in n + 1 .. Len(p) : f.start < p[k].start
  BY <1>1, <1>2, Fits
<1>5. PICK m, q : m = n + 1 /\ q = InsertAt(p, m, f)
  OBVIOUS
<1>6. e = [x EXCEPT !.p = q]
  BY <1>1, <1>3, <1>5 DEF Chained
<1>7. n \in Nat /\ n <= Len(p) /\ m \in 1 .. Len(p) + 1
  BY <1>2, <1>4, <1>5
<1>8. /\ q \in Seq(Fragments) /\ Len(q) = Len(p) + 1
      /\ \A k \in 1 .. Len(p) + 1 :
             q[k] = IF k < m THEN p[k] ELSE IF k = m THEN f ELSE p[k - 1]
  <2>1. q \in Seq(Fragments) /\ Inserts(q, p, m, f)
    BY <1>2, <1>5, <1>7, Inserted
  <2> QED BY <2>1 DEF Inserts
<1>9. Clens(q) = Clens(p) + Clen(f)
  BY <1>2, <1>5, <1>7, ClensInserted
<1>10. PutIn(q, p, n, f)
  <2>1. \A k \in 1 .. n : q[k] = p[k]
    <3>1. \A k \in 1 .. n : k \in 1 .. Len(p) + 1 /\ k < m
      BY <1>2, <1>5, <1>7
    <3> QED BY <1>8, <3>1
  <2>2. q[n + 1] = f
    BY <1>5, <1>7, <1>8
  <2>3. \A k \in n + 1 .. Len(p) : q[k + 1] = p[k]
    <3>1. ASSUME NEW k \in n + 1 .. Len(p) PROVE q[k + 1] = p[k]
      <4>1. k + 1 \in 1 .. Len(p) + 1 /\ ~(k + 1 < m) /\ k + 1 # m /\ (k + 1) - 1 = k
        BY <1>2, <1>5, <1>7
      <4> QED BY <1>8, <4>1
    <3> QED BY <3>1
  <2> QED BY <1>8, <2>1, <2>2, <2>3 DEF PutIn
<1>11. Rising(q)
  BY <1>2, <1>4, <1>8, <1>10, RisingWith
<1>12. Place(q, f) = n + 1
  <2>1. PICK l : l = Place(q, f)
    OBVIOUS
  <2>2. l \in 0 .. Len(q) /\ \A k \in 1 .. Len(q) : q[k].start <= f.start <=> k <= l
    BY <1>8, <1>11, <2>1, PlaceIsPassed
  <2>3. f.start \in Nat /\ l \in Nat
    BY <1>2, <1>8, <2>2, FragmentTypes
  <2>4. n + 1 <= l
    <3>1. n + 1 \in 1 .. Len(q) /\ q[n + 1].start <= f.start
      BY <1>7, <1>8, <1>10, <2>3 DEF PutIn
    <3> QED BY <2>2, <3>1
  <2>5. ~(n + 2 <= l)
    <3>1. SUFFICES ASSUME n + 2 <= l PROVE FALSE
      OBVIOUS
    <3>2. n + 1 \in n + 1 .. Len(p) /\ n + 2 \in 1 .. Len(q) /\ (n + 1) + 1 = n + 2
          /\ n + 1 \in 1 .. Len(p)
      BY <1>2, <1>7, <1>8, <2>2, <2>3, <3>1
    <3>3. q[n + 2] = p[n + 1] /\ f.start < p[n + 1].start
      BY <1>4, <1>10, <3>2 DEF PutIn
    <3>4. p[n + 1].start \in Nat
      <4>1. p[n + 1] \in Fragments
        BY <1>2, <3>2, ElementOfSeq
      <4> QED BY <4>1, FragmentTypes
    <3>5. q[n + 2].start <= f.start
      BY <2>2, <3>1, <3>2
    <3> QED BY <2>3, <3>3, <3>4, <3>5
  <2> QED BY <1>7, <2>1, <2>3, <2>4, <2>5
<1>13. \A k \in 1 .. Len(q) : q[k] = f \/ \E j \in 1 .. Len(p) : q[k] = p[j]
  <2>1. ASSUME NEW k \in 1 .. Len(q) PROVE q[k] = f \/ \E j \in 1 .. Len(p) : q[k] = p[j]
    <3>1. CASE k < m
      <4>1. k \in 1 .. Len(p) /\ k \in 1 .. Len(p) + 1
        BY <1>2, <1>7, <1>5, <1>8, <3>1
      <4> QED BY <1>8, <3>1, <4>1
    <3>2. CASE k = m
      BY <1>7, <1>8, <3>2
    <3>3. CASE k > m
      <4>1. k - 1 \in 1 .. Len(p) /\ k \in 1 .. Len(p) + 1 /\ ~(k < m) /\ k # m
        BY <1>2, <1>7, <1>5, <1>8, <3>3
      <4>2. q[k] = p[k - 1]
        BY <1>8, <4>1
      <4> QED BY <4>1, <4>2
    <3> QED BY <1>7, <1>8, <3>1, <3>2, <3>3
  <2> QED BY <2>1
<1>14. \A j \in 1 .. Len(p) : \E k \in 1 .. Len(q) : q[k] = p[j]
  <2>1. ASSUME NEW j \in 1 .. Len(p) PROVE \E k \in 1 .. Len(q) : q[k] = p[j]
    <3>1. CASE j <= n
      <4>1. j \in 1 .. n /\ j \in 1 .. Len(q)
        BY <1>2, <1>7, <1>8, <3>1
      <4> QED BY <1>10, <4>1 DEF PutIn
    <3>2. CASE ~(j <= n)
      <4>1. j \in n + 1 .. Len(p) /\ j + 1 \in 1 .. Len(q)
        BY <1>2, <1>7, <1>8, <3>2
      <4> QED BY <1>10, <4>1 DEF PutIn
    <3> QED BY <3>1, <3>2
  <2> QED BY <2>1
<1>15. \E k \in 1 .. Len(q) : q[k] = f
  <2>1. n + 1 \in 1 .. Len(q)
    BY <1>7, <1>8
  <2> QED BY <1>10, <2>1 DEF PutIn
<1>16. /\ e \in Datagrams /\ e.p = q /\ e.id = x.id /\ e.hdr = x.hdr
       /\ e.LASTFRAG = x.LASTFRAG /\ e.datagram_len = x.datagram_len
  <2>1. x \in [id : {g.id : g \in Fragments}, hdr : {g.start : g \in Fragments},
               p : Seq(Fragments), LASTFRAG : BOOLEAN,
               datagram_len : {0} \cup {g.end : g \in Fragments}]
    BY <1>3 DEF Datagrams
  <2> QED BY <1>6, <1>8, <2>1 DEF Datagrams
<1>17. Chain(e)
  <2>1. \A k \in 1 .. Len(q) : q[k].id = e.id
    <3>1. \A j \in 1 .. Len(p) : p[j].id = d.id
      BY <1>1 DEF Chain
    <3> QED BY <1>3, <1>13, <1>16, <3>1
  <2>2. \A k \in 1 .. Len(q) : q[k].start = 0 => e.hdr = 0
    <3>1. \A j \in 1 .. Len(p) : p[j].start = 0 => d.hdr = 0
      BY <1>1 DEF Chain
    <3> QED BY <1>3, <1>13, <1>16, <3>1
  <2>3. ASSUME e.LASTFRAG PROVE HasLast(e, q)
    <3>1. CASE f.last
      <4>1. f.id = e.id /\ f.end = e.datagram_len
        BY <1>3, <1>16, <3>1
      <4> QED BY <1>15, <3>1, <4>1 DEF HasLast
    <3>2. CASE ~f.last
      <4>1. d.LASTFRAG /\ e.datagram_len = d.datagram_len /\ e.id = d.id
        BY <1>3, <1>16, <2>3, <3>2
      <4>2. HasLast(d, p)
        BY <1>1, <4>1 DEF Chain
      <4>3. PICK g \in Fragments : /\ g.last /\ g.id = d.id /\ g.end = d.datagram_len
                                   /\ CutOnce(d.id) => \E k \in 1 .. Len(p) : p[k] = g
        BY <4>2 DEF HasLast
      <4>4. CutOnce(e.id) => \E k \in 1 .. Len(q) : q[k] = g
        BY <1>14, <4>1, <4>3
      <4> QED BY <4>1, <4>3, <4>4 DEF HasLast
    <3> QED BY <3>1, <3>2
  <2> QED BY <1>11, <1>16, <2>1, <2>2, <2>3 DEF Chain
<1> QED BY <1>1, <1>3, <1>4, <1>9, <1>10, <1>12, <1>16, <1>17

(* A datagram that is handed up begins with its header, is in order and ends with its last. *)
Ordered(d) ==
    /\ d.p[1].start = 0 /\ d.hdr = 0
    /\ \A j \in 1 .. Len(d.p) - 1 : d.p[j].end <= d.p[j + 1].start
    /\ CutOnce(d.id) => Last(d.p).end = d.datagram_len

(* A chain that validates is. *)
LEMMA CompleteIsOrdered ==
    ASSUME NEW p \in Seq(Fragments), NEW n \in 0 .. Len(p), NEW f \in Fragments,
           \A k \in 1 .. n : p[k].end <= f.start,
           NEW e \in Datagrams, Chain(e), PutIn(e.p, p, n, f), Place(e.p, f) = n + 1,
           Complete(e, f)
    PROVE  Ordered(e)
<1>1. PICK q, m : q = e.p /\ m = Len(p) + 1
  OBVIOUS
<1>2. Len(p) \in Nat /\ n \in Nat /\ n <= Len(p) /\ f.start \in Nat
  BY LenProperties, FragmentTypes
<1>3. /\ q \in Seq(Fragments) /\ Len(q) = m /\ q[n + 1] = f
      /\ \A k \in 1 .. n : q[k] = p[k]
  BY <1>1 DEF Datagrams, PutIn
<1>4. /\ q[1].start = 0 /\ e.LASTFRAG
      /\ \A j \in 1 .. m - 1 : q[j].end = q[j + 1].start \/ (j = n /\ n + 1 < m)
  <2>1. (n + 1) - 1 = n
    BY <1>2
  <2>2. e.LASTFRAG /\ NoHoles(q, n)
    BY <1>1, <2>1 DEF Complete
  <2> QED BY <1>3, <2>2 DEF NoHoles
<1>5. \A k \in 1 .. m : q[k] \in Fragments
  BY <1>3, ElementOfSeq
<1>6. 1 \in 1 .. m /\ m \in 1 .. m
  BY <1>1, <1>2
<1>7. e.hdr = 0
  <2>1. q[1].start = 0 => e.hdr = 0
    BY <1>1, <1>3, <1>6 DEF Chain
  <2> QED BY <1>4, <2>1
<1>8. ASSUME NEW j \in 1 .. m - 1
      PROVE  q[j].end <= q[j + 1].start
  <2>1. CASE j = n
    <3>1. j \in 1 .. n /\ q[j] = p[j] /\ q[j + 1] = f
      BY <1>2, <1>3, <2>1
    <3>2. q[j].end <= f.start
      BY <3>1
    <3>3. q[j].end \in Nat
      <4>1. j \in 1 .. m
        BY <1>1, <1>2
      <4>2. q[j] \in Fragments
        BY <1>5, <4>1
      <4> QED BY <4>2, FragmentTypes
    <3> QED BY <1>2, <3>1, <3>2, <3>3
  <2>2. CASE j # n
    <3>1. q[j].end = q[j + 1].start /\ j \in 1 .. m
      BY <1>1, <1>2, <1>4, <2>2
    <3>2. q[j].end \in Nat
      <4>1. q[j] \in Fragments
        BY <1>5, <3>1
      <4> QED BY <4>1, FragmentTypes
    <3> QED BY <3>1, <3>2
  <2> QED BY <2>1, <2>2
<1>9. ASSUME CutOnce(e.id) PROVE q[m].end = e.datagram_len
  <2>1. HasLast(e, q)
    BY <1>1, <1>4 DEF Chain
  <2>2. PICK g \in Fragments, k \in 1 .. m : /\ g.last /\ g.id = e.id /\ g.end = e.datagram_len
                                             /\ q[k] = g
    BY <1>3, <1>9, <2>1 DEF HasLast
  <2>3. PICK h : h = q[m]
    OBVIOUS
  <2>4. h \in Fragments /\ h.id = e.id
    BY <1>1, <1>3, <1>5, <1>6, <2>3 DEF Chain
  <2>5. h.end <= g.end /\ (g # h => g.end <= h.start \/ h.end <= g.start)
    BY <1>9, <2>2, <2>4 DEF CutOnce
  <2>6. /\ g.start \in Nat /\ g.end \in Nat /\ g.start < g.end
        /\ h.start \in Nat /\ h.end \in Nat /\ h.start < h.end
    BY <2>2, <2>4, FragmentTypes
  <2>7. g = h
    <3>1. CASE k = m
      BY <2>2, <2>3, <3>1
    <3>2. CASE k < m
      <4>1. g.start < h.start
        BY <1>1, <1>3, <1>6, <2>2, <2>3, <3>2 DEF Chain, Rising
      <4> QED BY <2>5, <2>6, <4>1
    <3> QED BY <1>1, <1>2, <2>2, <3>1, <3>2
  <2> QED BY <2>2, <2>3, <2>7
<1> QED BY <1>1, <1>3, <1>4, <1>7, <1>8, <1>9 DEF Ordered, Last
-----------------------------------------------------------------------------
(* A list of datagrams in progress. *)

Orderly(list) ==
    /\ list \in Seq(Datagrams) /\ Len(list) <= NumReass
    /\ Apart(list) /\ \A k \in 1 .. Len(list) : Chain(list[k])

(* The datagrams of a list, by place. *)
LEMMA IdsAt ==
    ASSUME NEW list \in Seq(Datagrams), NEW x
    PROVE  x \in Ids(list) <=> \E k \in 1 .. Len(list) : list[k].id = x
<1>1. DOMAIN list = 1 .. Len(list)
  BY LenProperties
<1> QED BY <1>1 DEF Ids, Range

(* What is kept of an orderly list is orderly. *)
LEMMA KeptOrderly ==
    ASSUME NEW L, Orderly(L), NEW M \in Seq(Datagrams), NEW c, NEW o \in 0 .. Len(L),
           Kept(M, L, c, o), Len(M) <= Len(L)
    PROVE  Orderly(M)
<1>1. L \in Seq(Datagrams) /\ Apart(L) /\ Len(L) \in Nat /\ Len(M) \in Nat /\ NumReass \in Nat
  BY LenProperties, ReassAssumption DEF Orderly
<1>2. Apart(M)
  BY <1>1, KeptApart
<1>3. ASSUME NEW k \in 1 .. Len(M) PROVE Chain(M[k])
  <2>1. \/ k \in 1 .. Len(L) /\ M[k] = L[k]
        \/ o \in 1 .. Len(L) /\ M[k] = L[o]
    BY <1>1, KeptFrom
  <2> QED BY <2>1 DEF Orderly
<1>4. Len(M) <= NumReass
  BY <1>1 DEF Orderly
<1> QED BY <1>2, <1>3, <1>4 DEF Orderly

(* So is a list in which a datagram is brought up to date. *)
LEMMA ReplacedOrderly ==
    ASSUME NEW list, Orderly(list), NEW m \in 1 .. Len(list), NEW d \in Datagrams, Chain(d),
           d.id = list[m].id, NEW q, q = [list EXCEPT ![m] = d]
    PROVE  Orderly(q) /\ Ids(q) = Ids(list) /\ Exchanged(q, list, m, d)
<1>1. list \in Seq(Datagrams)
  BY DEF Orderly
<1>2. /\ q \in Seq(Datagrams) /\ Len(q) = Len(list)
      /\ \A k \in 1 .. Len(list) : q[k] = IF k = m THEN d ELSE list[k]
      /\ Exchanged(q, list, m, d)
  <2>1. q \in Seq(Datagrams) /\ Replaces(q, list, m, d) /\ Exchanged(q, list, m, d)
    BY <1>1, TotalReplaced
  <2> QED BY <2>1 DEF Replaces
<1>3. \A k \in 1 .. Len(list) : q[k].id = list[k].id
  BY <1>2
<1>4. Apart(q)
  BY <1>2, <1>3 DEF Orderly, Apart
<1>5. \A k \in 1 .. Len(list) : Chain(q[k])
  BY <1>2 DEF Orderly
<1>6. ASSUME NEW x PROVE x \in Ids(q) <=> x \in Ids(list)
  <2>1. x \in Ids(q) <=> \E k \in 1 .. Len(q) : q[k].id = x
    BY <1>2, IdsAt
  <2>2. x \in Ids(list) <=> \E k \in 1 .. Len(list) : list[k].id = x
    BY <1>1, IdsAt
  <2> QED BY <1>2, <1>3, <2>1, <2>2
<1>7. Ids(q) = Ids(list)
  BY <1>6
<1> QED BY <1>2, <1>4, <1>5, <1>7 DEF Orderly

(* So is a list from which one is dequeued. *)
LEMMA RemovedOrderly ==
    ASSUME NEW list, Orderly(list), NEW m \in 1 .. Len(list), NEW q, q = RemoveAt(list, m)
    PROVE  /\ Orderly(q) /\ Ids(q) \subseteq Ids(list) /\ Ids(list) \subseteq Ids(q) \cup {list[m].id}
           /\ Total(list) = Clens(list[m].p) + Total(q) /\ Total(q) \in Nat
<1>1. PICK n : n = Len(list) - 1
  OBVIOUS
<1>2. list \in Seq(Datagrams) /\ n \in Nat /\ Len(list) = n + 1 /\ m \in 1 .. n + 1
      /\ NumReass \in Nat
  BY <1>1, LenProperties, ReassAssumption DEF Orderly
<1>3. q \in Seq(Datagrams) /\ Len(q) = n /\ Without(q, list, m, n)
  BY <1>1, <1>2, Removed
<1>4. Total(list) = Clens(list[m].p) + Total(q) /\ Total(q) \in Nat
  BY <1>2, TotalRemoved
<1>5. PICK g : g = [k \in 1 .. n |-> IF k < m THEN k ELSE k + 1]
  OBVIOUS
<1>6. \A k \in 1 .. n : g[k] \in 1 .. n + 1 /\ q[k] = list[g[k]]
  BY <1>2, <1>3, <1>5 DEF Without
<1>7. \A j, k \in 1 .. n : g[j] = g[k] => j = k
  BY <1>2, <1>5
<1>8. \A j \in 1 .. n + 1 : j = m \/ \E k \in 1 .. n : g[k] = j
  <2>1. ASSUME NEW j \in 1 .. n + 1, j # m PROVE \E k \in 1 .. n : g[k] = j
    <3>1. CASE j < m
      <4>1. j \in 1 .. n /\ g[j] = j
        BY <1>2, <1>5, <3>1
      <4> QED BY <4>1
    <3>2. CASE j > m
      <4>1. j - 1 \in 1 .. n /\ g[j - 1] = j
        BY <1>2, <1>5, <3>2
      <4> QED BY <4>1
    <3> QED BY <1>2, <2>1, <3>1, <3>2
  <2> QED BY <2>1
<1>9. Apart(q)
  <2>1. ASSUME NEW j \in 1 .. n, NEW k \in 1 .. n, q[j].id = q[k].id PROVE j = k
    <3>1. g[j] \in 1 .. Len(list) /\ g[k] \in 1 .. Len(list) /\ list[g[j]].id = list[g[k]].id
      BY <1>2, <1>6, <2>1
    <3>2. g[j] = g[k]
      BY <3>1 DEF Orderly, Apart
    <3> QED BY <1>7, <3>2
  <2> QED BY <1>3, <2>1 DEF Apart
<1>10. \A k \in 1 .. n : Chain(q[k])
  BY <1>2, <1>6 DEF Orderly
<1>11. Orderly(q)
  <2>1. n <= NumReass
    BY <1>2 DEF Orderly
  <2> QED BY <1>3, <1>9, <1>10, <2>1 DEF Orderly
<1>12. ASSUME NEW x PROVE /\ x \in Ids(q) => x \in Ids(list)
                          /\ x \in Ids(list) => x \in Ids(q) \/ x = list[m].id
  <2>1. x \in Ids(q) <=> \E k \in 1 .. n : q[k].id = x
    BY <1>3, IdsAt
  <2>2. x \in Ids(list) <=> \E k \in 1 .. n + 1 : list[k].id = x
    BY <1>2, IdsAt
  <2> QED BY <1>6, <1>8, <2>1, <2>2
<1> QED BY <1>4, <1>11, <1>12

(* The list that a fragment f finds its datagram in: a new one is in front. *)
Opened(s, f) ==
    IF Known(s, f) THEN s.list
    ELSE <<[NoDatagram EXCEPT !.id = f.id, !.hdr = f.start]>> \o s.list

(* Putting a new datagram in front keeps the list orderly. *)
LEMMA OpenedOrderly ==
    ASSUME NEW s, Orderly(s.list), NEW f \in Fragments,
           ~Known(s, f) => Len(s.list) < NumReass, NEW q, q = Opened(s, f)
    PROVE  /\ Orderly(q) /\ Total(q) = Total(s.list)
           /\ Ids(q) \subseteq Ids(s.list) \cup {f.id} /\ Ids(s.list) \subseteq Ids(q)
           /\ \E k \in 1 .. Len(q) : q[k].id = f.id
<1>1. PICK M : M = s.list
  OBVIOUS
<1>2. M \in Seq(Datagrams) /\ Len(M) \in Nat /\ DOMAIN M = 1 .. Len(M) /\ NumReass \in Nat
  BY <1>1, LenProperties, ReassAssumption DEF Orderly
<1>3. CASE Known(s, f)
  <2>1. q = M
    BY <1>1, <1>3 DEF Opened
  <2>2. \E k \in 1 .. Len(q) : q[k].id = f.id
    BY <1>1, <1>2, <1>3, <2>1 DEF Known
  <2> QED BY <1>1, <2>1, <2>2
<1>4. CASE ~Known(s, f)
  <2>1. PICK d : d = [NoDatagram EXCEPT !.id = f.id, !.hdr = f.start]
    OBVIOUS
  <2>2. q = <<d>> \o M
    BY <1>1, <1>4, <2>1 DEF Opened
  <2>3. d \in Datagrams /\ Chain(d) /\ d.id = f.id /\ d.p = <<>>
    BY <2>1, NewChain
  <2>4. /\ q \in Seq(Datagrams) /\ Len(q) = Len(M) + 1 /\ q[1] = d
        /\ \A k \in 2 .. Len(M) + 1 : q[k] = M[k - 1]
        /\ Total(q) = Clens(d.p) + Total(M)
    BY <1>2, <2>2, <2>3, TotalNewFirst
  <2>5. \A k \in 1 .. Len(M) : M[k].id # f.id
    BY <1>1, <1>2, <1>4 DEF Known
  <2>6. Total(q) = Total(M)
    <3>1. Total(M) \in Nat
      BY <1>2, TotalNat
    <3>2. Clens(d.p) = 0
      BY <2>3, ClensNone
    <3> QED BY <2>4, <3>1, <3>2
  <2>7. ASSUME NEW k \in 1 .. Len(q)
        PROVE  (k = 1 /\ q[k] = d) \/ (k - 1 \in 1 .. Len(M) /\ q[k] = M[k - 1])
    <3>1. k = 1 \/ (k \in 2 .. Len(M) + 1 /\ k - 1 \in 1 .. Len(M))
      BY <1>2, <2>4
    <3> QED BY <2>4, <3>1
  <2>8. Apart(q)
    <3>1. SUFFICES ASSUME NEW j \in 1 .. Len(q), NEW k \in 1 .. Len(q), q[j].id = q[k].id
                   PROVE  j = k
      BY DEF Apart
    <3>2. (j = 1 /\ q[j] = d) \/ (j - 1 \in 1 .. Len(M) /\ q[j] = M[j - 1])
      BY <2>7
    <3>3. (k = 1 /\ q[k] = d) \/ (k - 1 \in 1 .. Len(M) /\ q[k] = M[k - 1])
      BY <2>7
    <3>4. CASE j = 1 \/ k = 1
      BY <2>3, <2>5, <3>1, <3>2, <3>3, <3>4
    <3>5. CASE j # 1 /\ k # 1
      <4>1. j - 1 \in 1 .. Len(M) /\ k - 1 \in 1 .. Len(M) /\ M[j - 1].id = M[k - 1].id
        BY <3>1, <3>2, <3>3, <3>5
      <4>2. j - 1 = k - 1
        BY <1>1, <4>1 DEF Orderly, Apart
      <4>3. j \in Int /\ k \in Int
        BY <1>2, <2>4
      <4> QED BY <4>2, <4>3
    <3> QED BY <3>4, <3>5
  <2>9. \A k \in 1 .. Len(q) : Chain(q[k])
    BY <1>1, <2>3, <2>7 DEF Orderly
  <2>10. Orderly(q)
    <3>1. Len(q) <= NumReass
      BY <1>1, <1>2, <1>4, <2>4
    <3> QED BY <2>4, <2>8, <2>9, <3>1 DEF Orderly
  <2>11. ASSUME NEW x PROVE /\ x \in Ids(q) => x \in Ids(M) \/ x = f.id
                            /\ x \in Ids(M) => x \in Ids(q)
    <3>1. x \in Ids(q) <=> \E k \in 1 .. Len(q) : q[k].id = x
      BY <2>4, IdsAt
    <3>2. x \in Ids(M) <=> \E k \in 1 .. Len(M) : M[k].id = x
      BY <1>2, IdsAt
    <3>3. \A k \in 1 .. Len(M) : k + 1 \in 1 .. Len(q) /\ q[k + 1] = M[k]
      <4>1. ASSUME NEW k \in 1 .. Len(M) PROVE k + 1 \in 1 .. Len(q) /\ q[k + 1] = M[k]
        <5>1. k + 1 \in 2 .. Len(M) + 1 /\ (k + 1) - 1 = k /\ k + 1 \in 1 .. Len(q)
          BY <1>2, <2>4
        <5> QED BY <2>4, <5>1
      <4> QED BY <4>1
    <3> QED BY <2>3, <2>7, <3>1, <3>2, <3>3
  <2>12. 1 \in 1 .. Len(q) /\ q[1].id = f.id
    BY <1>2, <2>3, <2>4
  <2> QED BY <1>1, <2>6, <2>10, <2>11, <2>12
<1> QED BY <1>3, <1>4
-----------------------------------------------------------------------------
(* The inductive invariant: the list is orderly, the count is exact even when a freed *)
(* datagram stays linked, and what was handed up is in order.                          *)

ReassInv ==
    /\ ReassTypeOK /\ Orderly(reassdatagrams)
    /\ ip_reass_pbufcount = Total(reassdatagrams)
    /\ delivered # NoDatagram => Ordered(delivered)

(* What a call leaves of the list, and what it may add or take. *)
CallOf(f) ==
    \E o, c, M :
        /\ PlaceOf(reassdatagrams, f.id, o) /\ M \in Seq(Datagrams)
        /\ Kept(M, reassdatagrams, c, o)
        /\ Ids(reassdatagrams') \subseteq Ids(M) \cup {f.id}
        /\ Ids(M) \subseteq Ids(reassdatagrams') \cup {delivered'.id}
        /\ broken' => o > 2 /\ c < o /\ reassdatagrams' = M

(* A datagram is at one place of the list or at none. *)
LEMMA PlaceExists ==
    ASSUME NEW L \in Seq(Datagrams), Apart(L), NEW id
    PROVE  \E o : PlaceOf(L, id, o)
<1>1. Len(L) \in Nat
  BY LenProperties
<1>2. CASE \E k \in 1 .. Len(L) : L[k].id = id
  <2>1. PICK k \in 1 .. Len(L) : L[k].id = id
    BY <1>2
  <2>2. PlaceOf(L, id, k)
    BY <1>1, <2>1 DEF PlaceOf, Apart
  <2> QED BY <2>2
<1>3. CASE ~\E k \in 1 .. Len(L) : L[k].id = id
  <2>1. PlaceOf(L, id, 0)
    BY <1>1, <1>3 DEF PlaceOf
  <2> QED BY <2>1
<1> QED BY <1>2, <1>3

(* What a call does to the state after room was made, M being what is left. *)
LEMMA StateAfter ==
    ASSUME Orderly(reassdatagrams'), ip_reass_pbufcount' = Total(reassdatagrams'),
           ip_reass_pbufcount' \in Nat, ip_reass_pbufcount' <= MaxPbufs, broken' \in BOOLEAN,
           \/ delivered' = NoDatagram
           \/ delivered' \in Datagrams /\ Ordered(delivered')
    PROVE  ReassInv'
<1>1. ip_reass_pbufcount' \in 0 .. MaxPbufs
  BY ReassAssumption
<1>2. ReassTypeOK'
  BY <1>1 DEF ReassTypeOK, Orderly
<1>3. delivered' # NoDatagram => Ordered(delivered')
  OBVIOUS
<1> QED BY <1>2, <1>3 DEF ReassInv

(* One call keeps the invariant and does to the list what is described. *)
LEMMA ReassStep ==
    ASSUME ReassInv, NEW f \in Fragments, ip_reass(f)
    PROVE  ReassInv' /\ CallOf(f)
<1>1. PICK L : L = reassdatagrams
  OBVIOUS
<1>2. /\ Orderly(L) /\ L \in Seq(Datagrams) /\ Apart(L) /\ Len(L) <= NumReass
      /\ ip_reass_pbufcount = Total(L) /\ broken = FALSE
      /\ ip_reass_pbufcount \in Nat /\ ip_reass_pbufcount <= MaxPbufs /\ MaxPbufs \in Nat
  <2>1. broken = FALSE
    BY DEF ip_reass, ReassInv, ReassTypeOK
  <2>2. ip_reass_pbufcount \in 0 .. MaxPbufs /\ MaxPbufs \in Nat
    BY ReassAssumption DEF ReassInv, ReassTypeOK
  <2> QED BY <1>1, <2>1, <2>2 DEF ReassInv, Orderly
<1>3. PICK o : PlaceOf(L, f.id, o)
  BY <1>2, PlaceExists
<1>4. PICK s : s = Room(f)
  OBVIOUS
<1>5. s \in CallStates /\ RoomMade(s, L, f, o)
  BY <1>1, <1>2, <1>3, <1>4, RoomIsMade
<1>6. PICK M : M = s.list
  OBVIOUS
<1>7. PICK c \in 0 .. Len(L) : Kept(M, L, c, o) /\ (s.broken => o > 2 /\ c < o)
  BY <1>5, <1>6 DEF RoomMade
<1>8. /\ M \in Seq(Datagrams) /\ s.count = Total(M) /\ s.count \in Nat /\ s.count <= MaxPbufs
      /\ Len(M) <= Len(L) /\ s.broken \in BOOLEAN /\ o \in 0 .. Len(L)
  <2>1. s.count \in Nat /\ s.count <= Total(L) /\ s.broken \in BOOLEAN
    BY <1>5 DEF CallStates, RoomMade
  <2> QED BY <1>2, <1>3, <1>5, <1>6, <2>1 DEF CallStates, RoomMade, PlaceOf
<1>9. Orderly(M)
  BY <1>2, <1>7, <1>8, KeptOrderly
<1>10. CASE s.broken \/ ~Admitted(s, f)
  <2>1. Become(s) /\ delivered' = NoDatagram
    BY <1>4, <1>10 DEF ip_reass
  <2>2. /\ reassdatagrams' = M /\ ip_reass_pbufcount' = s.count /\ broken' = s.broken
        /\ delivered' = NoDatagram
    BY <1>6, <2>1 DEF Become
  <2>3. ReassInv'
    BY <1>8, <1>9, <2>2, StateAfter
  <2>4. CallOf(f)
    BY <1>1, <1>3, <1>7, <1>8, <2>2 DEF CallOf
  <2> QED BY <2>3, <2>4
<1>11. CASE ~(s.broken \/ ~Admitted(s, f))
  <2>1. Accept(s, f) /\ s.broken = FALSE /\ s.count + Clen(f) <= MaxPbufs
    BY <1>4, <1>8, <1>11 DEF ip_reass, Admitted
  <2>2. PICK list : list = Opened(s, f)
    OBVIOUS
  <2>3. ~Known(s, f) => Len(s.list) < NumReass
    BY <1>5, <1>11 DEF RoomMade
  <2>4. /\ Orderly(list) /\ Total(list) = Total(M)
        /\ Ids(list) \subseteq Ids(M) \cup {f.id} /\ Ids(M) \subseteq Ids(list)
        /\ \E k \in 1 .. Len(list) : list[k].id = f.id
    BY <1>6, <1>9, <2>2, <2>3, OpenedOrderly
  <2>5. PICK at : at = CHOOSE k \in DOMAIN list : list[k].id = f.id
    OBVIOUS
  <2>6. at \in 1 .. Len(list) /\ list[at].id = f.id /\ list \in Seq(Datagrams)
    <3>1. list \in Seq(Datagrams) /\ DOMAIN list = 1 .. Len(list)
      BY <2>4, LenProperties DEF Orderly
    <3> QED BY <2>4, <2>5, <3>1
  <2>7. PICK a, d, e : a = list[at] /\ d = Seen(a, f) /\ e = Chained(d, f)
    OBVIOUS
  <2>8. a \in Datagrams /\ Chain(a) /\ a.id = f.id
    <3>1. list[at] \in Datagrams
      BY <2>6, ElementOfSeq
    <3> QED BY <2>4, <2>6, <2>7, <3>1 DEF Orderly
  <2>9. d \in Datagrams /\ d.id = f.id /\ d.p = a.p
    BY <2>7, <2>8, SeenType
  <2>10. IF ThrownAway(d.p, f)
         THEN /\ Become([s EXCEPT !.list = [list EXCEPT ![at] = d]])
              /\ delivered' = NoDatagram
         ELSE IF Complete(e, f)
         THEN /\ Become([s EXCEPT !.list = RemoveAt(list, at),
                                  !.count = @ + Clen(f) - Clens(e.p)])
              /\ delivered' = e
         ELSE /\ Become([s EXCEPT !.list = [list EXCEPT ![at] = e], !.count = @ + Clen(f)])
              /\ delivered' = NoDatagram
    BY <2>1, <2>2, <2>5, <2>7, Zenon DEF Accept, Opened
  <2>11. PICK b, l, n : b = Clens(a.p) /\ l = Total(M) /\ n = Clen(f)
    OBVIOUS
  <2>12. b \in Nat /\ l \in Nat /\ n \in Nat /\ s.count = l /\ Total(list) = l
    <3>1. a.p \in Seq(Fragments)
      BY <2>8 DEF Datagrams
    <3> QED BY <1>8, <2>4, <2>11, <3>1, ClensNat, TotalNat, ReassAssumption
  <2>13. CASE ThrownAway(d.p, f)
    <3>1. PICK q : q = [list EXCEPT ![at] = d]
      OBVIOUS
    <3>2. /\ reassdatagrams' = q /\ ip_reass_pbufcount' = l /\ broken' = FALSE
          /\ delivered' = NoDatagram
      BY <1>5, <2>1, <2>10, <2>12, <2>13, <3>1 DEF Become, CallStates
    <3>3. Chain(d)
      BY <2>7, <2>8, <2>9, <2>13, ThrownAwayKeeps
    <3>4. Orderly(q) /\ Ids(q) = Ids(list) /\ Exchanged(q, list, at, d)
      <4>1. d.id = list[at].id
        BY <2>6, <2>9
      <4> QED BY <2>4, <2>6, <2>9, <3>1, <3>3, <4>1, ReplacedOrderly
    <3>5. Total(q) = l
      <4>1. Total(q) \in Nat
        BY <3>4, TotalNat DEF Orderly
      <4>2. Total(q) + b = l + b
        BY <2>7, <2>9, <2>11, <2>12, <3>4 DEF Exchanged
      <4> QED BY <2>12, <4>1, <4>2
    <3>6. ReassInv'
      BY <1>8, <2>12, <3>2, <3>4, <3>5, StateAfter
    <3>7. CallOf(f)
      BY <1>1, <1>3, <1>7, <1>8, <2>4, <3>2, <3>4 DEF CallOf
    <3> QED BY <3>6, <3>7
  <2>14. CASE ~ThrownAway(d.p, f)
    <3>1. PICK m : m = Place(a.p, f)
      OBVIOUS
    <3>2. /\ e \in Datagrams /\ Chain(e) /\ e.id = f.id
          /\ m \in 0 .. Len(a.p) /\ PutIn(e.p, a.p, m, f) /\ Place(e.p, f) = m + 1
          /\ Clens(e.p) = b + n
      BY <2>7, <2>8, <2>9, <2>11, <2>14, <3>1, ChainedKeeps
    <3>3. CASE Complete(e, f)
      <4>1. PICK q : q = RemoveAt(list, at)
        OBVIOUS
      <4>2. /\ Orderly(q) /\ Ids(q) \subseteq Ids(list) /\ Ids(list) \subseteq Ids(q) \cup {f.id}
            /\ l = b + Total(q) /\ Total(q) \in Nat
        BY <2>4, <2>6, <2>7, <2>11, <2>12, <4>1, RemovedOrderly
      <4>3. PICK t : t = (l + n) - (b + n)
        OBVIOUS
      <4>4. /\ reassdatagrams' = q /\ ip_reass_pbufcount' = t /\ broken' = FALSE
            /\ delivered' = e
        BY <1>5, <2>1, <2>10, <2>11, <2>12, <2>14, <3>2, <3>3, <4>1, <4>3
           DEF Become, CallStates
      <4>5. t = Total(q) /\ t \in Nat /\ t <= l
        BY <2>12, <4>2, <4>3
      <4>6. Ordered(e)
        <5>1. PICK p : p = a.p
          OBVIOUS
        <5>2. p \in Seq(Fragments) /\ Rising(p) /\ ~ThrownAway(p, f)
          BY <2>8, <2>9, <2>14, <5>1 DEF Datagrams, Chain
        <5>3. \A k \in 1 .. m : p[k].end <= f.start
          BY <3>1, <5>1, <5>2, Fits
        <5> QED BY <3>2, <3>3, <5>1, <5>2, <5>3, CompleteIsOrdered
      <4>7. ReassInv'
        <5>1. t <= MaxPbufs
          BY <1>2, <1>8, <2>12, <4>5
        <5>2. Ordered(delivered')
          BY <4>4, <4>6
        <5> QED BY <3>2, <4>2, <4>4, <4>5, <5>1, <5>2, StateAfter
      <4>8. CallOf(f)
        BY <1>1, <1>3, <1>7, <1>8, <2>4, <3>2, <4>2, <4>4 DEF CallOf
      <4> QED BY <4>7, <4>8
    <3>4. CASE ~Complete(e, f)
      <4>1. PICK q, t : q = [list EXCEPT ![at] = e] /\ t = l + n
        OBVIOUS
      <4>2. /\ reassdatagrams' = q /\ ip_reass_pbufcount' = t /\ broken' = FALSE
            /\ delivered' = NoDatagram
        BY <1>5, <2>1, <2>10, <2>11, <2>12, <2>14, <3>4, <4>1 DEF Become, CallStates
      <4>3. Orderly(q) /\ Ids(q) = Ids(list) /\ Exchanged(q, list, at, e)
        <5>1. e.id = list[at].id
          BY <2>6, <3>2
        <5> QED BY <2>4, <2>6, <3>2, <4>1, <5>1, ReplacedOrderly
      <4>4. Total(q) = t /\ t \in Nat /\ t <= MaxPbufs
        <5>1. Total(q) \in Nat
          BY <4>3, TotalNat DEF Orderly
        <5>2. Total(q) + b = l + (b + n)
          BY <2>7, <2>11, <2>12, <3>2, <4>3 DEF Exchanged
        <5>3. Total(q) = l + n
          BY <2>12, <5>1, <5>2
        <5>4. l + n <= MaxPbufs
          BY <2>1, <2>11, <2>12
        <5> QED BY <2>12, <4>1, <5>3, <5>4
      <4>5. ReassInv'
        BY <4>2, <4>3, <4>4, StateAfter
      <4>6. CallOf(f)
        BY <1>1, <1>3, <1>7, <1>8, <2>4, <4>2, <4>3 DEF CallOf
      <4> QED BY <4>5, <4>6
    <3> QED BY <3>3, <3>4
  <2> QED BY <2>13, <2>14
<1> QED BY <1>10, <1>11
-----------------------------------------------------------------------------
(* The invariant holds at first. *)
LEMMA ReassInitInv == ReassInit => ReassInv
<1> SUFFICES ASSUME ReassInit PROVE ReassInv
  OBVIOUS
<1>1. PICK q : q = <<>>
  OBVIOUS
<1>2. q \in Seq(Datagrams) /\ Len(q) = 0 /\ Total(q) = 0
  BY <1>1, TotalNone
<1>3. reassdatagrams = q /\ ip_reass_pbufcount = 0 /\ broken = FALSE
      /\ delivered = NoDatagram
  BY <1>1 DEF ReassInit
<1>4. NumReass \in Nat /\ MaxPbufs \in Nat
  BY ReassAssumption
<1>5. Orderly(q)
  BY <1>2, <1>4 DEF Orderly, Apart
<1>6. ReassTypeOK
  <2>1. 0 \in 0 .. MaxPbufs
    BY <1>4
  <2>2. reassdatagrams \in Seq(Datagrams) /\ Len(reassdatagrams) <= NumReass
    BY <1>2, <1>3, <1>5 DEF Orderly
  <2> QED BY <1>3, <2>1, <2>2 DEF ReassTypeOK
<1> QED BY <1>2, <1>3, <1>5, <1>6 DEF ReassInv

(* Every step keeps it. *)
LEMMA ReassNextInv == ReassInv /\ [ReassNext]_reassvars => ReassInv'
<1> SUFFICES ASSUME ReassInv, [ReassNext]_reassvars PROVE ReassInv'
  OBVIOUS
<1>1. ASSUME NEW f \in Fragments, ip_reass(f) PROVE ReassInv'
  BY <1>1, ReassStep
<1>2. ASSUME UNCHANGED reassvars PROVE ReassInv'
  BY <1>2 DEF ReassInv, reassvars, ReassTypeOK
<1> QED BY <1>1, <1>2 DEF ReassNext, Broken

(* The invariant holds throughout. *)
THEOREM ReassInvariant == ReassSpec => []ReassInv
BY ReassInitInv, ReassNextInv, PTL DEF ReassSpec

(* However fragments are mixed, at most MaxPbufs pbufs and NumReass structs are held, *)
(* and the count that ip_reass decides by is that of the chains: ip_reass_pbufcount    *)
(* neither leaks nor runs ahead in any order of chaining, giving up and delivering.    *)
THEOREM ReassCountExact == ReassSpec => []ListInv
<1>1. ReassInv => ListInv
  <2> SUFFICES ASSUME ReassInv PROVE ListInv
    OBVIOUS
  <2>1. Total(reassdatagrams) = FoldSeq(LAMBDA d, n : Clens(d.p) + n, 0, reassdatagrams)
    BY Zenon DEF Total
  <2> QED BY <2>1 DEF ReassInv, ListInv, CountExact
<1> QED BY <1>1, ReassInvariant, PTL

(* Whatever is handed up begins with its header, is in order without an overlap and *)
(* ends with its last fragment, if it was cut in one way: what chaining and the      *)
(* validation promise of every chain.                                                *)
THEOREM ReassDelivers == ReassSpec => []DeliveredInOrder
<1>1. ReassInv => DeliveredInOrder
  BY DEF ReassInv, DeliveredInOrder, Ordered
<1> QED BY <1>1, ReassInvariant, PTL

(* Room is made in order of age in every list of any length. *)
THEOREM ReassGivesUpOldest == ReassSpec => GivesUpOldest
<1> DEFINE InOrder ==
        \A j, k \in DOMAIN reassdatagrams :
          LET x == reassdatagrams[j].id
              y == reassdatagrams[k].id
          IN  /\ j < k /\ x \notin Ids(reassdatagrams') \cup {delivered'.id}
              /\ y \in Ids(reassdatagrams')
              => \E f \in Fragments : ip_reass(f) /\ y = f.id
<1>1. ReassInv /\ [ReassNext]_reassvars => [InOrder]_reassvars
  <2> SUFFICES ASSUME ReassInv, NEW f \in Fragments, ip_reass(f) PROVE InOrder
    BY DEF ReassNext, Broken
  <2>1. PICK L : L = reassdatagrams
    OBVIOUS
  <2>2. L \in Seq(Datagrams) /\ Apart(L) /\ DOMAIN L = 1 .. Len(L) /\ Len(L) \in Nat
    BY <2>1, LenProperties DEF ReassInv, Orderly
  <2>3. CallOf(f)
    BY ReassStep
  <2>4. PICK o, c, M : /\ PlaceOf(L, f.id, o) /\ M \in Seq(Datagrams) /\ Kept(M, L, c, o)
                       /\ Ids(reassdatagrams') \subseteq Ids(M) \cup {f.id}
                       /\ Ids(M) \subseteq Ids(reassdatagrams') \cup {delivered'.id}
    BY <2>1, <2>3 DEF CallOf
  <2>5. c \in Nat /\ c <= Len(L) /\ o \in 0 .. Len(L) /\ o \in Nat /\ Len(M) \in Nat
    BY <2>2, <2>4, LenProperties DEF Kept, PlaceOf
  <2> SUFFICES ASSUME NEW j \in 1 .. Len(L), NEW k \in 1 .. Len(L), j < k,
                      L[j].id \notin Ids(reassdatagrams') \cup {delivered'.id},
                      L[k].id \in Ids(reassdatagrams'), L[k].id # f.id
               PROVE  FALSE
    BY <2>1, <2>2
  <2>6. c < j
    <3>1. SUFFICES ASSUME j <= c PROVE FALSE
      BY <2>5
    <3>2. j \in 1 .. c /\ j \in 1 .. Len(M)
      BY <2>2, <2>4, <2>5, <3>1 DEF Kept
    <3>3. M[j] = L[j]
      BY <2>4, <3>2 DEF Kept
    <3>4. L[j].id \in Ids(M)
      BY <2>4, <3>2, <3>3, IdsAt
    <3> QED BY <2>4, <3>4
  <2>7. L[k].id \in Ids(M)
    BY <2>4
  <2>8. PICK h \in 1 .. Len(M) : M[h].id = L[k].id
    BY <2>4, <2>7, IdsAt
  <2>9. \/ h <= c /\ h \in 1 .. Len(L) /\ M[h] = L[h]
        \/ o \in 1 .. Len(L) /\ M[h] = L[o]
    BY <2>2, <2>4, <2>5, KeptFrom
  <2>10. CASE h <= c /\ h \in 1 .. Len(L) /\ M[h] = L[h]
    <3>1. h = k
      BY <2>2, <2>8, <2>10 DEF Apart
    <3> QED BY <2>5, <2>6, <2>10, <3>1
  <2>11. CASE o \in 1 .. Len(L) /\ M[h] = L[o]
    <3>1. L[o].id = f.id
      BY <2>4, <2>11 DEF PlaceOf
    <3> QED BY <2>8, <2>11, <3>1
  <2> QED BY <2>9, <2>10, <2>11
<1> HIDE DEF InOrder
<1>2. ReassSpec => [][InOrder]_reassvars
  BY <1>1, ReassInvariant, PTL DEF ReassSpec
<1> QED BY <1>2 DEF GivesUpOldest, InOrder

(* Only the way described breaks the list: a turn over the fragment's own datagram *)
(* when two newer ones are in progress and nothing older is left.                  *)
THEOREM ReassBreaksOnlyForOldest == ReassSpec => BreaksOnlyForOldest
<1> DEFINE ForOldest ==
        broken' => \E f \in Fragments, k \in DOMAIN reassdatagrams :
           /\ ip_reass(f) /\ f.id = reassdatagrams[k].id
           /\ k > 2
           /\ \A j \in DOMAIN reassdatagrams :
                  j > k => reassdatagrams[j].id \notin Ids(reassdatagrams')
<1>1. ReassInv /\ [ReassNext]_reassvars => [ForOldest]_reassvars
  <2> SUFFICES ASSUME ReassInv, NEW f \in Fragments, ip_reass(f), broken' PROVE ForOldest
    BY DEF ReassNext, Broken
  <2>1. PICK L : L = reassdatagrams
    OBVIOUS
  <2>2. L \in Seq(Datagrams) /\ Apart(L) /\ DOMAIN L = 1 .. Len(L) /\ Len(L) \in Nat
    BY <2>1, LenProperties DEF ReassInv, Orderly
  <2>3. CallOf(f)
    BY ReassStep
  <2>4. PICK o, c, M : /\ PlaceOf(L, f.id, o) /\ M \in Seq(Datagrams) /\ Kept(M, L, c, o)
                       /\ o > 2 /\ c < o /\ reassdatagrams' = M
    BY <2>1, <2>3 DEF CallOf
  <2>5. c \in Nat /\ o \in 1 .. Len(L) /\ o \in 0 .. Len(L)
    BY <2>2, <2>4 DEF Kept, PlaceOf
  <2>6. f.id = L[o].id
    BY <2>4, <2>5 DEF PlaceOf
  <2>7. ASSUME NEW j \in 1 .. Len(L), j > o PROVE L[j].id \notin Ids(M)
    <3>1. SUFFICES ASSUME L[j].id \in Ids(M) PROVE FALSE
      OBVIOUS
    <3>2. PICK h \in 1 .. Len(M) : M[h].id = L[j].id
      BY <2>4, <3>1, IdsAt
    <3>3. \/ h <= c /\ h \in 1 .. Len(L) /\ M[h] = L[h]
          \/ o \in 1 .. Len(L) /\ M[h] = L[o]
      BY <2>2, <2>4, <2>5, KeptFrom
    <3>4. (h <= c /\ h = j) \/ o = j
      BY <2>2, <2>7, <3>2, <3>3 DEF Apart
    <3> QED BY <2>2, <2>4, <2>5, <2>7, <3>4
  <2> QED BY <2>1, <2>2, <2>4, <2>5, <2>6, <2>7
<1> HIDE DEF ForOldest
<1>2. ReassSpec => [][ForOldest]_reassvars
  BY <1>1, ReassInvariant, PTL DEF ReassSpec
<1> QED BY <1>2 DEF BreaksOnlyForOldest, ForOldest
=============================================================================
