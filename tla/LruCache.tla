------------------------------ MODULE LruCache -------------------------------
(* The bounded cache of smear-cursor (events/lru_cache.rs): a doubly linked  *)
(* list threaded through slots that are handed out again once they are free, *)
(* beside the list of recent entries that it stands for.                     *)
EXTENDS Naturals, Sequences, FiniteSets, SequencesExt

CONSTANTS Keys, Values, Capacity, NoSlot, NoValue

VARIABLES lru,     \* LruCache
          recency,   \* history: <<key, value>> of the entries, most recent first
          given      \* history: what the last call gave, and what it should have given

vars == <<lru, recency, given>>

Empty == [nodes |-> <<>>, free |-> <<>>, index |-> [k \in {} |-> NoSlot],
          head |-> NoSlot, tail |-> NoSlot, len |-> 0]

Vacant == NoSlot
Slots(c) == DOMAIN c.nodes
Live(c) == {i \in Slots(c) : c.nodes[i] # Vacant}

TypeOK ==
  /\ lru.len \in 0 .. Capacity
  /\ Len(lru.nodes) <= Capacity
  /\ Range(lru.free) \subseteq Slots(lru)
  /\ DOMAIN lru.index \subseteq Keys

-----------------------------------------------------------------------------
Pointing(c, slot, field, to) ==
  IF slot = NoSlot THEN c ELSE [c EXCEPT !.nodes[slot][field] = to]

(* Fault: the entry at the end of the list is cut off without moving the end. *)
DetachedKeepingTail(c, slot) ==
  LET node == c.nodes[slot]
      around == Pointing(Pointing(c, node.prev, "next", node.next), node.next, "prev", node.prev)
  IN [around EXCEPT !.head = IF node.prev = NoSlot THEN node.next ELSE @,
                    !.nodes[slot].prev = NoSlot,
                    !.nodes[slot].next = NoSlot]

(* detach: the neighbours, or the ends of the list, close the gap. *)
Detached(c, slot) ==
  LET node == c.nodes[slot]
      around == Pointing(Pointing(c, node.prev, "next", node.next), node.next, "prev", node.prev)
  IN [around EXCEPT !.head = IF node.prev = NoSlot THEN node.next ELSE @,
                    !.tail = IF node.next = NoSlot THEN node.prev ELSE @,
                    !.nodes[slot].prev = NoSlot,
                    !.nodes[slot].next = NoSlot]

Attached(c, slot) ==
  LET linked == Pointing(Pointing(c, slot, "next", c.head), c.head, "prev", slot)
  IN [linked EXCEPT !.nodes[slot].prev = NoSlot,
                    !.tail = IF c.head = NoSlot THEN slot ELSE @,
                    !.head = slot]

MovedToFront(c, slot) == IF c.head = slot THEN c ELSE Attached(Detached(c, slot), slot)

(* allocate_node: the slot freed last is taken first. *)
Allocated(c, key, value) ==
  LET node == [key |-> key, value |-> value, prev |-> NoSlot, next |-> NoSlot]
  IN IF c.free = <<>>
     THEN [slot |-> Len(c.nodes) + 1, cache |-> [c EXCEPT !.nodes = Append(@, node)]]
     ELSE [slot |-> Last(c.free),
           cache |-> [c EXCEPT !.nodes[Last(c.free)] = node, !.free = Front(@)]]

Forgotten(c, slot) ==
  LET key == c.nodes[slot].key
      out == Detached(c, slot)
  IN [out EXCEPT !.nodes[slot] = Vacant,
                 !.index = [k \in DOMAIN @ \ {key} |-> @[k]],
                 !.free = Append(@, slot),
                 !.len = @ - 1]

(* insert: a known key only moves; a new one may evict the least recent. *)
Inserted(c, key, value) ==
  IF key \in DOMAIN c.index
  THEN MovedToFront([c EXCEPT !.nodes[c.index[key]].value = value], c.index[key])
  ELSE LET room == IF c.len >= Capacity THEN Forgotten(c, c.tail) ELSE c
           new == Allocated(room, key, value)
           listed == Attached(new.cache, new.slot)
       IN [listed EXCEPT !.index = [k \in DOMAIN @ \union {key} |->
                                      IF k = key THEN new.slot ELSE @[k]],
                         !.len = @ + 1]

Removed(c, key) == IF key \in DOMAIN c.index THEN Forgotten(c, c.index[key]) ELSE c

(* remove_where, for the entries with a value: in the order of the slots. *)
RemovedWhere(c, value) ==
  FoldLeft(LAMBDA acc, i :
             IF acc.nodes[i] # Vacant /\ acc.nodes[i].value = value THEN Forgotten(acc, i) ELSE acc,
           c, [i \in 1 .. Len(c.nodes) |-> i])

Peeked(c, key) == IF key \in DOMAIN c.index THEN c.nodes[c.index[key]].value ELSE NoValue
Touched(c, key) == IF key \in DOMAIN c.index THEN MovedToFront(c, c.index[key]) ELSE c

-----------------------------------------------------------------------------
(* What the entries should be: the list of the keys, most recent first. *)
Without(list, key) == SelectSeq(list, LAMBDA e : e[1] # key)
Recalled(list, key) ==
  IF \E i \in DOMAIN list : list[i][1] = key
  THEN list[CHOOSE i \in DOMAIN list : list[i][1] = key][2] ELSE NoValue
Pushed(list, key, value) ==
  LET rest == Without(list, key)
  IN <<<<key, value>>>> \o SubSeq(rest, 1, IF Len(rest) < Capacity THEN Len(rest) ELSE Capacity - 1)

Insert(key, value) ==
  /\ lru' = Inserted(lru, key, value)
  /\ recency' = Pushed(recency, key, value)
  /\ given' = <<NoValue, NoValue>>

(* get_copy and get_cloned *)
Get(key) ==
  /\ lru' = Touched(lru, key)
  /\ recency' = IF Recalled(recency, key) = NoValue THEN recency
                ELSE Pushed(recency, key, Recalled(recency, key))
  /\ given' = <<Peeked(lru, key), Recalled(recency, key)>>

Discard(key) ==
  /\ lru' = Removed(lru, key)
  /\ recency' = Without(recency, key)
  /\ given' = <<Peeked(lru, key), Recalled(recency, key)>>

RemoveWhere(value) ==
  /\ lru' = RemovedWhere(lru, value)
  /\ recency' = SelectSeq(recency, LAMBDA e : e[2] # value)
  /\ given' = <<NoValue, NoValue>>

Clear ==
  /\ lru' = Empty
  /\ recency' = <<>>
  /\ given' = <<NoValue, NoValue>>

Init == lru = Empty /\ recency = <<>> /\ given = <<NoValue, NoValue>>

Next ==
  \/ \E k \in Keys, v \in Values : Insert(k, v)
  \/ \E k \in Keys : Get(k) \/ Discard(k)
  \/ \E v \in Values : RemoveWhere(v)
  \/ Clear

Spec == Init /\ [][Next]_vars

-----------------------------------------------------------------------------
(* The slots reached along a field, no further than the slots are many. *)
Walk(start, field) ==
  LET steps[n \in 0 .. Len(lru.nodes)] ==
        IF n = 0 THEN <<start>>
        ELSE LET so == steps[n - 1]
             IN IF Last(so) = NoSlot THEN so
                ELSE Append(so, IF lru.nodes[Last(so)] = Vacant THEN NoSlot
                                ELSE lru.nodes[Last(so)][field])
  IN steps[Len(lru.nodes)]

Entry(slot) == <<lru.nodes[slot].key, lru.nodes[slot].value>>
Chain == SelectSeq(Walk(lru.head, "next"), LAMBDA i : i # NoSlot)

(* After any sequence of calls the links say what a list of recent entries   *)
(* would: forwards from the head, backwards from the tail, with the index    *)
(* and the free slots covering the rest, so that the entry evicted is the    *)
(* one used longest ago and no slot is lost or handed out twice              *)
(* (detach, attach_front, remove_node, allocate_node).                       *)
LinksTellRecency ==
  /\ [i \in DOMAIN Chain |-> Entry(Chain[i])] = recency
  /\ SelectSeq(Walk(lru.tail, "prev"), LAMBDA i : i # NoSlot) = Reverse(Chain)
  /\ Live(lru) = Range(Chain) /\ IsInjective(Chain)
  /\ Slots(lru) \ Live(lru) = Range(lru.free) /\ IsInjective(lru.free)
  /\ lru.index = [k \in {recency[i][1] : i \in DOMAIN recency} |->
                      Chain[CHOOSE i \in DOMAIN recency : recency[i][1] = k]]
  /\ lru.len = Len(recency)

(* A call answers what the list would: an entry is never lost before the     *)
(* cache is full of more recent ones, and never answered after it was        *)
(* removed or replaced (get_copy, remove).                                   *)
AnswersAreRecent == given[1] = given[2]
=============================================================================
