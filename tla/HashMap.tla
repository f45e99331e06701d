------------------------------- MODULE HashMap -------------------------------
(***************************************************************************)
(* hash_map.c: an open-addressing table of pointers to caller-owned pairs. *)
(* One call runs at a time.  The two loops whose ends are in doubt run one *)
(* iteration per step: find_bucket's probe loop (pc = "find") and the      *)
(* loops of rehash_move (pc = "move"); everything else of a function is    *)
(* the step that enters or leaves them.  malloc may fail at every call.    *)
(***************************************************************************)
EXTENDS Integers, FiniteSets

CONSTANTS Keys, Vals,     \* a pair is its key and the rest of it
          NULL,           \* the null pointer
          Hashers,        \* hash functions the caller passes, as functions of the key
          SizeMod,        \* 2^w: values of a size_t or an unsigned long
          MaxCap,         \* malloc fails for a block of more slots than this
          EnsureArgs,     \* arguments of hmap_ensure_capacity
          Ops,            \* functions the caller uses
          HMAP_GROW(_),   \* the macros a build may override
          HMAP_PROBE(_, _)

Pair == [key : Keys, val : Vals]
SizeT == 0 .. SizeMod - 1
Slot == [hash : SizeT, pair : Pair \cup {NULL}]

ASSUME NullAssumption == NULL \notin Pair /\ NULL \notin Hashers
ASSUME HashersAssumption == Hashers \subseteq [Keys -> SizeT]
ASSUME SizeAssumption ==
  SizeMod \in Nat \ {0} /\ MaxCap \in Nat /\ MaxCap + 1 \in SizeT /\ EnsureArgs \subseteq SizeT
ASSUME MacroAssumption ==
  /\ \A n \in SizeT : HMAP_GROW(n) \in SizeT
  /\ \A h, n \in SizeT : HMAP_PROBE(h, n) \in SizeT

(* "@return value >= n", what HMAP_GROW promises, for the sizes asked for. *)
GrowKeepsPromise ==
  \A n \in EnsureArgs \cup 0 .. MaxCap + 1 : HMAP_GROW(n) >= n

VARIABLES
  live,                            \* between init_hmap and free_hmap
  len, cap, mem, hasher,           \* the fields of hash_map
  pc,                              \* "idle", "find" or "move"
  op, arg, ret,                    \* the running or last call, its pair, its answer
  code, k,                         \* find_bucket: hashcode and iteration
  i, fn, fresh, fcap,              \* rehash_move: i, hasher, dst and dst_cap; k too,
                                   \* and code where src[i] is vacant
  nullHashed                       \* a hash function was handed NULL

table == <<live, len, cap, mem, hasher>>
search == <<code, k>>
move == <<i, fn, fresh, fcap>>
vars == <<table, pc, op, arg, ret, search, move, nullHashed>>

(* A slot marked by pair = NULL.  The hash in it, stale or never written,   *)
(* is not known: StaleHash chooses it where rehash_move reads it.          *)
Vacant == [hash |-> 0, pair |-> NULL]
EmptyBlock(c) == [j \in 0 .. c - 1 |-> Vacant]
IsVacant(s) == s.pair = NULL
Occupied(block) == {j \in DOMAIN block : block[j].pair # NULL}

(* Mutant: the last slot is never probed.                                  *)
BucketShort(h, n, c) == HMAP_PROBE(h, n) % (c - 1)

Bucket(h, n, c) == HMAP_PROBE(h, n) % c

(* A slot at which find_bucket stops for pair p with hash code h.          *)
Matches(s, h, p) == s.pair # NULL /\ s.hash = h /\ s.pair.key = p.key
Stops(s, h, p) == s.pair = NULL \/ Matches(s, h, p)

Pending == [done |-> FALSE, ok |-> FALSE, pair |-> NULL]
Answer(b, p) == [done |-> TRUE, ok |-> b, pair |-> p]

Init ==
  /\ live = FALSE /\ len = 0 /\ cap = 0 /\ mem = EmptyBlock(0) /\ hasher = NULL
  /\ pc = "idle" /\ op = "none" /\ arg = NULL /\ ret = Pending
  /\ code = 0 /\ k = 0
  /\ i = 0 /\ fn = NULL /\ fresh = EmptyBlock(0) /\ fcap = 0
  /\ nullHashed = FALSE

------------------------------------------------------------------------------
(* Entering and leaving a call.  Locals are reset when they die.           *)

Call(o, p) == pc = "idle" /\ o \in Ops /\ op' = o /\ arg' = p

NoSearch == code' = 0 /\ k' = 0
NoMove == i' = 0 /\ fn' = NULL /\ fresh' = EmptyBlock(0) /\ fcap' = 0

Return(b, p) == pc' = "idle" /\ ret' = Answer(b, p) /\ NoSearch /\ NoMove

(* Functions that answer with a pointer.                                   *)
ReturnPointer(p) == Return(p # NULL, p)

StartFind(p) ==
  pc' = "find" /\ code' = hasher[p.key] /\ k' = 0 /\ ret' = Pending /\ NoMove

(* rehash_move comes to source slot n.  If that is vacant, the hashcode is *)
(* whatever its hash is, or whatever the hasher makes of its NULL.         *)
StaleHash(n) == IF n < cap /\ IsVacant(mem[n]) THEN SizeT ELSE {0}
NextSource(n) == i' = n /\ k' = 0 /\ code' \in StaleHash(n)

StartMove(c, f) ==
  /\ pc' = "move" /\ ret' = Pending
  /\ fn' = f /\ fcap' = c /\ fresh' = EmptyBlock(c) /\ NextSource(0)

(* The part of hmap_ensure_capacity that runs when cap < n.                *)
GrowTo(n) ==
  \/ Return(FALSE, NULL)                                      \* malloc failed
  \/ HMAP_GROW(n) <= MaxCap /\ StartMove(HMAP_GROW(n), NULL)

------------------------------------------------------------------------------
(* The functions of the header, up to their first loop.                    *)

init_hmap ==
  /\ ~live /\ Call("init", NULL)
  /\ \/ Return(FALSE, NULL) /\ UNCHANGED <<table, nullHashed>>  \* a NULL function
     \/ /\ live' = TRUE /\ len' = 0 /\ cap' = 0 /\ mem' = EmptyBlock(0)
        /\ hasher' \in Hashers
        /\ Return(TRUE, NULL) /\ UNCHANGED nullHashed

(* Without a table free_hmap keeps the fields: the caller must not care.   *)
free_hmap ==
  /\ live /\ Call("free", NULL)
  /\ live' = FALSE
  /\ IF cap > 0 THEN len' = 0 /\ cap' = 0 /\ mem' = EmptyBlock(0) /\ hasher' = NULL
                ELSE UNCHANGED <<len, cap, mem, hasher>>
  /\ Return(TRUE, NULL) /\ UNCHANGED nullHashed

hmap_clear ==
  /\ live /\ Call("clear", NULL)
  /\ len' = 0 /\ mem' = EmptyBlock(cap)
  /\ Return(TRUE, NULL) /\ UNCHANGED <<live, cap, hasher, nullHashed>>

hmap_ensure_capacity ==
  /\ live /\ Call("ensure", NULL)
  /\ \E n \in EnsureArgs :
       \/ cap >= n /\ Return(TRUE, NULL)
       \/ cap < n /\ GrowTo(n)
  /\ UNCHANGED <<table, nullHashed>>

(* Mutant: room for the pairs there are.                                   *)
RoomTight == IF len = 0 THEN 1 ELSE len

(* hmap_put and hmap_put_if_absent begin alike: room for one more pair.    *)
Room == len + 1

StartPut(o, p) ==
  /\ live /\ Call(o, p)
  /\ \/ p = NULL /\ Return(TRUE, NULL)
     \/ p # NULL /\ cap >= Room /\ StartFind(p)
     \/ p # NULL /\ cap < Room /\ GrowTo(Room)
  /\ UNCHANGED <<table, nullHashed>>

(* Mutant: no early return for a map without pairs.                        *)
NeverEmpty == FALSE

(* hmap_remove, hmap_replace and hmap_get begin alike.                     *)
NothingStored == len < 1

StartLookup(o, p) ==
  /\ live /\ Call(o, p)
  /\ \/ (p = NULL \/ NothingStored) /\ ReturnPointer(IF o = "get_or_default" THEN p ELSE NULL)
     \/ p # NULL /\ ~NothingStored /\ StartFind(p)
  /\ UNCHANGED <<table, nullHashed>>

hmap_rehash ==
  /\ live /\ Call("rehash", NULL)
  /\ \E f \in Hashers :
       \/ len > 0 /\ Return(FALSE, NULL) /\ UNCHANGED hasher      \* malloc failed
       \/ len > 0 /\ StartMove(cap, f) /\ UNCHANGED hasher
       \/ len = 0 /\ hasher' = f /\ Return(TRUE, NULL)
  /\ UNCHANGED <<live, len, cap, mem, nullHashed>>

------------------------------------------------------------------------------
(* find_bucket: one probe, and what the caller does with the slot found.   *)

slot == Bucket(code, k, cap)
found == mem[slot]

FindNext ==
  /\ pc = "find" /\ ~Stops(found, code, arg)
  /\ k' = (k + 1) % SizeMod
  /\ UNCHANGED <<table, pc, op, arg, ret, code, move, nullHashed>>

FindEnds(o) == pc = "find" /\ op = o /\ Stops(found, code, arg)

(* Mutants: the hash code in the slot stays; the old pair stays.           *)
EntryOldHash == [found EXCEPT !.pair = arg]
EntryKeepsOld == IF IsVacant(found) THEN [hash |-> code, pair |-> arg] ELSE found

Entry == [hash |-> code, pair |-> arg]

(* Mutants: a new pair is not counted; an overwritten one is.              *)
Uncounted == len
AlwaysCounted == len + 1

Counted == IF IsVacant(found) THEN len + 1 ELSE len

Store(s) == mem' = [mem EXCEPT ![slot] = s]

EndPut ==
  /\ FindEnds("put")
  /\ len' = Counted /\ Store(Entry)
  /\ Return(TRUE, found.pair)
  /\ UNCHANGED <<live, cap, hasher, op, arg, nullHashed>>

EndPutIfAbsent ==
  /\ FindEnds("put_if_absent")
  /\ len' = Counted
  /\ IF IsVacant(found) THEN Store(Entry) ELSE UNCHANGED mem
  /\ Return(IsVacant(found), NULL)
  /\ UNCHANGED <<live, cap, hasher, op, arg, nullHashed>>

(* The slot becomes vacant; len stays.                                     *)
EndRemove ==
  /\ FindEnds("remove")
  /\ IF IsVacant(found) THEN UNCHANGED mem ELSE Store(Vacant)
  /\ ReturnPointer(found.pair)
  /\ UNCHANGED <<live, len, cap, hasher, op, arg, nullHashed>>

EndReplace ==
  /\ FindEnds("replace")
  /\ IF IsVacant(found) THEN UNCHANGED mem ELSE Store([found EXCEPT !.pair = arg])
  /\ ReturnPointer(found.pair)
  /\ UNCHANGED <<live, len, cap, hasher, op, arg, nullHashed>>

(* hmap_has_key answers with the ok of this one.                           *)
EndGet ==
  /\ FindEnds("get")
  /\ ReturnPointer(found.pair)
  /\ UNCHANGED <<table, op, arg, nullHashed>>

EndGetOrDefault ==
  /\ FindEnds("get_or_default")
  /\ ReturnPointer(IF IsVacant(found) THEN arg ELSE found.pair)
  /\ UNCHANGED <<table, op, arg, nullHashed>>

------------------------------------------------------------------------------
(* rehash_move: every slot of the old block goes into fresh.               *)

Moving == pc = "move" /\ fcap >= 1 /\ i < cap

(* Mutant: a rehash keeps the old hash codes.                              *)
OldHash == IF IsVacant(mem[i]) THEN code ELSE mem[i].hash

MovedHash == IF IsVacant(mem[i]) THEN code
             ELSE IF fn = NULL THEN mem[i].hash ELSE fn[mem[i].pair.key]
target == Bucket(MovedHash, k, fcap)

(* Mutant: pairs are not probed for.                                       *)
PlaceAnywhere == TRUE

Placeable == IsVacant(fresh[target])

(* A vacant slot is probed for and "placed" too: its NULL lands in a vacant *)
(* slot, after the new hash function, if any, was called with that NULL.   *)
MoveVacant ==
  /\ Moving /\ IsVacant(mem[i]) /\ Placeable
  /\ NextSource(i + 1)
  /\ nullHashed' = (nullHashed \/ fn # NULL)
  /\ UNCHANGED <<table, pc, op, arg, ret, fn, fresh, fcap>>

MovePlace ==
  /\ Moving /\ ~IsVacant(mem[i]) /\ Placeable
  /\ fresh' = [fresh EXCEPT ![target] = [hash |-> MovedHash, pair |-> mem[i].pair]]
  /\ NextSource(i + 1)
  /\ UNCHANGED <<table, pc, op, arg, ret, fn, fcap, nullHashed>>

MoveNext ==
  /\ Moving /\ ~Placeable
  /\ k' = (k + 1) % SizeMod
  /\ UNCHANGED <<table, pc, op, arg, ret, code, move, nullHashed>>

(* The new block replaces the old one; a put goes on to find its bucket.   *)
MoveDone ==
  /\ pc = "move" /\ (fcap < 1 \/ i = cap)
  /\ mem' = fresh /\ cap' = fcap
  /\ hasher' = IF op = "rehash" THEN fn ELSE hasher
  /\ IF op \in {"put", "put_if_absent"} THEN StartFind(arg) ELSE Return(TRUE, NULL)
  /\ UNCHANGED <<live, len, op, arg, nullHashed>>

------------------------------------------------------------------------------
Find == \/ FindNext \/ EndPut \/ EndPutIfAbsent \/ EndRemove \/ EndReplace
        \/ EndGet \/ EndGetOrDefault

Move == MoveVacant \/ MovePlace \/ MoveNext \/ MoveDone

Start == \/ init_hmap \/ free_hmap \/ hmap_clear \/ hmap_ensure_capacity \/ hmap_rehash
         \/ \E p \in Pair \cup {NULL} :
              \/ \E o \in {"put", "put_if_absent"} : StartPut(o, p)
              \/ \E o \in {"remove", "replace", "get", "get_or_default"} : StartLookup(o, p)

Next == Start \/ Find \/ Move

(* A running call is never left by the only thread there is; whether the   *)
(* caller makes another is up to the caller.                               *)
Spec == Init /\ [][Next]_vars /\ WF_vars(Find \/ Move)
------------------------------------------------------------------------------
(* Properties.                                                             *)

(* Every field and local has its type; an address is only taken modulo a   *)
(* capacity that is not zero.                                              *)
TypeOK ==
  /\ live \in BOOLEAN /\ len \in Nat /\ cap \in 0 .. MaxCap
  /\ mem \in [0 .. cap - 1 -> Slot]
  /\ hasher \in Hashers \cup {NULL} /\ (live => hasher # NULL)
  /\ pc \in {"idle", "find", "move"} /\ arg \in Pair \cup {NULL}
  /\ ret \in [done : BOOLEAN, ok : BOOLEAN, pair : Pair \cup {NULL}]
  /\ code \in SizeT /\ k \in SizeT
  /\ i \in 0 .. cap /\ fn \in Hashers \cup {NULL} /\ fcap \in 0 .. MaxCap
  /\ fresh \in [0 .. fcap - 1 -> Slot]
  /\ nullHashed \in BOOLEAN
  /\ pc # "idle" => live
  /\ pc = "find" => cap > 0 /\ arg # NULL /\ code = hasher[arg.key]
  /\ pc = "move" => fcap > 0 /\ (op \in {"put", "put_if_absent"} => arg # NULL)
  /\ pc = "move" => (op = "rehash" <=> fn # NULL)

(* hmap_remove leaves len alone, so len overcounts, but it never undercounts *)
(* and never passes the capacity: what put's room for one more rests on.   *)
LenBounds == Cardinality(Occupied(mem)) <= len /\ len <= cap

(* A stored hash code is the current hash function's, also after a rehash  *)
(* and after hmap_replace changed the pair under it.                       *)
HashesCurrent ==
  \A j \in Occupied(mem) : mem[j].hash = hasher[mem[j].pair.key]

(* The probe loop of put always has a vacant slot to stop at, whatever     *)
(* removes came before.                                                    *)
PutHasRoom ==
  pc = "find" /\ op \in {"put", "put_if_absent"} => Occupied(mem) # 0 .. cap - 1

(* rehash_move has copied exactly the pairs of the slots it passed, each   *)
(* to a slot of its own.                                                   *)
Passed == {j \in Occupied(mem) : j < i}
NothingLost ==
  pc = "move" =>
    /\ {fresh[j].pair : j \in Occupied(fresh)} = {mem[j].pair : j \in Passed}
    /\ Cardinality(Occupied(fresh)) = Cardinality(Passed)

(* Without removes: from every pair's own hash code the probe sequence     *)
(* leads to it through pairs of other keys only, so each key is stored     *)
(* once and every stored pair can be found.                                *)
LeadsTo(block, c, j) ==
  \E n \in SizeT :
    /\ Bucket(block[j].hash, n, c) = j
    /\ \A m \in 0 .. n - 1 :
         LET b == Bucket(block[j].hash, m, c)
         IN  block[b].pair # NULL /\ block[b].pair.key # block[j].pair.key
AllReachable ==
  /\ \A j \in Occupied(mem) : LeadsTo(mem, cap, j)
  /\ pc = "move" => \A j \in Occupied(fresh) : LeadsTo(fresh, fcap, j)

(* Without removes the size is the number of pairs stored.                 *)
SizeExact == len = Cardinality(Occupied(mem))

(* What find_bucket would come to for a key now: the pair, or NULL for a   *)
(* vacant slot or a probe loop without end.                                *)
Lookup(key) ==
  LET stops == {n \in SizeT : Stops(mem[Bucket(hasher[key], n, cap)], hasher[key], [key |-> key])}
      first == CHOOSE n \in stops : \A m \in stops : n <= m
  IN  IF len < 1 \/ stops = {} THEN NULL ELSE mem[Bucket(hasher[key], first, cap)].pair

(* A finished call is visible to the next lookup of its key: a put pair is *)
(* found, a removed key is not, even where removes broke probe chains.     *)
CallsTakeEffect ==
  [][pc = "find" /\ pc' = "idle" =>
       \/ op = "put" /\ Lookup(arg.key)' = arg
       \/ op = "put_if_absent" /\ (IF ret'.ok THEN Lookup(arg.key)' = arg
                                               ELSE Lookup(arg.key)' # NULL)
       \/ op = "remove" /\ Lookup(arg.key)' = NULL
       \/ op = "replace" /\ Lookup(arg.key)' = (IF ret'.ok THEN arg ELSE NULL)
       \/ op \in {"get", "get_or_default"}]_vars

(* header/hash_map.h:148 "Removes a pair with the same key": the lookups   *)
(* of other keys answer as before.                                         *)
RemoveLeavesOthers ==
  [][EndRemove => \A key \in Keys \ {arg.key} : Lookup(key)' = Lookup(key)]_vars

(* put, put_if_absent, ensure_capacity and rehash return, on a table of    *)
(* any fill and after any removes.                                         *)
WritersReturn ==
  (pc # "idle" /\ op \in {"put", "put_if_absent", "ensure", "rehash"}) ~> pc = "idle"

(* A search returns when any slot of the table could stop it: the probe    *)
(* sequence comes by every slot, wrapping of h + k included.               *)
SearchReturns ==
  (pc = "find" /\ \E j \in 0 .. cap - 1 : Stops(mem[j], code, arg)) ~> pc = "idle"

(* header/hash_map.h:175 "Pointer to such pair or NULL if no such pair     *)
(* exists": a lookup answers.                                              *)
LookupReturns == (pc = "find" /\ op \in {"get", "replace", "remove"}) ~> pc = "idle"

(* header/hash_map.h:193 "Forces the map to rehash all pairs with the new  *)
(* hash function": that function is called with pairs, never with NULL.    *)
HasherSeesPairs == ~nullHashed

(* Without removes the table is a dictionary.                              *)
StoredKeys == {mem[j].pair.key : j \in Occupied(mem)}
ValueOf(key) == mem[CHOOSE j \in Occupied(mem) : mem[j].pair.key = key].pair.val
DictOf == [key \in StoredKeys |-> ValueOf(key)]

Dict == INSTANCE Dictionary WITH dict <- DictOf
ImplementsDictionary == Dict!Spec
===============================================================================
