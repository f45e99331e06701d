------------------------- MODULE HashMapLookupProofs -------------------------
(***************************************************************************)
(* Theorems about a map from which nothing is removed one by one (clear    *)
(* and free are allowed): every stored pair is found by the probe sequence *)
(* of its key, no key is stored twice, and the size is exact.              *)
(***************************************************************************)
EXTENDS HashMapProofs

NoRemoves == "remove" \notin Ops

(* The probes 0 .. n - 1 of hash code h came by pairs of other keys only.  *)
PassedBy(block, c, h, n, key) ==
  \A m \in 0 .. n - 1 :
    /\ block[Bucket(h, m, c)].pair # NULL
    /\ block[Bucket(h, m, c)].pair.key # key

Chained(block, c) == \A j \in Occupied(block) : LeadsTo(block, c, j)

Found ==
  /\ pc # "idle" => op \in Ops
  /\ Chained(mem, cap) /\ (pc = "move" => Chained(fresh, fcap))
  /\ SizeExact
  /\ pc = "find" => PassedBy(mem, cap, code, k, arg.key)
  /\ pc = "move" /\ k > 0 /\ i < cap /\ mem[i].pair # NULL =>
       PassedBy(fresh, fcap, MovedHash, k, mem[i].pair.key)

-----------------------------------------------------------------------------
LEMMA LeadsToPassedBy ==
  ASSUME NEW block, NEW c, NEW j
  PROVE  LeadsTo(block, c, j) <=>
           \E n \in SizeT : /\ Bucket(block[j].hash, n, c) = j
                            /\ PassedBy(block, c, block[j].hash, n, block[j].pair.key)
BY DEF LeadsTo, PassedBy

LEMMA EmptyChained == ASSUME NEW c, NEW cc PROVE Chained(EmptyBlock(c), cc)
BY OccupiedEmpty DEF Chained

LEMMA NoneChained == ASSUME NEW block, Occupied(block) = {}, NEW cc PROVE Chained(block, cc)
BY DEF Chained

(* Two slots of a chained block whose pairs have one hash code per key     *)
(* hold different keys.                                                    *)
LEMMA KeysUnique ==
  ASSUME NEW block, NEW c, Chained(block, c), NEW f,
         \A j \in Occupied(block) : block[j].hash = f[block[j].pair.key],
         NEW j1 \in Occupied(block), NEW j2 \in Occupied(block),
         block[j1].pair.key = block[j2].pair.key
  PROVE  j1 = j2
<1>1. block[j1].hash = block[j2].hash
  OBVIOUS
<1>2. PICK n1 \in SizeT : /\ Bucket(block[j1].hash, n1, c) = j1
                          /\ PassedBy(block, c, block[j1].hash, n1, block[j1].pair.key)
  BY LeadsToPassedBy DEF Chained
<1>3. PICK n2 \in SizeT : /\ Bucket(block[j2].hash, n2, c) = j2
                          /\ PassedBy(block, c, block[j2].hash, n2, block[j2].pair.key)
  BY LeadsToPassedBy DEF Chained
<1>4. n1 \in Nat /\ n2 \in Nat
  BY SizeAssumption DEF SizeT
<1>5. ~(n1 < n2)
  BY <1>1, <1>2, <1>3, <1>4 DEF PassedBy
<1>6. ~(n2 < n1)
  BY <1>1, <1>2, <1>3, <1>4 DEF PassedBy
<1>7. n1 = n2
  BY <1>4, <1>5, <1>6
<1> QED BY <1>1, <1>2, <1>3, <1>7

(* Filling the vacant slot at which a search for its key ended breaks no   *)
(* chain.                                                                  *)
LEMMA FillChained ==
  ASSUME NEW c \in Nat, NEW block \in [0 .. c - 1 -> Slot], Chained(block, c),
         NEW n \in SizeT, NEW s \in Slot, s.pair # NULL, NEW b \in 0 .. c - 1,
         b = Bucket(s.hash, n, c), block[b].pair = NULL,
         PassedBy(block, c, s.hash, n, s.pair.key)
  PROVE  Chained([block EXCEPT ![b] = s], c)
<1> DEFINE new == [block EXCEPT ![b] = s]
<1>1. new[b] = s /\ \A x : block[x].pair # NULL /\ x \in 0 .. c - 1 => new[x] = block[x]
  OBVIOUS
<1>2. Occupied(new) = Occupied(block) \cup {b}
  BY DEF Occupied
<1>a. c > 0
  OBVIOUS
<1>b. \A h \in SizeT, m \in SizeT : Bucket(h, m, c) \in 0 .. c - 1
  BY <1>a, BucketInBlock
<1>c. \A m \in SizeT : \A x \in 0 .. m - 1 : x \in SizeT
  BY SizeAssumption DEF SizeT
<1>d. \A j \in Occupied(block) : j \in 0 .. c - 1 /\ block[j] \in Slot /\ block[j].hash \in SizeT
  BY DEF Occupied, Slot
<1>e. s.hash \in SizeT
  BY DEF Slot
<1> HIDE DEF new
<1>3. ASSUME NEW h \in SizeT, NEW m \in SizeT, NEW key, PassedBy(block, c, h, m, key)
      PROVE  PassedBy(new, c, h, m, key)
  <2> SUFFICES ASSUME NEW x \in 0 .. m - 1
               PROVE  /\ new[Bucket(h, x, c)].pair # NULL
                      /\ new[Bucket(h, x, c)].pair.key # key
    BY DEF PassedBy
  <2>1. /\ block[Bucket(h, x, c)].pair # NULL
        /\ block[Bucket(h, x, c)].pair.key # key
    BY <1>3 DEF PassedBy
  <2>2. Bucket(h, x, c) \in 0 .. c - 1
    BY <1>b, <1>c
  <2> QED BY <1>1, <2>1, <2>2
<1>4. ASSUME NEW j \in Occupied(new) PROVE LeadsTo(new, c, j)
  <2>1. CASE j = b
    <3>1. PassedBy(new, c, s.hash, n, s.pair.key)
      BY <1>3, <1>e
    <3> QED BY <1>1, <2>1, <3>1, LeadsToPassedBy
  <2>2. CASE j # b
    <3>1. j \in Occupied(block) /\ new[j] = block[j]
      BY <1>1, <1>2, <1>d, <2>2 DEF Occupied
    <3>2. PICK m \in SizeT : /\ Bucket(block[j].hash, m, c) = j
                             /\ PassedBy(block, c, block[j].hash, m, block[j].pair.key)
      BY <3>1, LeadsToPassedBy DEF Chained
    <3>3. PassedBy(new, c, block[j].hash, m, block[j].pair.key)
      BY <1>3, <1>d, <3>1, <3>2
    <3> QED BY <3>1, <3>2, <3>3, LeadsToPassedBy
  <2> QED BY <2>1, <2>2
<1> QED BY <1>4 DEF Chained, new

(* Neither does overwriting a pair by one of the same key and hash code.   *)
LEMMA OverwriteChained ==
  ASSUME NEW c \in Nat, NEW block \in [0 .. c - 1 -> Slot], Chained(block, c),
         NEW s \in Slot, s.pair # NULL, NEW b \in 0 .. c - 1, block[b].pair # NULL,
         block[b].hash = s.hash, block[b].pair.key = s.pair.key
  PROVE  Chained([block EXCEPT ![b] = s], c)
<1> DEFINE new == [block EXCEPT ![b] = s]
<1>1. \A x \in 0 .. c - 1 :
        block[x].pair # NULL =>
          /\ new[x].pair # NULL /\ new[x].hash = block[x].hash
          /\ new[x].pair.key = block[x].pair.key
  OBVIOUS
<1>2. Occupied(new) = Occupied(block)
  BY DEF Occupied
<1>a. c > 0
  OBVIOUS
<1>b. \A h \in SizeT, m \in SizeT : Bucket(h, m, c) \in 0 .. c - 1
  BY <1>a, BucketInBlock
<1>c. \A m \in SizeT : \A x \in 0 .. m - 1 : x \in SizeT
  BY SizeAssumption DEF SizeT
<1>d. \A j \in Occupied(block) : j \in 0 .. c - 1 /\ block[j].pair # NULL /\ block[j].hash \in SizeT
  BY DEF Occupied, Slot
<1> HIDE DEF new
<1>3. ASSUME NEW j \in Occupied(block) PROVE LeadsTo(new, c, j)
  <2>1. PICK m \in SizeT : /\ Bucket(block[j].hash, m, c) = j
                           /\ PassedBy(block, c, block[j].hash, m, block[j].pair.key)
    BY LeadsToPassedBy DEF Chained
  <2>2. PassedBy(new, c, block[j].hash, m, block[j].pair.key)
    <3> SUFFICES ASSUME NEW x \in 0 .. m - 1
                 PROVE  /\ new[Bucket(block[j].hash, x, c)].pair # NULL
                        /\ new[Bucket(block[j].hash, x, c)].pair.key # block[j].pair.key
      BY DEF PassedBy
    <3>1. /\ block[Bucket(block[j].hash, x, c)].pair # NULL
          /\ block[Bucket(block[j].hash, x, c)].pair.key # block[j].pair.key
      BY <2>1 DEF PassedBy
    <3>2. Bucket(block[j].hash, x, c) \in 0 .. c - 1
      BY <1>b, <1>c, <1>d
    <3> QED BY <1>1, <3>1, <3>2
  <2>3. new[j].hash = block[j].hash /\ new[j].pair.key = block[j].pair.key
    BY <1>1, <1>d
  <2> QED BY <2>1, <2>2, <2>3, LeadsToPassedBy
<1> QED BY <1>2, <1>3 DEF Chained, new

-----------------------------------------------------------------------------
LEMMA NothingPassedBy ==
  ASSUME NEW block, NEW c, NEW h, NEW key
  PROVE  PassedBy(block, c, h, 0, key)
BY DEF PassedBy

(* One probe more, or the wrap of k, after which nothing is claimed.       *)
LEMMA OneMorePassedBy ==
  ASSUME NEW block, NEW c, NEW h, NEW key, NEW n \in SizeT,
         PassedBy(block, c, h, n, key),
         block[Bucket(h, n, c)].pair # NULL, block[Bucket(h, n, c)].pair.key # key
  PROVE  PassedBy(block, c, h, (n + 1) % SizeMod, key)
<1>1. n \in Nat /\ n < SizeMod /\ SizeMod \in Nat
  BY SizeAssumption DEF SizeT
<1>2. CASE n + 1 = SizeMod
  <2>1. (n + 1) % SizeMod = 0
    BY <1>1, <1>2
  <2> QED BY <2>1, NothingPassedBy
<1>3. CASE n + 1 < SizeMod
  <2>1. (n + 1) % SizeMod = n + 1
    BY <1>1, <1>3
  <2>2. \A m \in 0 .. n : m = n \/ m \in 0 .. n - 1
    BY <1>1
  <2> QED BY <1>1, <2>1, <2>2 DEF PassedBy
<1> QED BY <1>1, <1>2, <1>3

LEMMA QuietFound ==
  ASSUME Found, UNCHANGED <<mem, len, cap>>, pc' # "idle" => op' \in Ops, k' = 0,
         pc' = "move" => Occupied(fresh)' = {}
  PROVE  Found'
<1>1. Chained(mem, cap)' /\ SizeExact'
  BY DEF Found, SizeExact, Chained, LeadsTo
<1>2. pc' = "move" => Chained(fresh, fcap)'
  BY NoneChained
<1>3. pc' = "find" => PassedBy(mem, cap, code, k, arg.key)'
  BY NothingPassedBy
<1> QED BY <1>1, <1>2, <1>3 DEF Found

LEMMA EmptyFound ==
  ASSUME Occupied(mem)' = {}, len' = 0, pc' = "idle"
  PROVE  Found'
BY FS_EmptySet, NoneChained DEF Found, SizeExact

LEMMA StartFound == Safe /\ Found /\ Start => Found'
<1> SUFFICES ASSUME Safe, Found, Start PROVE Found'
  OBVIOUS
<1>a. ASSUME NEW b, NEW p, Return(b, p) PROVE pc' = "idle" /\ k' = 0
  BY <1>a DEF Return, NoSearch
<1>b. ASSUME NEW p, StartFind(p) PROVE pc' = "find" /\ k' = 0
  BY <1>b DEF StartFind
<1>c. ASSUME NEW cc, NEW f, StartMove(cc, f) PROVE k' = 0 /\ Occupied(fresh)' = {}
  BY <1>c, OccupiedEmpty, NextSourceType DEF StartMove
<1>1. CASE init_hmap
  <2>1. CASE UNCHANGED <<table, nullHashed>> /\ Return(FALSE, NULL)
    BY <1>a, <2>1, QuietFound DEF table
  <2>2. CASE len' = 0 /\ mem' = EmptyBlock(0) /\ Return(TRUE, NULL)
    BY <1>a, <2>2, OccupiedEmpty, EmptyFound
  <2> QED BY <1>1, <2>1, <2>2 DEF init_hmap
<1>2. CASE free_hmap
  <2>1. CASE cap > 0
    BY <1>2, <1>a, <2>1, OccupiedEmpty, EmptyFound DEF free_hmap
  <2>2. CASE ~(cap > 0)
    BY <1>2, <1>a, <2>2, QuietFound DEF free_hmap
  <2> QED BY <2>1, <2>2
<1>3. CASE hmap_clear
  BY <1>3, <1>a, OccupiedEmpty, EmptyFound DEF hmap_clear
<1>4. CASE hmap_ensure_capacity
  <2>1. UNCHANGED <<mem, len, cap>> /\ op' \in Ops
    BY <1>4 DEF hmap_ensure_capacity, table, Call
  <2>2. Return(TRUE, NULL) \/ Return(FALSE, NULL) \/ \E cc, f : StartMove(cc, f)
    BY <1>4 DEF hmap_ensure_capacity, GrowTo
  <2> QED BY <1>a, <1>c, <2>1, <2>2, QuietFound
<1>5. ASSUME NEW p \in Pair \cup {NULL}, NEW o \in {"put", "put_if_absent"}, StartPut(o, p)
      PROVE  Found'
  <2>1. UNCHANGED <<mem, len, cap>> /\ op' \in Ops
    BY <1>5 DEF StartPut, table, Call
  <2>2. \/ Return(TRUE, NULL) \/ Return(FALSE, NULL) \/ StartFind(p)
        \/ \E cc, f : StartMove(cc, f)
    BY <1>5 DEF StartPut, GrowTo
  <2> QED BY <1>a, <1>b, <1>c, <2>1, <2>2, QuietFound
<1>6. ASSUME NEW p \in Pair \cup {NULL},
             NEW o \in {"remove", "replace", "get", "get_or_default"}, StartLookup(o, p)
      PROVE  Found'
  <2>1. UNCHANGED <<mem, len, cap>> /\ op' \in Ops
    BY <1>6 DEF StartLookup, table, Call
  <2>2. StartFind(p) \/ \E b, q : Return(b, q)
    BY <1>6 DEF StartLookup, ReturnPointer
  <2> QED BY <1>a, <1>b, <2>1, <2>2, QuietFound
<1>7. CASE hmap_rehash
  <2>1. UNCHANGED <<mem, len, cap>> /\ op' \in Ops
    BY <1>7 DEF hmap_rehash, Call
  <2>2. Return(TRUE, NULL) \/ Return(FALSE, NULL) \/ \E cc, f : StartMove(cc, f)
    BY <1>7 DEF hmap_rehash
  <2> QED BY <1>a, <1>c, <2>1, <2>2, QuietFound
<1> QED BY <1>1, <1>2, <1>3, <1>4, <1>5, <1>6, <1>7 DEF Start

(* Storing a pair of the key searched for where the search ended.          *)
LEMMA StoreFound ==
  ASSUME Safe, Found, pc = "find", Stops(found, code, arg),
         NEW s \in Slot, Store(s), s.pair # NULL, s.pair.key = arg.key, s.hash = code,
         len' = Counted, UNCHANGED cap, pc' = "idle"
  PROVE  Found'
<1>1. /\ cap \in Nat /\ mem \in [0 .. cap - 1 -> Slot] /\ slot \in 0 .. cap - 1
      /\ k \in SizeT /\ len \in Nat
  BY MemFinite, InFind DEF Safe, Shape, TypeOK
<1>2. mem' = [mem EXCEPT ![slot] = s]
  BY DEF Store
<1>3. Chained(mem, cap) /\ PassedBy(mem, cap, code, k, arg.key) /\ SizeExact
  BY DEF Found
<1>4. Occupied(mem)' = Occupied(mem) \cup {slot}
  BY <1>1, <1>2 DEF Occupied
<1>5. IsFiniteSet(Occupied(mem))
  BY MemFinite DEF Safe
<1>6. CASE found.pair = NULL
  <2>1. Chained(mem, cap)'
    <3>1. slot = Bucket(s.hash, k, cap) /\ mem[slot].pair = NULL
      BY <1>6 DEF slot, found
    <3>2. PassedBy(mem, cap, s.hash, k, s.pair.key)
      BY <1>3
    <3> QED BY <1>1, <1>2, <1>3, <3>1, <3>2, FillChained
  <2>2. slot \notin Occupied(mem)
    BY <1>6 DEF Occupied, found
  <2>3. SizeExact'
    <3>1. Cardinality(Occupied(mem) \cup {slot}) = Cardinality(Occupied(mem)) + 1
      BY <1>5, <2>2, FS_AddElement
    <3> QED BY <1>3, <1>4, <1>6, <3>1 DEF SizeExact, Counted, IsVacant
  <2> QED BY <2>1, <2>3 DEF Found
<1>7. CASE found.pair # NULL
  <2>1. mem[slot].hash = code /\ mem[slot].pair.key = arg.key /\ mem[slot].pair # NULL
    BY <1>7 DEF Stops, Matches, found
  <2>2. Chained(mem, cap)'
    BY <1>1, <1>2, <1>3, <2>1, OverwriteChained
  <2>3. slot \in Occupied(mem)
    BY <1>1, <2>1 DEF Occupied
  <2>4. SizeExact'
    <3>1. Occupied(mem) \cup {slot} = Occupied(mem)
      BY <2>3
    <3> QED BY <1>3, <1>4, <1>7, <3>1 DEF SizeExact, Counted, IsVacant
  <2> QED BY <2>2, <2>4 DEF Found
<1> QED BY <1>6, <1>7

LEMMA FindFound == NoRemoves /\ Safe /\ Found /\ Find => Found'
<1> SUFFICES ASSUME NoRemoves, Safe, Found, Find PROVE Found'
  OBVIOUS
<1>a. pc = "find" /\ Shape /\ Stored
  BY DEF Find, FindNext, FindEnds, EndPut, EndPutIfAbsent, EndRemove, EndReplace,
         EndGet, EndGetOrDefault, Safe
<1>b. /\ arg \in Pair /\ arg # NULL /\ code = hasher[arg.key] /\ code \in SizeT
      /\ slot \in 0 .. cap - 1 /\ found \in Slot /\ k \in SizeT
  BY <1>a, InFind, NullAssumption DEF Shape, TypeOK
<1>c. Entry \in Slot /\ Entry.pair # NULL /\ Entry.pair.key = arg.key /\ Entry.hash = code
  BY <1>b DEF Entry, Slot
<1>1. CASE FindNext
  <2>1. /\ UNCHANGED <<mem, len, cap, hasher, code, arg, op, pc>> /\ k' = (k + 1) % SizeMod
        /\ found.pair # NULL /\ ~(found.hash = code /\ found.pair.key = arg.key)
    BY <1>1 DEF FindNext, table, Stops, Matches
  <2>2. found.hash = hasher[found.pair.key]
    <3>1. slot \in Occupied(mem)
      BY <1>a, <1>b, <2>1, MemFinite DEF Occupied, found
    <3> QED BY <1>a, <3>1 DEF Stored, HashesCurrent, found
  <2>3. found.pair.key # arg.key
    BY <1>b, <2>1, <2>2
  <2>4. PassedBy(mem, cap, code, (k + 1) % SizeMod, arg.key)
    BY <1>a, <1>b, <2>1, <2>3, OneMorePassedBy DEF Found, found, slot
  <2>5. PassedBy(mem, cap, code, k, arg.key)'
    BY <2>1, <2>4 DEF PassedBy
  <2>6. Chained(mem, cap)' /\ SizeExact'
    BY <2>1 DEF Found, SizeExact, Chained, LeadsTo
  <2> QED BY <1>a, <2>1, <2>5, <2>6 DEF Found
<1>2. CASE EndPut
  <2>1. /\ Stops(found, code, arg) /\ Store(Entry) /\ len' = Counted /\ UNCHANGED cap
        /\ pc' = "idle"
    BY <1>2 DEF EndPut, FindEnds, Return
  <2> QED BY <1>a, <1>c, <2>1, StoreFound
<1>3. CASE EndPutIfAbsent
  <2>1. /\ Stops(found, code, arg) /\ len' = Counted /\ UNCHANGED cap
        /\ pc' = "idle" /\ k' = 0
    BY <1>3 DEF EndPutIfAbsent, FindEnds, Return, NoSearch
  <2>2. CASE IsVacant(found)
    BY <1>3, <1>a, <1>c, <2>1, <2>2, StoreFound DEF EndPutIfAbsent
  <2>3. CASE ~IsVacant(found)
    BY <1>3, <2>1, <2>3, QuietFound DEF EndPutIfAbsent, Counted
  <2> QED BY <2>2, <2>3
<1>4. CASE EndRemove
  BY <1>4, <1>a DEF EndRemove, FindEnds, Found, NoRemoves
<1>5. CASE EndReplace
  <2>1. Stops(found, code, arg) /\ UNCHANGED <<len, cap>> /\ pc' = "idle" /\ k' = 0
    BY <1>5 DEF EndReplace, FindEnds, ReturnPointer, Return, NoSearch
  <2>2. CASE IsVacant(found)
    BY <1>5, <2>1, <2>2, QuietFound DEF EndReplace
  <2>3. CASE ~IsVacant(found)
    <3> DEFINE s == [found EXCEPT !.pair = arg]
    <3>1. Store(s) /\ found.hash = code
      BY <1>5, <2>1, <2>3 DEF EndReplace, IsVacant, Stops, Matches
    <3>2. s \in Slot /\ s.hash = found.hash /\ s.pair = arg
      BY <1>b DEF Slot
    <3>3. len' = Counted
      BY <2>1, <2>3 DEF Counted
    <3> HIDE DEF s
    <3> QED BY <1>a, <1>b, <2>1, <3>1, <3>2, <3>3, StoreFound
  <2> QED BY <2>2, <2>3
<1>6. CASE EndGet
  BY <1>6, QuietFound DEF EndGet, ReturnPointer, Return, NoSearch, table
<1>7. CASE EndGetOrDefault
  BY <1>7, QuietFound DEF EndGetOrDefault, ReturnPointer, Return, NoSearch, table
<1> QED BY <1>1, <1>2, <1>3, <1>4, <1>5, <1>6, <1>7 DEF Find

LEMMA MoveFound == Safe /\ Found /\ Move => Found'
<1> SUFFICES ASSUME Safe, Found, Move PROVE Found'
  OBVIOUS
<1>a. pc = "move" /\ Shape /\ Stored /\ op \in Ops
  BY DEF Move, MoveVacant, MovePlace, MoveNext, MoveDone, Moving, Safe, Found
<1>b. /\ fcap \in Nat /\ fcap > 0 /\ fresh \in [0 .. fcap - 1 -> Slot]
      /\ i \in 0 .. cap /\ k \in SizeT /\ k \in Nat /\ cap \in Nat
  BY <1>a, SizeAssumption, MemFinite DEF Shape, TypeOK, SizeT
<1>c. Chained(mem, cap) /\ Chained(fresh, fcap) /\ SizeExact
  BY <1>a DEF Found
<1>1. CASE MoveVacant
  <2>1. UNCHANGED <<mem, len, cap, fresh, fcap, pc, op>>
    BY <1>1 DEF MoveVacant, table
  <2>2. k' = 0
    BY <1>1, NextSourceType DEF MoveVacant
  <2>3. Chained(mem, cap)' /\ Chained(fresh, fcap)' /\ SizeExact'
    BY <1>c, <2>1 DEF SizeExact, Chained, LeadsTo
  <2> QED BY <1>a, <2>1, <2>2, <2>3 DEF Found
<1>2. CASE MovePlace
  <2> DEFINE s == [hash |-> MovedHash, pair |-> mem[i].pair]
  <2>1. /\ UNCHANGED <<mem, len, cap, fcap, pc, op>> /\ k' = 0
        /\ fresh' = [fresh EXCEPT ![target] = s] /\ fresh[target].pair = NULL
    BY <1>2, NextSourceType DEF MovePlace, table, Placeable, IsVacant
  <2>2. s \in Slot /\ s.pair # NULL /\ target \in 0 .. fcap - 1
    BY <1>2, <1>a, InMove, NullAssumption DEF MovePlace, Slot
  <2>3. PassedBy(fresh, fcap, s.hash, k, s.pair.key)
    <3>1. CASE k = 0
      BY <3>1, NothingPassedBy
    <3>2. CASE k > 0
      BY <1>2, <1>a, <3>2 DEF Found, MovePlace, Moving, IsVacant
    <3> QED BY <1>b, <3>1, <3>2
  <2>4. target = Bucket(s.hash, k, fcap)
    BY DEF target
  <2>5. Chained(fresh, fcap)'
    <3> HIDE DEF s
    <3> QED BY <1>b, <1>c, <2>1, <2>2, <2>3, <2>4, FillChained
  <2>6. Chained(mem, cap)' /\ SizeExact'
    BY <1>c, <2>1 DEF SizeExact, Chained, LeadsTo
  <2> QED BY <1>a, <2>1, <2>5, <2>6 DEF Found
<1>3. CASE MoveNext
  <2>1. /\ UNCHANGED <<mem, len, cap, fresh, fcap, fn, i, code, pc, op>> /\ k' = (k + 1) % SizeMod
        /\ Moving /\ i < cap /\ fresh[target].pair # NULL
    BY <1>3 DEF MoveNext, Moving, table, move, Placeable, IsVacant
  <2>2. ASSUME mem[i].pair # NULL
        PROVE  PassedBy(fresh, fcap, MovedHash, k, mem[i].pair.key)'
    <3>1. target \in 0 .. fcap - 1 /\ i \in 0 .. cap - 1
      BY <1>a, <2>1, <2>2, InMove DEF IsVacant
    <3>2. fresh[target].pair.key # mem[i].pair.key
      <4>1. target \in Occupied(fresh)
        BY <1>b, <2>1, <3>1 DEF Occupied
      <4>2. PICK j \in Passed : fresh[target].pair = mem[j].pair
        BY <1>a, <4>1 DEF Stored, NothingLost
      <4>3. j \in Occupied(mem) /\ i \in Occupied(mem) /\ j # i
        BY <1>a, <1>b, <2>2, <3>1, MemFinite DEF Passed, Occupied
      <4>4. \A x \in Occupied(mem) : mem[x].hash = hasher[mem[x].pair.key]
        BY <1>a DEF Stored, HashesCurrent
      <4> QED BY <1>c, <4>2, <4>3, <4>4, KeysUnique
    <3>3. PassedBy(fresh, fcap, MovedHash, k, mem[i].pair.key)
      <4>1. CASE k = 0
        BY <4>1, NothingPassedBy
      <4>2. CASE k > 0
        BY <1>a, <2>1, <2>2, <4>2 DEF Found
      <4> QED BY <1>b, <4>1, <4>2
    <3>4. PassedBy(fresh, fcap, MovedHash, (k + 1) % SizeMod, mem[i].pair.key)
      BY <1>b, <2>1, <3>2, <3>3, OneMorePassedBy DEF target
    <3>5. MovedHash' = MovedHash
      BY <2>1 DEF MovedHash
    <3> QED BY <2>1, <3>4, <3>5 DEF PassedBy
  <2>3. Chained(mem, cap)' /\ Chained(fresh, fcap)' /\ SizeExact'
    BY <1>c, <2>1 DEF SizeExact, Chained, LeadsTo
  <2> QED BY <1>a, <2>1, <2>2, <2>3 DEF Found
<1>4. CASE MoveDone
  <2>1. mem' = fresh /\ cap' = fcap /\ len' = len /\ op' = op /\ k' = 0 /\ pc' # "move" /\ i = cap
    <3>1. k' = 0 /\ pc' # "move"
      BY <1>4 DEF MoveDone, StartFind, Return, NoSearch
    <3>2. i = cap
      BY <1>4, <1>b DEF MoveDone
    <3> QED BY <1>4, <3>1, <3>2 DEF MoveDone
  <2>2. Chained(mem, cap)'
    BY <1>c, <2>1 DEF Chained, LeadsTo
  <2>3. SizeExact'
    <3>1. \A j \in Occupied(mem) : j < cap
      BY <1>a, <1>b, MemFinite DEF Occupied
    <3>2. Passed = Occupied(mem)
      BY <2>1, <3>1 DEF Passed
    <3>3. Cardinality(Occupied(fresh)) = Cardinality(Occupied(mem))
      BY <1>a, <3>2 DEF Stored, NothingLost
    <3> QED BY <1>c, <2>1, <3>3 DEF SizeExact
  <2>4. PassedBy(mem, cap, code, k, arg.key)'
    BY <2>1, NothingPassedBy
  <2> QED BY <1>a, <2>1, <2>2, <2>3, <2>4 DEF Found
<1> QED BY <1>1, <1>2, <1>3, <1>4 DEF Move

-----------------------------------------------------------------------------
LEMMA InitFound == Init => Found
BY OccupiedEmpty, FS_EmptySet, NoneChained DEF Init, Found, SizeExact

LEMMA FoundStep == NoRemoves /\ Safe /\ Found /\ [Next]_vars => Found'
<1> SUFFICES ASSUME NoRemoves, Safe, Found, [Next]_vars PROVE Found'
  OBVIOUS
<1>1. CASE UNCHANGED vars
  BY <1>1 DEF vars, table, search, move, Found, SizeExact, Chained, LeadsTo, PassedBy, MovedHash
<1> QED BY <1>1, StartFound, FindFound, MoveFound DEF Next

LEMMA FoundInvariant ==
  ASSUME NoRemoves, GrowKeepsPromise
  PROVE  Spec => [](Safe /\ Found)
<1>1. Init => Safe /\ Found
  BY InitSafe, InitFound
<1>2. Safe /\ Found /\ [Next]_vars => (Safe /\ Found)'
  BY SafeStep, FoundStep
<1> QED BY <1>1, <1>2, PTL DEF Spec

(* As long as nothing is removed, every stored pair can be found from its  *)
(* own hash code through pairs of other keys, in the table and in the      *)
(* block that will replace it (hash_map.c:81-92, 47-59).                   *)
THEOREM PairsReachable == NoRemoves /\ GrowKeepsPromise => (Spec => []AllReachable)
<1> SUFFICES ASSUME NoRemoves, GrowKeepsPromise PROVE Spec => []AllReachable
  OBVIOUS
<1>1. Safe /\ Found => AllReachable
  BY DEF Found, Chained, AllReachable
<1> QED BY <1>1, FoundInvariant, PTL

(* As long as nothing is removed, hmap_size is the number of pairs.        *)
THEOREM SizeCorrect == NoRemoves /\ GrowKeepsPromise => (Spec => []SizeExact)
<1> SUFFICES ASSUME NoRemoves, GrowKeepsPromise PROVE Spec => []SizeExact
  OBVIOUS
<1>1. Safe /\ Found => SizeExact
  BY DEF Found
<1> QED BY <1>1, FoundInvariant, PTL

-----------------------------------------------------------------------------
(* The refinement: the table is the dictionary of the pairs in its block.  *)

(* A call is answered once it is over and pending until then; the calls    *)
(* about storage have no pair.                                             *)
Waiting ==
  /\ pc = "idle" => op = "none" \/ ret.done
  /\ pc # "idle" => ret = Pending /\ op # "none"
  /\ pc = "find" => op \in {"put", "put_if_absent", "remove", "replace", "get", "get_or_default"}
  /\ pc = "move" => \/ op \in {"put", "put_if_absent"}
                    \/ /\ op \in {"ensure", "rehash"} /\ arg = NULL

LEMMA WaitingStep == Waiting /\ [Next]_vars => Waiting'
<1> SUFFICES ASSUME Waiting, [Next]_vars PROVE Waiting'
  OBVIOUS
<1>a. ASSUME NEW b, NEW p, Return(b, p) PROVE pc' = "idle" /\ ret'.done
  BY <1>a DEF Return, Answer
<1>b. ASSUME NEW p, StartFind(p) PROVE pc' = "find" /\ ret' = Pending
  BY <1>b DEF StartFind
<1>c. ASSUME NEW cc, NEW f, StartMove(cc, f) PROVE pc' = "move" /\ ret' = Pending
  BY <1>c DEF StartMove
<1>d. ASSUME pc' = "idle", ret'.done PROVE Waiting'
  BY <1>d DEF Waiting
<1>1. CASE UNCHANGED vars
  BY <1>1 DEF vars, Waiting
<1>2. CASE init_hmap \/ free_hmap \/ hmap_clear
  BY <1>2, <1>a, <1>d DEF init_hmap, free_hmap, hmap_clear
<1>3. CASE hmap_ensure_capacity \/ hmap_rehash
  <2>1. op' \in {"ensure", "rehash"} /\ arg' = NULL
    BY <1>3 DEF hmap_ensure_capacity, hmap_rehash, Call
  <2>2. Return(TRUE, NULL) \/ Return(FALSE, NULL) \/ \E cc, f : StartMove(cc, f)
    BY <1>3 DEF hmap_ensure_capacity, hmap_rehash, GrowTo
  <2> QED BY <1>a, <1>c, <2>1, <2>2 DEF Waiting
<1>4. ASSUME NEW p \in Pair \cup {NULL}, NEW o \in {"put", "put_if_absent"}, StartPut(o, p)
      PROVE  Waiting'
  <2>1. op' = o
    BY <1>4 DEF StartPut, Call
  <2>2. \/ Return(TRUE, NULL) \/ Return(FALSE, NULL) \/ StartFind(p)
        \/ \E cc, f : StartMove(cc, f)
    BY <1>4 DEF StartPut, GrowTo
  <2> QED BY <1>a, <1>b, <1>c, <2>1, <2>2 DEF Waiting
<1>5. ASSUME NEW p \in Pair \cup {NULL},
             NEW o \in {"remove", "replace", "get", "get_or_default"}, StartLookup(o, p)
      PROVE  Waiting'
  <2>1. op' = o
    BY <1>5 DEF StartLookup, Call
  <2>2. StartFind(p) \/ \E b, q : Return(b, q)
    BY <1>5 DEF StartLookup, ReturnPointer
  <2> QED BY <1>a, <1>b, <2>1, <2>2 DEF Waiting
<1>6. CASE FindNext
  BY <1>6 DEF FindNext, Waiting
<1>7. CASE EndPut \/ EndPutIfAbsent \/ EndRemove \/ EndReplace \/ EndGet \/ EndGetOrDefault
  <2>1. \E b, p : Return(b, p)
    BY <1>7 DEF EndPut, EndPutIfAbsent, EndRemove, EndReplace, EndGet, EndGetOrDefault,
                ReturnPointer
  <2> QED BY <1>a, <1>d, <2>1
<1>8. CASE MoveVacant \/ MovePlace \/ MoveNext
  BY <1>8 DEF MoveVacant, MovePlace, MoveNext, Moving, Waiting
<1>9. CASE MoveDone
  <2>1. pc = "move" /\ op' = op
    BY <1>9 DEF MoveDone
  <2>2. CASE op \in {"put", "put_if_absent"}
    <3>1. StartFind(arg)
      BY <1>9, <2>2 DEF MoveDone
    <3> QED BY <1>b, <2>1, <2>2, <3>1 DEF Waiting
  <2>3. CASE op \notin {"put", "put_if_absent"}
    <3>1. Return(TRUE, NULL)
      BY <1>9, <2>3 DEF MoveDone
    <3> QED BY <1>a, <1>d, <3>1
  <2> QED BY <2>2, <2>3
<1> QED BY <1>1, <1>2, <1>3, <1>4, <1>5, <1>6, <1>7, <1>8, <1>9 DEF Next, Start, Find, Move

(* A block in which no key is in two slots, and the function it holds.     *)
OnePerKey(block) ==
  \A j1, j2 \in Occupied(block) : block[j1].pair.key = block[j2].pair.key => j1 = j2
KeysIn(block) == {block[j].pair.key : j \in Occupied(block)}
DictIn(block) ==
  [key \in KeysIn(block) |->
     block[CHOOSE j \in Occupied(block) : block[j].pair.key = key].pair.val]

LEMMA DictOfIs == DictOf = DictIn(mem) /\ DictOf' = DictIn(mem')
BY DEF DictOf, StoredKeys, ValueOf, DictIn, KeysIn

LEMMA NoTwice == Safe /\ Found => OnePerKey(mem)
<1> SUFFICES ASSUME Safe, Found, NEW j1 \in Occupied(mem), NEW j2 \in Occupied(mem),
                    mem[j1].pair.key = mem[j2].pair.key
             PROVE  j1 = j2
  BY DEF OnePerKey
<1>1. Chained(mem, cap) /\ \A j \in Occupied(mem) : mem[j].hash = hasher[mem[j].pair.key]
  BY DEF Found, Safe, Stored, HashesCurrent
<1> QED BY <1>1, KeysUnique

LEMMA DictAt ==
  ASSUME NEW block, OnePerKey(block), NEW j \in Occupied(block)
  PROVE  block[j].pair.key \in KeysIn(block) /\ DictIn(block)[block[j].pair.key] = block[j].pair.val
<1>1. (CHOOSE x \in Occupied(block) : block[x].pair.key = block[j].pair.key) = j
  BY DEF OnePerKey
<1> QED BY <1>1 DEF DictIn, KeysIn

LEMMA DictEmpty ==
  ASSUME NEW block, Occupied(block) = {}
  PROVE  DictIn(block) = Dict!NoPairs
BY DEF DictIn, KeysIn, Dict!NoPairs

(* The same pairs in other slots are the same dictionary.                  *)
LEMMA DictMoved ==
  ASSUME NEW a, NEW b, OnePerKey(a), OnePerKey(b),
         {a[j].pair : j \in Occupied(a)} = {b[j].pair : j \in Occupied(b)}
  PROVE  DictIn(a) = DictIn(b)
<1>1. KeysIn(a) = KeysIn(b)
  <2>1. \A block : KeysIn(block) = {p.key : p \in {block[j].pair : j \in Occupied(block)}}
    BY DEF KeysIn
  <2> QED BY <2>1
<1>2. ASSUME NEW key \in KeysIn(a) PROVE DictIn(a)[key] = DictIn(b)[key]
  <2>1. PICK j \in Occupied(a) : a[j].pair.key = key
    BY DEF KeysIn
  <2>2. PICK x \in Occupied(b) : b[x].pair = a[j].pair
    OBVIOUS
  <2>3. DictIn(a)[key] = a[j].pair.val
    BY <2>1, DictAt
  <2>4. DictIn(b)[key] = b[x].pair.val
    BY <2>1, <2>2, DictAt
  <2> QED BY <2>2, <2>3, <2>4
<1> QED BY <1>1, <1>2 DEF DictIn

DictWith(block, p) ==
  [key \in KeysIn(block) \cup {p.key} |-> IF key = p.key THEN p.val ELSE DictIn(block)[key]]

(* A pair stored where no pair or one of its key was.                      *)
LEMMA DictStored ==
  ASSUME NEW c \in Nat, NEW block \in [0 .. c - 1 -> Slot], OnePerKey(block),
         NEW b \in 0 .. c - 1, NEW s, s.pair # NULL,
         NEW new, new = [block EXCEPT ![b] = s], OnePerKey(new),
         block[b].pair # NULL => block[b].pair.key = s.pair.key,
         block[b].pair = NULL => s.pair.key \notin KeysIn(block)
  PROVE  DictIn(new) = DictWith(block, s.pair)
<1>1. new[b] = s /\ \A j \in 0 .. c - 1 : j # b => new[j] = block[j]
  OBVIOUS
<1>2. Occupied(new) = Occupied(block) \cup {b} /\ Occupied(block) \subseteq 0 .. c - 1
  BY DEF Occupied
<1>3. OnePerKey(new)
  OBVIOUS
<1>4. KeysIn(new) = KeysIn(block) \cup {s.pair.key}
  <2>1. ASSUME NEW key \in KeysIn(new) PROVE key \in KeysIn(block) \cup {s.pair.key}
    <3>1. PICK j \in Occupied(new) : new[j].pair.key = key
      BY <2>1 DEF KeysIn
    <3> QED BY <1>1, <1>2, <3>1 DEF KeysIn
  <2>2. ASSUME NEW key \in KeysIn(block) PROVE key \in KeysIn(new)
    <3>1. PICK j \in Occupied(block) : block[j].pair.key = key
      BY <2>2 DEF KeysIn
    <3>2. CASE j = b
      <4>1. key = s.pair.key
        BY <3>1, <3>2 DEF Occupied
      <4> QED BY <1>1, <1>2, <4>1 DEF KeysIn
    <3>3. CASE j # b
      BY <1>1, <1>2, <3>1, <3>3 DEF KeysIn
    <3> QED BY <3>2, <3>3
  <2>3. s.pair.key \in KeysIn(new)
    BY <1>1, <1>2 DEF KeysIn
  <2> QED BY <2>1, <2>2, <2>3
<1>5. DictIn(new)[s.pair.key] = s.pair.val
  BY ONLY <1>1, <1>2, <1>3, DictAt
<1>6. ASSUME NEW key \in KeysIn(block), key # s.pair.key
      PROVE  DictIn(new)[key] = DictIn(block)[key]
  <2>1. PICK j \in Occupied(block) : block[j].pair.key = key
    BY DEF KeysIn
  <2>2. j # b
    BY <1>6, <2>1 DEF Occupied
  <2>3. new[j] = block[j] /\ j \in Occupied(new)
    BY <1>1, <1>2, <2>1, <2>2
  <2>4. DictIn(block)[key] = block[j].pair.val
    BY <2>1, DictAt
  <2>5. DictIn(new)[key] = new[j].pair.val
    BY ONLY <1>3, <2>1, <2>3, DictAt
  <2> QED BY <2>3, <2>4, <2>5
<1>7. DictIn(new) = [key \in KeysIn(new) |-> DictIn(new)[key]]
  BY DEF DictIn
<1> QED BY <1>4, <1>5, <1>6, <1>7 DEF DictWith

(* Where a search ends at a vacant slot, its key is not in the table.      *)
LEMMA AbsentKey ==
  ASSUME Safe, Found, pc = "find", found.pair = NULL
  PROVE  arg.key \notin KeysIn(mem)
<1> SUFFICES ASSUME NEW j \in Occupied(mem), mem[j].pair.key = arg.key PROVE FALSE
  BY DEF KeysIn
<1>1. /\ PassedBy(mem, cap, code, k, arg.key) /\ Chained(mem, cap)
      /\ code = hasher[arg.key] /\ k \in SizeT /\ mem[Bucket(code, k, cap)].pair = NULL
  BY DEF Found, Safe, Shape, TypeOK, found, slot
<1>2. mem[j].hash = code /\ mem[j].pair # NULL
  BY <1>1 DEF Safe, Stored, HashesCurrent, Occupied
<1>3. PICK n \in SizeT : /\ Bucket(code, n, cap) = j
                         /\ PassedBy(mem, cap, code, n, mem[j].pair.key)
  BY <1>1, <1>2, LeadsToPassedBy DEF Chained
<1>4. n \in Nat /\ k \in Nat
  BY <1>1, SizeAssumption DEF SizeT
<1>5. ~(k < n)
  BY <1>1, <1>3, <1>4 DEF PassedBy
<1>6. ~(n < k)
  BY <1>1, <1>3, <1>4 DEF PassedBy
<1>7. n = k
  BY <1>4, <1>5, <1>6
<1> QED BY <1>1, <1>2, <1>3, <1>7

(* What a finished search has come to is what the dictionary has.          *)
LEMMA FoundIsStored ==
  ASSUME Safe, Found, pc = "find", Stops(found, code, arg)
  PROVE  /\ Dict!Stored(arg) = found.pair
         /\ found.pair # NULL => found.pair.key = arg.key
         /\ found.pair = NULL => arg.key \notin KeysIn(mem)
<1>1. slot \in 0 .. cap - 1 /\ found \in Slot /\ found = mem[slot] /\ arg \in Pair /\ arg # NULL
  BY InFind, NullAssumption DEF Safe, found
<1>2. DOMAIN DictOf = KeysIn(mem) /\ DictOf = DictIn(mem)
  BY DictOfIs DEF DictIn
<1>3. CASE found.pair = NULL
  <2>1. arg.key \notin KeysIn(mem)
    BY <1>3, AbsentKey
  <2> QED BY <1>2, <1>3, <2>1 DEF Dict!Stored
<1>4. CASE found.pair # NULL
  <2>1. found.pair.key = arg.key /\ found.pair \in Pair
    BY <1>1, <1>4 DEF Stops, Matches, Slot
  <2>2. slot \in Occupied(mem)
    BY <1>1, <1>4, MemFinite DEF Occupied, Safe
  <2>3. arg.key \in KeysIn(mem) /\ DictIn(mem)[arg.key] = found.pair.val
    BY <1>1, <2>1, <2>2, NoTwice, DictAt
  <2>4. Dict!Stored(arg) = [key |-> arg.key, val |-> found.pair.val]
    BY <1>1, <1>2, <2>3 DEF Dict!Stored
  <2>5. found.pair = [key |-> found.pair.key, val |-> found.pair.val]
    BY <2>1 DEF Pair
  <2> QED BY <1>4, <2>1, <2>4, <2>5
<1> QED BY <1>3, <1>4

(* How a call is answered or issued.                                       *)
LEMMA AnswersAtOnce ==
  ASSUME Waiting, NEW o, NEW p, Call(o, p), NEW b, NEW q, Return(b, q)
  PROVE  Dict!Answers(o, p, b, q)
BY DEF Waiting, Call, Return, Answer, Dict!Answers, Dict!Answer, Dict!Pending

LEMMA AnswersLater ==
  ASSUME Waiting, pc # "idle", UNCHANGED <<op, arg>>, NEW b, NEW q, Return(b, q)
  PROVE  Dict!Answers(op, arg, b, q)
BY DEF Waiting, Return, Answer, Dict!Answers, Dict!Answer

LEMMA Issues ==
  ASSUME Waiting, NEW o, NEW p, Call(o, p), ret' = Pending, mem' = mem
  PROVE  Dict!Issue(o, p)
<1>1. DictOf' = DictOf
  BY DictOfIs
<1>2. ret = Pending => op = "none"
  BY DEF Waiting, Call, Pending
<1> QED BY <1>1, <1>2 DEF Call, Dict!Issue, Dict!Pending, Pending

LEMMA ReserveIs ==
  ASSUME NEW o \in {"init", "ensure", "rehash"}, NEW b \in BOOLEAN,
         Dict!Answers(o, NULL, b, NULL), mem' = mem
  PROVE  Dict!Next
<1>1. DictOf' = DictOf
  BY DictOfIs
<1>2. Dict!Reserve(o)
  BY <1>1 DEF Dict!Reserve
<1> QED BY <1>2 DEF Dict!Next, Dict!Storage

LEMMA EmptyIs ==
  ASSUME NEW o \in {"clear", "free"}, Dict!Answers(o, NULL, TRUE, NULL), Occupied(mem') = {}
  PROVE  Dict!Next
<1>1. DictOf' = Dict!NoPairs
  BY DictEmpty, DictOfIs
<1>2. Dict!Empty(o)
  BY <1>1 DEF Dict!Empty
<1> QED BY <1>2 DEF Dict!Next, Dict!Emptying

LEMMA StartIsDict == Safe /\ Found /\ Waiting /\ Start => Dict!Next
<1> SUFFICES ASSUME Safe, Found, Waiting, Start PROVE Dict!Next
  OBVIOUS
<1>a. ASSUME NEW p, StartFind(p) PROVE ret' = Pending
  BY <1>a DEF StartFind
<1>b. ASSUME NEW cc, NEW f, StartMove(cc, f) PROVE ret' = Pending
  BY <1>b DEF StartMove
<1>c. ASSUME NEW o \in {"ensure", "rehash"}, Dict!Issue(o, NULL) PROVE Dict!Next
  BY <1>c DEF Dict!Next, Dict!Storage
<1>d. ASSUME NEW p \in Pair \cup {NULL}, NEW o \in {"put", "put_if_absent", "remove",
             "replace", "get", "get_or_default"}, Dict!Issue(o, p)
      PROVE  Dict!Next
  BY <1>d DEF Dict!Next, Dict!OnPairs, Dict!Pair, Pair
<1>1. CASE init_hmap
  <2>1. Call("init", NULL)
    BY <1>1 DEF init_hmap
  <2>2. CASE Return(FALSE, NULL) /\ UNCHANGED <<table, nullHashed>>
    <3>1. mem' = mem
      BY <2>2 DEF table
    <3> QED BY <2>1, <2>2, <3>1, AnswersAtOnce, ReserveIs
  <2>3. CASE mem' = EmptyBlock(0) /\ Return(TRUE, NULL)
    <3>1. cap = 0 /\ mem \in [0 .. 0 - 1 -> Slot]
      BY <1>1 DEF init_hmap, Safe, Shape, Room1, TypeOK
    <3>2. EmptyBlock(0) \in [0 .. 0 - 1 -> Slot] /\ 0 .. 0 - 1 = {}
      BY EmptyBlockType
    <3>3. mem' = mem
      BY <2>3, <3>1, <3>2
    <3> QED BY <2>1, <2>3, <3>3, AnswersAtOnce, ReserveIs
  <2> QED BY <1>1, <2>2, <2>3 DEF init_hmap
<1>2. CASE free_hmap
  <2>1. Call("free", NULL) /\ Return(TRUE, NULL)
    BY <1>2 DEF free_hmap
  <2>2. Occupied(mem') = {}
    <3>1. CASE cap > 0
      BY <1>2, <3>1, OccupiedEmpty DEF free_hmap
    <3>2. CASE ~(cap > 0)
      <4>1. mem' = mem /\ cap \in Nat /\ mem \in [0 .. cap - 1 -> Slot]
        BY <1>2, <3>2, MemFinite DEF free_hmap, Safe
      <4> QED BY <3>2, <4>1 DEF Occupied
    <3> QED BY <3>1, <3>2
  <2> QED BY <2>1, <2>2, AnswersAtOnce, EmptyIs
<1>3. CASE hmap_clear
  <2>1. Call("clear", NULL) /\ Return(TRUE, NULL) /\ Occupied(mem') = {}
    BY <1>3, OccupiedEmpty DEF hmap_clear
  <2> QED BY <2>1, AnswersAtOnce, EmptyIs
<1>4. CASE hmap_ensure_capacity
  <2>1. Call("ensure", NULL) /\ mem' = mem
    BY <1>4 DEF hmap_ensure_capacity, table
  <2>2. CASE Return(TRUE, NULL)
    BY <2>1, <2>2, AnswersAtOnce, ReserveIs
  <2>3. CASE Return(FALSE, NULL)
    BY <2>1, <2>3, AnswersAtOnce, ReserveIs
  <2>4. CASE \E cc, f : StartMove(cc, f)
    BY <1>b, <1>c, <2>1, <2>4, Issues
  <2> QED BY <1>4, <2>2, <2>3, <2>4 DEF hmap_ensure_capacity, GrowTo
<1>5. CASE hmap_rehash
  <2>1. Call("rehash", NULL) /\ mem' = mem
    BY <1>5 DEF hmap_rehash
  <2>2. CASE Return(TRUE, NULL)
    BY <2>1, <2>2, AnswersAtOnce, ReserveIs
  <2>3. CASE Return(FALSE, NULL)
    BY <2>1, <2>3, AnswersAtOnce, ReserveIs
  <2>4. CASE \E cc, f : StartMove(cc, f)
    BY <1>b, <1>c, <2>1, <2>4, Issues
  <2> QED BY <1>5, <2>2, <2>3, <2>4 DEF hmap_rehash
<1>6. ASSUME NEW p \in Pair \cup {NULL}, NEW o \in {"put", "put_if_absent"}, StartPut(o, p)
      PROVE  Dict!Next
  <2>1. Call(o, p) /\ mem' = mem /\ DictOf' = DictOf /\ p \in Dict!Pair \cup {NULL}
    BY <1>6, DictOfIs DEF StartPut, table, Dict!Pair, Pair
  <2>2. CASE p = NULL /\ Return(TRUE, NULL)
    <3>1. Dict!Answers(o, p, TRUE, NULL)
      BY <2>1, <2>2, AnswersAtOnce
    <3>2. Dict!Put(p) \/ Dict!PutIfAbsent(p)
      BY <2>1, <2>2, <3>1 DEF Dict!Put, Dict!PutIfAbsent
    <3> QED BY <2>1, <3>2 DEF Dict!Next
  <2>3. CASE p # NULL /\ Return(FALSE, NULL)
    <3>1. Dict!Answers(o, p, FALSE, NULL)
      BY <2>1, <2>3, AnswersAtOnce
    <3>2. Dict!Put(p) \/ Dict!PutIfAbsent(p)
      BY <2>1, <2>3, <3>1 DEF Dict!Put, Dict!PutIfAbsent
    <3> QED BY <2>1, <3>2 DEF Dict!Next
  <2>4. CASE StartFind(p)
    BY <1>a, <1>d, <2>1, <2>4, Issues
  <2>5. CASE \E cc, f : StartMove(cc, f)
    BY <1>b, <1>d, <2>1, <2>5, Issues
  <2> QED BY <1>6, <2>2, <2>3, <2>4, <2>5 DEF StartPut, GrowTo
<1>7. ASSUME NEW p \in Pair \cup {NULL},
             NEW o \in {"remove", "replace", "get", "get_or_default"}, StartLookup(o, p)
      PROVE  Dict!Next
  <2>1. Call(o, p) /\ mem' = mem /\ DictOf' = DictOf /\ p \in Dict!Pair \cup {NULL}
    BY <1>7, DictOfIs DEF StartLookup, table, Dict!Pair, Pair
  <2>2. CASE StartFind(p)
    BY <1>a, <1>d, <2>1, <2>2, Issues
  <2>3. CASE /\ p = NULL \/ NothingStored
             /\ ReturnPointer(IF o = "get_or_default" THEN p ELSE NULL)
    <3> DEFINE q == IF o = "get_or_default" THEN p ELSE NULL
    <3>1. Dict!Answers(o, p, q # NULL, q)
      BY <2>1, <2>3, AnswersAtOnce DEF ReturnPointer
    <3>2. Dict!Stored(p) = NULL
      <4>1. CASE p = NULL
        BY <4>1 DEF Dict!Stored
      <4>2. CASE len < 1
        <5>1. Cardinality(Occupied(mem)) <= 0
          BY <4>2, MemFinite DEF Safe, Stored, Shape, TypeOK
        <5>2. Occupied(mem) = {}
          BY <5>1, MemFinite, FS_EmptySet DEF Safe
        <5>3. DOMAIN DictOf = {}
          BY <5>2 DEF DictOf, StoredKeys
        <5> QED BY <5>3 DEF Dict!Stored
      <4> QED BY <2>3, <4>1, <4>2 DEF NothingStored
    <3>3. Dict!Remove(p) \/ Dict!Replace(p) \/ Dict!Get(p) \/ Dict!GetOrDefault(p)
      <4>1. CASE o = "get_or_default"
        BY <2>1, <3>1, <3>2, <4>1 DEF Dict!GetOrDefault
      <4>2. CASE o # "get_or_default"
        <5>1. Dict!Answers(o, p, Dict!Stored(p) # NULL, Dict!Stored(p))
          BY <3>1, <3>2, <4>2
        <5> QED BY <2>1, <3>2, <4>2, <5>1 DEF Dict!Remove, Dict!Replace, Dict!Get
      <4> QED BY <4>1, <4>2
    <3> QED BY <2>1, <3>3 DEF Dict!Next
  <2> QED BY <1>7, <2>2, <2>3 DEF StartLookup
<1> QED BY <1>1, <1>2, <1>3, <1>4, <1>5, <1>6, <1>7 DEF Start

(* A slot stored where a search ended is a pair stored in the dictionary.  *)
LEMMA StoreIsWith ==
  ASSUME Safe, Found, Safe', Found', pc = "find", Stops(found, code, arg),
         NEW s, mem' = [mem EXCEPT ![slot] = s], s.pair = arg
  PROVE  DictOf' = Dict!With(arg)
<1>1. /\ cap \in Nat /\ mem \in [0 .. cap - 1 -> Slot] /\ slot \in 0 .. cap - 1
      /\ arg \in Pair /\ arg # NULL /\ found = mem[slot]
  BY MemFinite, InFind, NullAssumption DEF Safe, found
<1>2. OnePerKey(mem)
  BY NoTwice
<1>3. OnePerKey(mem')
  <2>1. Safe' /\ Found' => OnePerKey(mem)'
    BY NoTwice, PTL
  <2> QED BY <2>1 DEF OnePerKey, Occupied
<1>4. /\ found.pair # NULL => found.pair.key = arg.key
      /\ found.pair = NULL => arg.key \notin KeysIn(mem)
  BY FoundIsStored
<1>5. DictIn(mem') = DictWith(mem, arg)
  <2>1. PICK b : b = slot
    OBVIOUS
  <2>2. PICK new : new = mem'
    OBVIOUS
  <2>3. /\ s.pair # NULL /\ new = [mem EXCEPT ![b] = s] /\ OnePerKey(new) /\ b \in 0 .. cap - 1
        /\ mem[b].pair # NULL => mem[b].pair.key = s.pair.key
        /\ mem[b].pair = NULL => s.pair.key \notin KeysIn(mem)
    BY <1>1, <1>3, <1>4, <2>1, <2>2
  <2>4. DictIn(new) = DictWith(mem, s.pair)
    BY ONLY <1>1, <1>2, <2>3, DictStored
  <2> QED BY <2>2, <2>4
<1>6. DOMAIN DictOf = KeysIn(mem)
  BY DictOfIs DEF DictIn
<1> QED BY <1>5, <1>6, DictOfIs DEF Dict!With, DictWith

LEMMA FindIsDict ==
  NoRemoves /\ Safe /\ Found /\ Safe' /\ Found' /\ Waiting /\ Find
    => Dict!Next \/ UNCHANGED Dict!vars
<1> SUFFICES ASSUME NoRemoves, Safe, Found, Safe', Found', Waiting, Find
             PROVE  Dict!Next \/ UNCHANGED Dict!vars
  OBVIOUS
<1>a. pc = "find" /\ pc # "idle"
  BY DEF Find, FindNext, FindEnds, EndPut, EndPutIfAbsent, EndRemove, EndReplace,
         EndGet, EndGetOrDefault
<1>b. arg \in Pair /\ arg # NULL /\ arg \in Dict!Pair \cup {NULL}
  BY <1>a, InFind, NullAssumption DEF Safe, Dict!Pair, Pair
<1>c. ASSUME Stops(found, code, arg) PROVE Dict!Stored(arg) = found.pair
  BY <1>a, <1>c, FoundIsStored
<1>d. Entry.pair = arg
  BY DEF Entry
<1>e. mem' = mem => DictOf' = DictOf
  BY DictOfIs
<1>1. CASE FindNext
  BY <1>1, <1>e DEF FindNext, table, Dict!vars
<1>2. CASE EndPut
  <2>1. /\ op = "put" /\ Stops(found, code, arg) /\ UNCHANGED <<op, arg>>
        /\ mem' = [mem EXCEPT ![slot] = Entry] /\ Return(TRUE, found.pair)
    BY <1>2 DEF EndPut, FindEnds, Store
  <2>2. Dict!Answers("put", arg, TRUE, Dict!Stored(arg))
    BY <1>a, <1>c, <2>1, AnswersLater
  <2>3. DictOf' = Dict!With(arg)
    BY <1>a, <1>d, <2>1, StoreIsWith
  <2>4. Dict!Put(arg)
    BY <1>b, <2>2, <2>3 DEF Dict!Put
  <2> QED BY <1>b, <2>4 DEF Dict!Next
<1>3. CASE EndPutIfAbsent
  <2>1. /\ op = "put_if_absent" /\ Stops(found, code, arg) /\ UNCHANGED <<op, arg>>
        /\ Return(IsVacant(found), NULL)
    BY <1>3 DEF EndPutIfAbsent, FindEnds
  <2>2. Dict!Answers("put_if_absent", arg, IsVacant(found), NULL)
    BY <1>a, <2>1, AnswersLater
  <2>3. CASE IsVacant(found)
    <3>1. mem' = [mem EXCEPT ![slot] = Entry]
      BY <1>3, <2>3 DEF EndPutIfAbsent, Store
    <3>2. DictOf' = Dict!With(arg)
      BY <1>a, <1>d, <2>1, <3>1, StoreIsWith
    <3>3. Dict!Stored(arg) = NULL /\ IsVacant(found) = TRUE
      BY <1>c, <2>1, <2>3 DEF IsVacant
    <3>4. Dict!PutIfAbsent(arg)
      BY <1>b, <2>2, <3>2, <3>3 DEF Dict!PutIfAbsent
    <3> QED BY <1>b, <3>4 DEF Dict!Next
  <2>4. CASE ~IsVacant(found)
    <3>1. mem' = mem /\ IsVacant(found) = FALSE
      BY <1>3, <2>4 DEF EndPutIfAbsent, IsVacant
    <3>2. Dict!PutIfAbsent(arg)
      BY <1>b, <1>e, <2>2, <3>1 DEF Dict!PutIfAbsent
    <3> QED BY <1>b, <3>2 DEF Dict!Next
  <2> QED BY <2>3, <2>4
<1>4. CASE EndRemove
  BY <1>4, <1>a DEF EndRemove, FindEnds, Found, NoRemoves
<1>5. CASE EndReplace
  <2>1. /\ op = "replace" /\ Stops(found, code, arg) /\ UNCHANGED <<op, arg>>
        /\ Return(found.pair # NULL, found.pair)
    BY <1>5 DEF EndReplace, FindEnds, ReturnPointer
  <2>2. Dict!Answers("replace", arg, Dict!Stored(arg) # NULL, Dict!Stored(arg))
    BY <1>a, <1>c, <2>1, AnswersLater
  <2>3. CASE IsVacant(found)
    <3>1. DictOf' = DictOf /\ Dict!Stored(arg) = NULL
      BY <1>5, <1>c, <1>e, <2>1, <2>3 DEF EndReplace, IsVacant
    <3> QED BY <1>b, <2>2, <3>1 DEF Dict!Replace, Dict!Next
  <2>4. CASE ~IsVacant(found)
    <3>1. PICK s : s = [found EXCEPT !.pair = arg]
      OBVIOUS
    <3>2. s.pair = arg
      BY <1>a, <3>1, InFind DEF Slot, Safe
    <3>3. mem' = [mem EXCEPT ![slot] = s]
      BY <1>5, <2>4, <3>1 DEF EndReplace, Store
    <3>4. DictOf' = Dict!With(arg)
      BY <1>a, <2>1, <3>2, <3>3, StoreIsWith
    <3>5. Dict!Stored(arg) # NULL
      BY <1>c, <2>1, <2>4 DEF IsVacant
    <3> QED BY <1>b, <2>2, <3>4, <3>5 DEF Dict!Replace, Dict!Next
  <2> QED BY <2>3, <2>4
<1>6. CASE EndGet
  <2>1. /\ op = "get" /\ Stops(found, code, arg) /\ UNCHANGED <<op, arg>> /\ mem' = mem
        /\ Return(found.pair # NULL, found.pair)
    BY <1>6 DEF EndGet, FindEnds, ReturnPointer, table
  <2>2. Dict!Answers("get", arg, Dict!Stored(arg) # NULL, Dict!Stored(arg))
    BY <1>a, <1>c, <2>1, AnswersLater
  <2> QED BY <1>b, <1>e, <2>1, <2>2 DEF Dict!Get, Dict!Next
<1>7. CASE EndGetOrDefault
  <2> DEFINE q == IF IsVacant(found) THEN arg ELSE found.pair
  <2>1. /\ op = "get_or_default" /\ Stops(found, code, arg) /\ UNCHANGED <<op, arg>>
        /\ mem' = mem /\ Return(q # NULL, q)
    BY <1>7 DEF EndGetOrDefault, FindEnds, ReturnPointer, table
  <2>2. Dict!Answers("get_or_default", arg, q # NULL, q)
    BY <1>a, <2>1, AnswersLater
  <2>3. q = IF Dict!Stored(arg) # NULL THEN Dict!Stored(arg) ELSE arg
    BY <1>c, <2>1 DEF IsVacant
  <2> HIDE DEF q
  <2>4. Dict!GetOrDefault(arg)
    BY <1>e, <2>1, <2>2, <2>3 DEF Dict!GetOrDefault
  <2> QED BY <1>b, <2>4 DEF Dict!Next
<1> QED BY <1>1, <1>2, <1>3, <1>4, <1>5, <1>6, <1>7 DEF Find

(* Moving pairs to another block is nothing a dictionary shows.            *)
LEMMA MoveIsDict ==
  Safe /\ Found /\ Safe' /\ Found' /\ Waiting /\ Move => Dict!Next \/ UNCHANGED Dict!vars
<1> SUFFICES ASSUME Safe, Found, Safe', Found', Waiting, Move
             PROVE  Dict!Next \/ UNCHANGED Dict!vars
  OBVIOUS
<1>1. CASE MoveVacant \/ MovePlace \/ MoveNext
  <2>1. UNCHANGED <<mem, op, arg, ret>>
    BY <1>1 DEF MoveVacant, MovePlace, MoveNext, table
  <2> QED BY <2>1, DictOfIs DEF Dict!vars
<1>2. CASE MoveDone
  <2>1. pc = "move" /\ pc # "idle" /\ mem' = fresh /\ UNCHANGED <<op, arg>>
    BY <1>2 DEF MoveDone
  <2>2. DictOf' = DictOf
    <3>1. OnePerKey(mem)
      BY NoTwice
    <3>2. OnePerKey(mem')
      <4>1. Safe' /\ Found' => OnePerKey(mem)'
        BY NoTwice, PTL
      <4> QED BY <4>1 DEF OnePerKey, Occupied
    <3>3. Passed = Occupied(mem)
      <4>1. cap \in Nat /\ mem \in [0 .. cap - 1 -> Slot] /\ i = cap
        BY <1>2, <2>1, MemFinite, SizeAssumption DEF MoveDone, Safe, Shape, TypeOK
      <4>2. \A j \in Occupied(mem) : j < cap
        BY <4>1 DEF Occupied
      <4> QED BY <4>1, <4>2 DEF Passed
    <3>4. {mem[j].pair : j \in Occupied(mem)} = {mem'[j].pair : j \in Occupied(mem')}
      BY <2>1, <3>3 DEF Safe, Stored, NothingLost
    <3> QED BY <3>1, <3>2, <3>4, DictMoved, DictOfIs
  <2>3. CASE op \in {"put", "put_if_absent"}
    <3>1. ret' = ret
      BY <1>2, <2>1, <2>3 DEF MoveDone, StartFind, Waiting
    <3> QED BY <2>1, <2>2, <3>1 DEF Dict!vars
  <2>4. CASE op \notin {"put", "put_if_absent"}
    <3>1. Return(TRUE, NULL)
      BY <1>2, <2>4 DEF MoveDone
    <3>2. Dict!Answers(op, arg, TRUE, NULL)
      BY <2>1, <3>1, AnswersLater
    <3>3. op \in {"ensure", "rehash"} /\ arg = NULL
      BY <2>1, <2>4 DEF Waiting
    <3>4. Dict!Reserve(op)
      BY <2>2, <3>2, <3>3 DEF Dict!Reserve
    <3> QED BY <3>3, <3>4 DEF Dict!Next, Dict!Storage
  <2> QED BY <2>3, <2>4
<1> QED BY <1>1, <1>2 DEF Move

(* From a map out of which nothing is removed every call is answered as    *)
(* header/hash_map.h says, pair by pair, however the pairs collide, and    *)
(* wherever malloc fails; growth and rehash change no answer.              *)
THEOREM IsDictionary == NoRemoves /\ GrowKeepsPromise => (Spec => ImplementsDictionary)
<1> SUFFICES ASSUME NoRemoves, GrowKeepsPromise PROVE Spec => ImplementsDictionary
  OBVIOUS
<1>1. Init => Safe /\ Found /\ Waiting
  BY InitSafe, InitFound DEF Init, Waiting
<1>2. Safe /\ Found /\ Waiting /\ [Next]_vars => (Safe /\ Found /\ Waiting)'
  BY SafeStep, FoundStep, WaitingStep
<1>3. Init => Dict!Init
  <2> SUFFICES ASSUME Init PROVE Dict!Init
    OBVIOUS
  <2>1. Occupied(mem) = {}
    BY OccupiedEmpty DEF Init
  <2>2. DictOf = Dict!NoPairs
    BY <2>1, DictEmpty, DictOfIs
  <2> QED BY <2>2 DEF Init, Dict!Init, Pending, Dict!Pending
<1>4. /\ Safe /\ Found /\ Waiting /\ [Next]_vars
      /\ (Safe /\ Found /\ Waiting)'
      => [Dict!Next]_(Dict!vars)
  <2> SUFFICES ASSUME Safe, Found, Waiting, [Next]_vars, Safe', Found'
               PROVE  Dict!Next \/ UNCHANGED Dict!vars
    OBVIOUS
  <2>1. CASE UNCHANGED vars
    BY <2>1, DictOfIs DEF vars, table, Dict!vars
  <2> QED BY <2>1, StartIsDict, FindIsDict, MoveIsDict DEF Next
<1> QED BY <1>1, <1>2, <1>3, <1>4, PTL DEF Spec, ImplementsDictionary, Dict!Spec

=============================================================================
