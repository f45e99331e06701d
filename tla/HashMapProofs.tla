---------------------------- MODULE HashMapProofs ----------------------------
(***************************************************************************)
(* Theorems about HashMap for every set of keys, every hash function and   *)
(* every pair of macros that keep their promises.                          *)
(***************************************************************************)
EXTENDS HashMap, FiniteSetTheorems, TLAPS

(* The counters: there is room for what is put, and a growing table grows. *)
Room1 ==
  /\ len <= cap
  /\ ~live => cap = 0
  /\ pc = "find" /\ op \in {"put", "put_if_absent"} => len < cap
  /\ pc = "move" => cap <= fcap
  /\ pc = "move" /\ op \in {"put", "put_if_absent"} => len < fcap

Shape == TypeOK /\ Room1

-----------------------------------------------------------------------------
(* Blocks of slots and the slots a probe names.                            *)

LEMMA EmptyBlockType ==
  ASSUME NEW cc \in Nat
  PROVE  EmptyBlock(cc) \in [0 .. cc - 1 -> Slot]
BY SizeAssumption DEF EmptyBlock, Vacant, Slot, SizeT

(* A probe stays inside its block.                                         *)
LEMMA BucketInBlock ==
  ASSUME NEW h \in SizeT, NEW n \in SizeT, NEW cc \in Nat, cc > 0
  PROVE  Bucket(h, n, cc) \in 0 .. cc - 1
<1>1. HMAP_PROBE(h, n) \in Nat
  BY MacroAssumption DEF SizeT
<1> QED BY <1>1 DEF Bucket

LEMMA HashType ==
  ASSUME NEW f \in Hashers, NEW p \in Pair
  PROVE  f[p.key] \in SizeT
BY HashersAssumption DEF Pair

LEMMA NextProbeType == ASSUME NEW n \in SizeT PROVE (n + 1) % SizeMod \in SizeT
BY SizeAssumption DEF SizeT

(* A new source slot is probed for from the start of some probe sequence.  *)
LEMMA NextSourceType ==
  ASSUME NEW n, NextSource(n)
  PROVE  i' = n /\ k' = 0 /\ k' \in SizeT /\ code' \in SizeT
<1>1. 0 \in SizeT
  BY SizeAssumption DEF SizeT
<1> QED BY <1>1 DEF NextSource, StaleHash

-----------------------------------------------------------------------------
(* Leaving a call, starting a search, starting to move.                    *)

LEMMA ReturnShape ==
  ASSUME Shape, NEW b \in BOOLEAN, NEW p \in Pair \cup {NULL}, Return(b, p),
         live' \in BOOLEAN, len' \in Nat, cap' \in 0 .. MaxCap,
         mem' \in [0 .. cap' - 1 -> Slot],
         hasher' \in Hashers \cup {NULL}, live' => hasher' # NULL,
         arg' \in Pair \cup {NULL}, nullHashed' \in BOOLEAN,
         len' <= cap', ~live' => cap' = 0
  PROVE  Shape'
<1>1. EmptyBlock(0) \in [0 .. 0 - 1 -> Slot]
  BY EmptyBlockType
<1>2. MaxCap \in Nat /\ 0 \in SizeT
  BY SizeAssumption DEF SizeT
<1>3. ret' \in [done : BOOLEAN, ok : BOOLEAN, pair : Pair \cup {NULL}]
  BY DEF Return, Answer
<1>4. fresh' \in [0 .. fcap' - 1 -> Slot] /\ fcap' \in 0 .. MaxCap
  BY <1>1, <1>2 DEF Return, NoMove
<1>5. code' \in SizeT /\ k' \in SizeT /\ i' \in 0 .. cap' /\ fn' = NULL
  BY <1>2 DEF Return, NoSearch, NoMove
<1>6. pc' = "idle"
  BY DEF Return
<1> QED
  BY <1>3, <1>4, <1>5, <1>6 DEF Shape, TypeOK, Room1

LEMMA FindShape ==
  ASSUME Shape, NEW p \in Pair, StartFind(p),
         live' = TRUE, len' \in Nat, cap' \in 0 .. MaxCap, cap' > 0,
         mem' \in [0 .. cap' - 1 -> Slot],
         hasher' = hasher, hasher \in Hashers,
         arg' = p, nullHashed' \in BOOLEAN, len' <= cap',
         op' \in {"put", "put_if_absent"} => len' < cap'
  PROVE  Shape'
<1>1. EmptyBlock(0) \in [0 .. 0 - 1 -> Slot]
  BY EmptyBlockType
<1>2. MaxCap \in Nat /\ 0 \in SizeT
  BY SizeAssumption DEF SizeT
<1>3. hasher[p.key] \in SizeT /\ p # NULL /\ hasher # NULL
  BY HashType, NullAssumption
<1>4. ret' \in [done : BOOLEAN, ok : BOOLEAN, pair : Pair \cup {NULL}]
  BY DEF StartFind, Pending
<1>5. fresh' \in [0 .. fcap' - 1 -> Slot] /\ fcap' \in 0 .. MaxCap
  BY <1>1, <1>2 DEF StartFind, NoMove
<1>6. code' = hasher'[arg'.key] /\ code' \in SizeT /\ k' \in SizeT
  BY <1>2, <1>3 DEF StartFind
<1>7. i' \in 0 .. cap' /\ fn' = NULL /\ pc' = "find"
  BY <1>2 DEF StartFind, NoMove
<1> QED
  BY <1>3, <1>4, <1>5, <1>6, <1>7 DEF Shape, TypeOK, Room1

LEMMA MoveShape ==
  ASSUME Shape, live, NEW cc \in 0 .. MaxCap, NEW f \in Hashers \cup {NULL},
         StartMove(cc, f), cc > 0, cap <= cc,
         UNCHANGED <<live, len, cap, mem, hasher>>, UNCHANGED nullHashed,
         arg' \in Pair \cup {NULL}, op' = "rehash" <=> f # NULL,
         op' \in {"put", "put_if_absent"} => arg' # NULL /\ len < cc
  PROVE  Shape'
<1>1. EmptyBlock(cc) \in [0 .. cc - 1 -> Slot]
  BY EmptyBlockType
<1>2. MaxCap \in Nat /\ 0 \in SizeT
  BY SizeAssumption DEF SizeT
<1>3. i' = 0 /\ k' \in SizeT /\ code' \in SizeT
  BY NextSourceType DEF StartMove
<1> QED
  BY <1>1, <1>2, <1>3 DEF Shape, TypeOK, Room1, StartMove, Pending

(* What ensure_capacity(n) starts when the table is too small.             *)
LEMMA GrowShape ==
  ASSUME Shape, GrowKeepsPromise, live,
         NEW n \in EnsureArgs \cup 0 .. MaxCap + 1, cap < n, GrowTo(n),
         UNCHANGED <<live, len, cap, mem, hasher>>, UNCHANGED nullHashed,
         arg' \in Pair \cup {NULL}, op' # "rehash",
         op' \in {"put", "put_if_absent"} => arg' # NULL /\ len < n
  PROVE  Shape'
<1>1. n \in Nat /\ n > 0 /\ cap \in Nat /\ len \in Nat
  <2>1. cap \in Nat /\ cap < n
    BY SizeAssumption DEF Shape, TypeOK
  <2>2. n \in Nat
    BY SizeAssumption DEF SizeT
  <2> QED BY <2>1, <2>2 DEF Shape, TypeOK
<1>2. HMAP_GROW(n) \in Nat /\ HMAP_GROW(n) >= n
  BY MacroAssumption, SizeAssumption DEF SizeT, GrowKeepsPromise
<1>3. CASE Return(FALSE, NULL)
  BY <1>3, ReturnShape DEF Shape, TypeOK, Room1
<1>4. CASE HMAP_GROW(n) <= MaxCap /\ StartMove(HMAP_GROW(n), NULL)
  <2>1. HMAP_GROW(n) \in 0 .. MaxCap
    BY <1>2, <1>4, SizeAssumption
  <2> QED
    BY <1>1, <1>2, <1>4, <2>1, MoveShape
<1> QED BY <1>3, <1>4 DEF GrowTo

-----------------------------------------------------------------------------
(* What holds inside the two loops.                                        *)

LEMMA InFind ==
  ASSUME Shape, pc = "find"
  PROVE  /\ live /\ cap \in Nat /\ cap > 0 /\ len \in Nat /\ len <= cap
         /\ arg \in Pair /\ hasher \in Hashers
         /\ slot \in 0 .. cap - 1 /\ found \in Slot
<1>1. cap \in Nat /\ cap > 0 /\ code \in SizeT /\ k \in SizeT
  BY SizeAssumption DEF Shape, TypeOK
<1>2. slot \in 0 .. cap - 1
  BY <1>1, BucketInBlock DEF slot
<1>3. found \in Slot
  BY <1>2 DEF Shape, TypeOK, found
<1> QED
  BY <1>1, <1>2, <1>3 DEF Shape, TypeOK, Room1

LEMMA InMove ==
  ASSUME Shape, Moving, ~IsVacant(mem[i])
  PROVE  /\ fcap \in Nat /\ fcap > 0 /\ i \in 0 .. cap - 1 /\ mem[i] \in Slot
         /\ mem[i].pair \in Pair /\ MovedHash \in SizeT
         /\ target \in 0 .. fcap - 1 /\ fresh[target] \in Slot
<1>1. fcap \in Nat /\ fcap > 0 /\ i \in 0 .. cap - 1 /\ k \in SizeT
  BY SizeAssumption DEF Shape, TypeOK, Moving
<1>2. mem[i] \in Slot /\ mem[i].pair \in Pair
  BY <1>1 DEF Shape, TypeOK, IsVacant, Slot
<1>3. fn \in Hashers \cup {NULL}
  BY DEF Shape, TypeOK
<1>4. MovedHash \in SizeT
  BY <1>2, <1>3, HashType DEF MovedHash, Slot
<1>5. target \in 0 .. fcap - 1
  BY <1>1, <1>4, BucketInBlock DEF target
<1>6. fresh[target] \in Slot
  BY <1>5 DEF Shape, TypeOK
<1> QED
  BY <1>1, <1>2, <1>4, <1>5, <1>6

(* A call that ends by storing into the table: no address leaves it.       *)
LEMMA StoreShape ==
  ASSUME Shape, pc = "find", NEW o, FindEnds(o), NEW b \in BOOLEAN,
         NEW p \in Pair \cup {NULL}, Return(b, p),
         mem' \in [0 .. cap - 1 -> Slot],
         len' \in {len, Counted}, len' = len \/ o \in {"put", "put_if_absent"},
         UNCHANGED <<live, cap, hasher, op, arg, nullHashed>>
  PROVE  Shape'
<1>1. len' \in Nat /\ len' <= cap'
  BY InFind DEF Counted, FindEnds, Shape, TypeOK, Room1
<1>2. /\ live' \in BOOLEAN /\ cap' \in 0 .. MaxCap /\ live'
      /\ hasher' \in Hashers \cup {NULL} /\ hasher' # NULL
      /\ arg' \in Pair \cup {NULL} /\ nullHashed' \in BOOLEAN
  BY InFind DEF Shape, TypeOK
<1> QED
  BY <1>1, <1>2, ReturnShape

-----------------------------------------------------------------------------
(* Init and every action keep the shape.                                   *)

LEMMA InitShape == Init => Shape
<1> SUFFICES ASSUME Init PROVE Shape
  OBVIOUS
<1>1. EmptyBlock(0) \in [0 .. 0 - 1 -> Slot]
  BY EmptyBlockType
<1>2. MaxCap \in Nat /\ 0 \in SizeT
  BY SizeAssumption DEF SizeT
<1>3. ret \in [done : BOOLEAN, ok : BOOLEAN, pair : Pair \cup {NULL}]
  BY DEF Init, Pending
<1>4. /\ mem \in [0 .. cap - 1 -> Slot] /\ fresh \in [0 .. fcap - 1 -> Slot]
      /\ cap \in 0 .. MaxCap /\ fcap \in 0 .. MaxCap /\ i \in 0 .. cap
  BY <1>1, <1>2 DEF Init
<1>5. len \in Nat /\ len <= cap /\ live = FALSE /\ hasher = NULL /\ arg = NULL /\ fn = NULL
  BY DEF Init
<1>6. code \in SizeT /\ k \in SizeT
  BY <1>2 DEF Init
<1>7. pc = "idle" /\ nullHashed \in BOOLEAN /\ cap = 0
  BY DEF Init
<1> QED
  BY <1>3, <1>4, <1>5, <1>6, <1>7 DEF Shape, TypeOK, Room1

LEMMA StartShape == Shape /\ GrowKeepsPromise /\ Start => Shape'
<1> SUFFICES ASSUME Shape, GrowKeepsPromise, Start PROVE Shape'
  OBVIOUS
<1>1. CASE init_hmap
  <2>1. EmptyBlock(0) \in [0 .. 0 - 1 -> Slot] /\ MaxCap \in Nat
    BY EmptyBlockType, SizeAssumption
  <2>2. CASE UNCHANGED <<table, nullHashed>> /\ Return(FALSE, NULL)
    BY <1>1, <2>2, ReturnShape DEF init_hmap, Call, table, Shape, TypeOK, Room1
  <2>3. CASE /\ live' = TRUE /\ len' = 0 /\ cap' = 0 /\ mem' = EmptyBlock(0)
             /\ hasher' \in Hashers /\ Return(TRUE, NULL) /\ UNCHANGED nullHashed
    <3>1. /\ len' \in Nat /\ cap' \in 0 .. MaxCap /\ len' <= cap'
          /\ mem' \in [0 .. cap' - 1 -> Slot]
      BY <2>1, <2>3
    <3>2. hasher' # NULL /\ arg' = NULL /\ nullHashed' \in BOOLEAN
      BY <1>1, <2>3, NullAssumption DEF init_hmap, Call, Shape, TypeOK
    <3> QED BY <2>3, <3>1, <3>2, ReturnShape
  <2> QED BY <1>1, <2>2, <2>3 DEF init_hmap
<1>2. CASE free_hmap
  <2>1. EmptyBlock(0) \in [0 .. 0 - 1 -> Slot] /\ MaxCap \in Nat
    BY EmptyBlockType, SizeAssumption
  <2>2. /\ len' \in Nat /\ cap' = 0 /\ len' <= cap'
        /\ mem' \in [0 .. cap' - 1 -> Slot]
    BY <1>2, <2>1 DEF free_hmap, Shape, TypeOK, Room1
  <2>3. /\ live' = FALSE /\ arg' = NULL /\ hasher' \in Hashers \cup {NULL}
        /\ nullHashed' \in BOOLEAN /\ Return(TRUE, NULL)
    BY <1>2 DEF free_hmap, Call, Shape, TypeOK
  <2>4. cap' \in 0 .. MaxCap
    BY <2>1, <2>2
  <2>5. live' \in BOOLEAN /\ ~live'
    BY <2>3
  <2> QED BY <2>2, <2>3, <2>4, <2>5, ReturnShape
<1>3. CASE hmap_clear
  <2>a. cap \in Nat
    BY SizeAssumption DEF Shape, TypeOK
  <2>1. EmptyBlock(cap) \in [0 .. cap - 1 -> Slot]
    BY <2>a, EmptyBlockType
  <2>2. /\ len' \in Nat /\ len' <= cap' /\ cap' \in 0 .. MaxCap
        /\ mem' \in [0 .. cap' - 1 -> Slot]
    BY <1>3, <2>1 DEF hmap_clear, Shape, TypeOK
  <2>3. /\ live' /\ arg' = NULL /\ hasher' \in Hashers \cup {NULL} /\ hasher' # NULL
        /\ nullHashed' \in BOOLEAN /\ Return(TRUE, NULL) /\ live' \in BOOLEAN
    BY <1>3 DEF hmap_clear, Call, Shape, TypeOK
  <2> QED BY <2>2, <2>3, ReturnShape
<1>4. CASE hmap_ensure_capacity
  <2>1. PICK n \in EnsureArgs : \/ cap >= n /\ Return(TRUE, NULL)
                                \/ cap < n /\ GrowTo(n)
    BY <1>4 DEF hmap_ensure_capacity
  <2>2. /\ UNCHANGED <<live, len, cap, mem, hasher>> /\ UNCHANGED nullHashed
        /\ op' = "ensure" /\ arg' = NULL /\ live
    BY <1>4 DEF hmap_ensure_capacity, Call, table
  <2>3. CASE Return(TRUE, NULL)
    BY <2>2, <2>3, ReturnShape DEF Shape, TypeOK, Room1
  <2>4. CASE cap < n /\ GrowTo(n)
    BY <2>2, <2>4, GrowShape
  <2> QED BY <2>1, <2>3, <2>4
<1>5. ASSUME NEW p \in Pair \cup {NULL}, NEW o \in {"put", "put_if_absent"}, StartPut(o, p)
      PROVE  Shape'
  <2>1. /\ UNCHANGED <<live, len, cap, mem, hasher>> /\ UNCHANGED nullHashed
        /\ op' = o /\ arg' = p /\ live
    BY <1>5 DEF StartPut, Call, table
  <2>2. len \in Nat /\ cap \in 0 .. MaxCap /\ len <= cap /\ cap \in Nat
    BY SizeAssumption DEF Shape, TypeOK, Room1
  <2>3. CASE Return(TRUE, NULL)
    BY <2>1, <2>3, ReturnShape DEF Shape, TypeOK, Room1
  <2>4. CASE p # NULL /\ cap >= Room /\ StartFind(p)
    <3>1. cap > 0 /\ len < cap /\ p \in Pair
      BY <2>2, <2>4 DEF Room
    <3>2. live' = TRUE /\ hasher \in Hashers
      BY <2>1 DEF Shape, TypeOK
    <3> QED BY <2>1, <2>2, <2>4, <3>1, <3>2, FindShape DEF Shape, TypeOK
  <2>5. CASE p # NULL /\ cap < Room /\ GrowTo(Room)
    <3>1. Room \in EnsureArgs \cup 0 .. MaxCap + 1 /\ len < Room
      BY <2>2, SizeAssumption DEF Room
    <3>2. op' # "rehash"
      BY <2>1
    <3> QED BY <2>1, <2>2, <2>5, <3>1, <3>2, GrowShape
  <2> QED BY <1>5, <2>3, <2>4, <2>5 DEF StartPut
<1>6. ASSUME NEW p \in Pair \cup {NULL},
             NEW o \in {"remove", "replace", "get", "get_or_default"}, StartLookup(o, p)
      PROVE  Shape'
  <2>1. /\ UNCHANGED <<live, len, cap, mem, hasher>> /\ UNCHANGED nullHashed
        /\ op' = o /\ arg' = p /\ live
    BY <1>6 DEF StartLookup, Call, table
  <2>2. CASE ReturnPointer(IF o = "get_or_default" THEN p ELSE NULL)
    <3> DEFINE q == IF o = "get_or_default" THEN p ELSE NULL
    <3>1. q \in Pair \cup {NULL} /\ Return(q # NULL, q)
      BY <2>2 DEF ReturnPointer
    <3> HIDE DEF q
    <3> QED BY <2>1, <3>1, ReturnShape DEF Shape, TypeOK, Room1
  <2>3. CASE p # NULL /\ ~NothingStored /\ StartFind(p)
    <3>1. len \in Nat /\ cap \in Nat /\ len <= cap
      BY SizeAssumption DEF Shape, TypeOK, Room1
    <3>2. cap > 0 /\ p \in Pair
      BY <2>3, <3>1 DEF NothingStored
    <3>3. live' = TRUE /\ hasher \in Hashers
      BY <2>1 DEF Shape, TypeOK
    <3> QED BY <2>1, <2>3, <3>1, <3>2, <3>3, FindShape DEF Shape, TypeOK
  <2> QED BY <1>6, <2>2, <2>3 DEF StartLookup
<1>7. CASE hmap_rehash
  <2>1. PICK f \in Hashers :
             \/ len > 0 /\ Return(FALSE, NULL) /\ UNCHANGED hasher
             \/ len > 0 /\ StartMove(cap, f) /\ UNCHANGED hasher
             \/ len = 0 /\ hasher' = f /\ Return(TRUE, NULL)
    BY <1>7 DEF hmap_rehash
  <2>2. /\ UNCHANGED <<live, len, cap, mem>> /\ UNCHANGED nullHashed
        /\ op' = "rehash" /\ arg' = NULL /\ live /\ f # NULL
    BY <1>7, NullAssumption DEF hmap_rehash, Call
  <2>3. CASE Return(FALSE, NULL) /\ UNCHANGED hasher
    BY <2>2, <2>3, ReturnShape DEF Shape, TypeOK, Room1
  <2>4. CASE hasher' = f /\ Return(TRUE, NULL)
    BY <2>2, <2>4, ReturnShape DEF Shape, TypeOK, Room1
  <2>5. CASE len > 0 /\ StartMove(cap, f) /\ UNCHANGED hasher
    <3>1. cap \in 0 .. MaxCap /\ cap > 0 /\ cap <= cap
      BY <2>5, SizeAssumption DEF Shape, TypeOK, Room1
    <3> QED BY <2>2, <2>5, <3>1, MoveShape
  <2> QED BY <2>1, <2>3, <2>4, <2>5
<1> QED BY <1>1, <1>2, <1>3, <1>4, <1>5, <1>6, <1>7 DEF Start

LEMMA FindStepShape == Shape /\ Find => Shape'
<1> SUFFICES ASSUME Shape, Find PROVE Shape'
  OBVIOUS
<1>1. CASE FindNext
  BY <1>1, NextProbeType DEF FindNext, table, move, Shape, TypeOK, Room1
<1> DEFINE Kept == UNCHANGED <<live, cap, hasher, op, arg, nullHashed>>
<1>a. ASSUME pc = "find" PROVE found.pair \in Pair \cup {NULL}
  BY <1>a, InFind DEF Slot
<1>b. ASSUME NEW s \in Slot, Store(s), pc = "find" PROVE mem' \in [0 .. cap - 1 -> Slot]
  BY <1>b DEF Store, Shape, TypeOK
<1>c. ASSUME UNCHANGED mem PROVE mem' \in [0 .. cap - 1 -> Slot]
  BY <1>c DEF Shape, TypeOK
<1>d. ASSUME pc = "find" PROVE Entry \in Slot
  BY <1>d, InFind DEF Entry, Slot, Shape, TypeOK
<1>2. CASE EndPut
  <2>1. pc = "find" /\ FindEnds("put") /\ Kept /\ Return(TRUE, found.pair) /\ len' = Counted
    BY <1>2 DEF EndPut, FindEnds
  <2>2. mem' \in [0 .. cap - 1 -> Slot]
    BY <1>2, <2>1, <1>b, <1>d DEF EndPut
  <2> QED BY <2>1, <2>2, <1>a, StoreShape
<1>3. CASE EndPutIfAbsent
  <2>1. /\ pc = "find" /\ FindEnds("put_if_absent") /\ Kept
        /\ Return(IsVacant(found), NULL) /\ len' = Counted
    BY <1>3 DEF EndPutIfAbsent, FindEnds
  <2>2. mem' \in [0 .. cap - 1 -> Slot]
    BY <1>3, <2>1, <1>b, <1>c, <1>d DEF EndPutIfAbsent
  <2>3. IsVacant(found) \in BOOLEAN
    BY DEF IsVacant
  <2> QED BY <2>1, <2>2, <2>3, StoreShape
<1>4. CASE EndRemove
  <2>1. /\ pc = "find" /\ FindEnds("remove") /\ Kept /\ len' = len
        /\ Return(found.pair # NULL, found.pair)
    BY <1>4 DEF EndRemove, FindEnds, ReturnPointer
  <2>2. Vacant \in Slot
    BY SizeAssumption DEF Vacant, Slot, SizeT
  <2>3. mem' \in [0 .. cap - 1 -> Slot]
    BY <1>4, <2>1, <2>2, <1>b, <1>c DEF EndRemove
  <2> QED BY <2>1, <2>3, <1>a, StoreShape
<1>5. CASE EndReplace
  <2>1. /\ pc = "find" /\ FindEnds("replace") /\ Kept /\ len' = len
        /\ Return(found.pair # NULL, found.pair)
    BY <1>5 DEF EndReplace, FindEnds, ReturnPointer
  <2>2. [found EXCEPT !.pair = arg] \in Slot
    BY <2>1, InFind DEF Slot
  <2>3. mem' \in [0 .. cap - 1 -> Slot]
    BY <1>5, <2>1, <2>2, <1>b, <1>c DEF EndReplace
  <2> QED BY <2>1, <2>3, <1>a, StoreShape
<1>6. CASE EndGet
  <2>1. /\ pc = "find" /\ FindEnds("get") /\ Kept /\ len' = len /\ UNCHANGED mem
        /\ Return(found.pair # NULL, found.pair)
    BY <1>6 DEF EndGet, FindEnds, ReturnPointer, table
  <2> QED BY <2>1, <1>a, <1>c, StoreShape
<1>7. CASE EndGetOrDefault
  <2> DEFINE q == IF IsVacant(found) THEN arg ELSE found.pair
  <2>1. /\ pc = "find" /\ FindEnds("get_or_default") /\ Kept /\ len' = len /\ UNCHANGED mem
        /\ Return(q # NULL, q)
    BY <1>7 DEF EndGetOrDefault, FindEnds, ReturnPointer, table
  <2>2. q \in Pair \cup {NULL}
    BY <2>1, <1>a, InFind
  <2> HIDE DEF q
  <2> QED BY <2>1, <2>2, <1>c, StoreShape
<1> QED BY <1>1, <1>2, <1>3, <1>4, <1>5, <1>6, <1>7 DEF Find

LEMMA MoveStepShape == Shape /\ Move => Shape'
<1> SUFFICES ASSUME Shape, Move PROVE Shape'
  OBVIOUS
<1>1. CASE MoveVacant
  <2>1. i' \in 0 .. cap /\ k' \in SizeT /\ code' \in SizeT
    BY <1>1, NextSourceType DEF MoveVacant, Moving, Shape, TypeOK
  <2> QED BY <1>1, <2>1 DEF MoveVacant, Moving, table, Shape, TypeOK, Room1
<1>2. CASE MovePlace
  <2>1. [hash |-> MovedHash, pair |-> mem[i].pair] \in Slot
    BY <1>2, InMove DEF MovePlace, Slot
  <2>2. fresh' \in [0 .. fcap - 1 -> Slot]
    BY <1>2, <2>1 DEF MovePlace, Shape, TypeOK
  <2>3. i' \in 0 .. cap /\ k' \in SizeT /\ code' \in SizeT
    BY <1>2, NextSourceType DEF MovePlace, Moving, Shape, TypeOK
  <2>4. UNCHANGED <<live, len, cap, mem, hasher, pc, op, arg, ret, fn, fcap, nullHashed>> /\ pc = "move"
    BY <1>2 DEF MovePlace, Moving, table
  <2> QED BY <2>2, <2>3, <2>4 DEF Shape, TypeOK, Room1
<1>3. CASE MoveNext
  BY <1>3, NextProbeType DEF MoveNext, table, move, Shape, TypeOK, Room1
<1>4. CASE MoveDone
  <2>1. /\ mem' = fresh /\ cap' = fcap /\ pc = "move" /\ hasher' \in Hashers /\ live
        /\ UNCHANGED <<live, len, op, arg, nullHashed>>
    BY <1>4 DEF MoveDone, Shape, TypeOK
  <2>2. /\ cap' \in 0 .. MaxCap /\ cap' > 0 /\ mem' \in [0 .. cap' - 1 -> Slot]
        /\ len' \in Nat /\ len' <= cap' /\ nullHashed' \in BOOLEAN
        /\ (op \in {"put", "put_if_absent"} => arg \in Pair /\ len < fcap)
    BY <2>1, SizeAssumption DEF Shape, TypeOK, Room1
  <2>3. CASE op \in {"put", "put_if_absent"}
    <3>1. StartFind(arg) /\ hasher' = hasher
      BY <1>4, <2>3 DEF MoveDone
    <3> QED BY <2>1, <2>2, <2>3, <3>1, FindShape DEF Shape, TypeOK
  <2>4. CASE op \notin {"put", "put_if_absent"}
    <3>1. Return(TRUE, NULL)
      BY <1>4, <2>4 DEF MoveDone
    <3>2. hasher' # NULL /\ arg' \in Pair \cup {NULL} /\ live'
      BY <2>1, NullAssumption DEF Shape, TypeOK
    <3> QED BY <2>1, <2>2, <3>1, <3>2, ReturnShape
  <2> QED BY <2>3, <2>4
<1> QED BY <1>1, <1>2, <1>3, <1>4 DEF Move

LEMMA ShapeStep == Shape /\ GrowKeepsPromise /\ [Next]_vars => Shape'
<1> SUFFICES ASSUME Shape, GrowKeepsPromise, [Next]_vars PROVE Shape'
  OBVIOUS
<1>1. CASE UNCHANGED vars
  BY <1>1 DEF vars, table, search, move, Shape, TypeOK, Room1
<1> QED BY <1>1, StartShape, FindStepShape, MoveStepShape DEF Next

(* If HMAP_GROW keeps its promise for the sizes asked for, every field and *)
(* local keeps its type: no address is taken outside a block or in an      *)
(* empty one (hash_map.c:50, 84).                                          *)
THEOREM TypeCorrect == GrowKeepsPromise => (Spec => []TypeOK)
<1> SUFFICES ASSUME GrowKeepsPromise PROVE Spec => []TypeOK
  OBVIOUS
<1>1. Shape /\ [Next]_vars => Shape'
  BY ShapeStep
<1>2. Shape => TypeOK
  BY DEF Shape
<1> QED BY <1>1, <1>2, InitShape, PTL DEF Spec

-----------------------------------------------------------------------------
(* Occupied slots.                                                         *)

LEMMA OccupiedFinite ==
  ASSUME NEW cc \in Nat, NEW block \in [0 .. cc - 1 -> Slot]
  PROVE  /\ Occupied(block) \subseteq 0 .. cc - 1
         /\ IsFiniteSet(Occupied(block))
         /\ Cardinality(Occupied(block)) \in Nat
<1>1. Occupied(block) \subseteq 0 .. cc - 1
  BY DEF Occupied
<1>2. IsFiniteSet(0 .. cc - 1)
  BY FS_Interval
<1>3. IsFiniteSet(Occupied(block))
  BY <1>1, <1>2, FS_Subset
<1> QED BY <1>1, <1>3, FS_CardinalityType

LEMMA OccupiedEmpty == ASSUME NEW cc PROVE Occupied(EmptyBlock(cc)) = {}
BY DEF Occupied, EmptyBlock, Vacant

LEMMA OccupiedStore ==
  ASSUME NEW cc \in Nat, NEW block \in [0 .. cc - 1 -> Slot],
         NEW j \in 0 .. cc - 1, NEW s
  PROVE  Occupied([block EXCEPT ![j] = s]) =
           IF s.pair = NULL THEN Occupied(block) \ {j} ELSE Occupied(block) \cup {j}
BY DEF Occupied

LEMMA MemFinite ==
  ASSUME Shape
  PROVE  /\ cap \in Nat /\ mem \in [0 .. cap - 1 -> Slot]
         /\ IsFiniteSet(Occupied(mem)) /\ Cardinality(Occupied(mem)) \in Nat
         /\ IsFiniteSet(Passed) /\ Cardinality(Passed) \in Nat
         /\ Cardinality(Passed) <= Cardinality(Occupied(mem))
<1>1. cap \in Nat /\ mem \in [0 .. cap - 1 -> Slot]
  BY SizeAssumption DEF Shape, TypeOK
<1>2. IsFiniteSet(Occupied(mem)) /\ Cardinality(Occupied(mem)) \in Nat
  BY <1>1, OccupiedFinite
<1>3. Passed \in SUBSET Occupied(mem)
  BY DEF Passed
<1> QED BY <1>1, <1>2, <1>3, FS_Subset, FS_CardinalityType

-----------------------------------------------------------------------------
(* What the slots hold: no more pairs than len, each with its hash code,   *)
(* and in the new block what was passed of the old one, with the codes of  *)
(* the hash function that will be the map's.                               *)
NextHasher == IF fn = NULL THEN hasher ELSE fn

Stored ==
  /\ Cardinality(Occupied(mem)) <= len
  /\ HashesCurrent
  /\ NothingLost
  /\ pc = "move" =>
       \A j \in Occupied(fresh) : fresh[j].hash = NextHasher[fresh[j].pair.key]

LEMMA QuietStored ==
  ASSUME Stored, UNCHANGED <<mem, len, hasher>>, pc' # "move"
  PROVE  Stored'
BY DEF Stored, HashesCurrent, NothingLost

LEMMA EmptyStored ==
  ASSUME Occupied(mem)' = {}, len' \in Nat, pc' # "move"
  PROVE  Stored'
BY FS_EmptySet DEF Stored, HashesCurrent, NothingLost

LEMMA CarriedStored ==
  ASSUME Stored, UNCHANGED <<mem, len, hasher, fresh, fn, pc>>, Passed' = Passed
  PROVE  Stored'
<1>1. (Cardinality(Occupied(mem)) <= len)' /\ HashesCurrent'
  BY DEF Stored, HashesCurrent
<1>2. NothingLost'
  <2>1. NothingLost
    BY DEF Stored
  <2>2. {mem[j].pair : j \in Passed}' = {mem[j].pair : j \in Passed}
    OBVIOUS
  <2>3. {fresh[j].pair : j \in Occupied(fresh)}' = {fresh[j].pair : j \in Occupied(fresh)}
    OBVIOUS
  <2> QED BY <2>1, <2>2, <2>3 DEF NothingLost
<1>3. NextHasher' = NextHasher
  BY DEF NextHasher
<1> QED BY <1>1, <1>2, <1>3 DEF Stored

LEMMA MoveStored ==
  ASSUME Shape, Stored, UNCHANGED <<mem, len, hasher>>, NEW cc, NEW f, StartMove(cc, f)
  PROVE  Stored'
<1>1. fresh' = EmptyBlock(cc) /\ i' = 0
  BY NextSourceType DEF StartMove
<1>2. Occupied(fresh)' = {}
  BY <1>1, OccupiedEmpty
<1>3. Passed' = {}
  <2>1. Occupied(mem)' \subseteq Nat
    BY MemFinite DEF Occupied
  <2> QED BY <1>1, <2>1 DEF Passed
<1>4. HashesCurrent' /\ (Cardinality(Occupied(mem)) <= len)'
  BY DEF Stored, HashesCurrent
<1>5. NothingLost'
  BY <1>2, <1>3 DEF NothingLost
<1> QED BY <1>2, <1>4, <1>5 DEF Stored

(* Storing slot s where a search ended.                                    *)
LEMMA StoreStored ==
  ASSUME Shape, Stored, pc = "find", NEW s, Store(s), pc' # "move",
         UNCHANGED hasher, s.pair # NULL => s.hash = hasher[s.pair.key],
         \/ len' = len /\ (s.pair = NULL \/ found.pair # NULL)
         \/ len' = len + 1
  PROVE  Stored'
<1>1. /\ cap \in Nat /\ mem \in [0 .. cap - 1 -> Slot] /\ slot \in 0 .. cap - 1
      /\ len \in Nat
  BY MemFinite, InFind
<1> DEFINE O == Occupied(mem)
<1>2. mem' = [mem EXCEPT ![slot] = s]
  BY DEF Store
<1>3. Occupied(mem)' = IF s.pair = NULL THEN O \ {slot} ELSE O \cup {slot}
  <2>1. Occupied([mem EXCEPT ![slot] = s]) =
          IF s.pair = NULL THEN O \ {slot} ELSE O \cup {slot}
    BY <1>1 DEF Occupied
  <2> QED BY <1>2, <2>1 DEF Occupied
<1>4. (Cardinality(Occupied(mem)) <= len)'
  <2>1. Cardinality(O \ {slot}) <= Cardinality(O)
    <3>1. O \ {slot} \in SUBSET O
      OBVIOUS
    <3> QED BY <3>1, MemFinite, FS_Subset
  <2>2. Cardinality(O \cup {slot}) =
          IF slot \in O THEN Cardinality(O) ELSE Cardinality(O) + 1
    BY MemFinite, FS_AddElement
  <2>3. slot \in O <=> found.pair # NULL
    BY <1>1 DEF Occupied, found
  <2>4. Cardinality(O \ {slot}) \in Nat /\ Cardinality(O) \in Nat /\ Cardinality(O) <= len
    BY MemFinite, FS_RemoveElement, FS_CardinalityType DEF Stored
  <2> QED BY <1>1, <1>3, <2>1, <2>2, <2>3, <2>4
<1>5. HashesCurrent'
  <2> SUFFICES ASSUME NEW j \in Occupied(mem)'
               PROVE  mem'[j].hash = hasher[mem'[j].pair.key]
    BY DEF HashesCurrent
  <2>1. CASE j = slot
    BY <1>1, <1>2, <1>3, <2>1
  <2>2. CASE j # slot
    BY <1>1, <1>2, <1>3, <2>2 DEF Stored, HashesCurrent
  <2> QED BY <2>1, <2>2
<1> QED BY <1>4, <1>5 DEF Stored, NothingLost

LEMMA StartStored == Shape /\ Stored /\ Start => Stored'
<1> SUFFICES ASSUME Shape, Stored, Start PROVE Stored'
  OBVIOUS
<1>1. CASE init_hmap
  <2>1. CASE UNCHANGED <<table, nullHashed>> /\ Return(FALSE, NULL)
    BY <2>1, QuietStored DEF table, Return
  <2>2. CASE len' = 0 /\ mem' = EmptyBlock(0) /\ Return(TRUE, NULL)
    BY <2>2, OccupiedEmpty, EmptyStored DEF Return
  <2> QED BY <1>1, <2>1, <2>2 DEF init_hmap
<1>2. CASE free_hmap
  <2>1. CASE cap > 0
    BY <1>2, <2>1, OccupiedEmpty, EmptyStored DEF free_hmap, Return
  <2>2. CASE ~(cap > 0)
    BY <1>2, <2>2, QuietStored DEF free_hmap, Return
  <2> QED BY <2>1, <2>2
<1>3. CASE hmap_clear
  BY <1>3, OccupiedEmpty, EmptyStored DEF hmap_clear, Return
<1>4. CASE hmap_ensure_capacity
  <2>1. UNCHANGED <<mem, len, hasher>>
    BY <1>4 DEF hmap_ensure_capacity, table
  <2>2. pc' # "move" \/ \E cc, f : StartMove(cc, f)
    BY <1>4 DEF hmap_ensure_capacity, GrowTo, Return
  <2> QED BY <2>1, <2>2, QuietStored, MoveStored
<1>5. ASSUME NEW p \in Pair \cup {NULL}, NEW o \in {"put", "put_if_absent"}, StartPut(o, p)
      PROVE  Stored'
  <2>1. UNCHANGED <<mem, len, hasher>>
    BY <1>5 DEF StartPut, table
  <2>2. pc' # "move" \/ \E cc, f : StartMove(cc, f)
    BY <1>5 DEF StartPut, GrowTo, Return, StartFind
  <2> QED BY <2>1, <2>2, QuietStored, MoveStored
<1>6. ASSUME NEW p \in Pair \cup {NULL},
             NEW o \in {"remove", "replace", "get", "get_or_default"}, StartLookup(o, p)
      PROVE  Stored'
  BY <1>6, QuietStored DEF StartLookup, ReturnPointer, Return, StartFind, table
<1>7. CASE hmap_rehash
  <2>1. UNCHANGED <<mem, len>>
    BY <1>7 DEF hmap_rehash
  <2>2. \/ UNCHANGED hasher /\ pc' # "move"
        \/ UNCHANGED hasher /\ \E cc, f : StartMove(cc, f)
        \/ len = 0 /\ pc' # "move"
    BY <1>7 DEF hmap_rehash, Return
  <2>3. CASE len = 0 /\ pc' # "move"
    <3>1. Occupied(mem) = {}
      BY <2>3, MemFinite, FS_EmptySet DEF Stored
    <3> QED BY <2>1, <2>3, <3>1, EmptyStored
  <2> QED BY <2>1, <2>2, <2>3, QuietStored, MoveStored
<1> QED BY <1>1, <1>2, <1>3, <1>4, <1>5, <1>6, <1>7 DEF Start

LEMMA FindStored == Shape /\ Stored /\ Find => Stored'
<1> SUFFICES ASSUME Shape, Stored, Find PROVE Stored'
  OBVIOUS
<1>a. pc = "find" /\ code = hasher[arg.key] /\ arg # NULL
  BY DEF Find, FindNext, FindEnds, EndPut, EndPutIfAbsent, EndRemove, EndReplace,
         EndGet, EndGetOrDefault, Shape, TypeOK
<1>b. Entry.pair = arg /\ Entry.hash = hasher[arg.key]
  BY <1>a DEF Entry
<1>1. CASE FindNext
  BY <1>1, QuietStored DEF FindNext, table
<1>2. CASE EndPut
  <2>1. /\ Store(Entry) /\ pc' # "move" /\ UNCHANGED hasher
        /\ (len' = len /\ found.pair # NULL) \/ len' = len + 1
    BY <1>2 DEF EndPut, Return, Counted, IsVacant
  <2> QED BY <1>a, <1>b, <2>1, StoreStored
<1>3. CASE EndPutIfAbsent
  <2>1. pc' # "move" /\ UNCHANGED hasher
    BY <1>3 DEF EndPutIfAbsent, Return
  <2>2. CASE IsVacant(found)
    <3>1. Store(Entry) /\ len' = len + 1
      BY <1>3, <2>2 DEF EndPutIfAbsent, Counted
    <3> QED BY <1>a, <1>b, <2>1, <3>1, StoreStored
  <2>3. CASE ~IsVacant(found)
    BY <1>3, <2>1, <2>3, QuietStored DEF EndPutIfAbsent, Counted
  <2> QED BY <2>2, <2>3
<1>4. CASE EndRemove
  <2>1. pc' # "move" /\ UNCHANGED <<len, hasher>>
    BY <1>4 DEF EndRemove, ReturnPointer, Return
  <2>2. CASE IsVacant(found)
    BY <1>4, <2>1, <2>2, QuietStored DEF EndRemove
  <2>3. CASE ~IsVacant(found)
    <3>1. Store(Vacant) /\ Vacant.pair = NULL
      BY <1>4, <2>3 DEF EndRemove, Vacant
    <3> QED BY <1>a, <2>1, <3>1, StoreStored
  <2> QED BY <2>2, <2>3
<1>5. CASE EndReplace
  <2>1. pc' # "move" /\ UNCHANGED <<len, hasher>>
    BY <1>5 DEF EndReplace, ReturnPointer, Return
  <2>2. CASE IsVacant(found)
    BY <1>5, <2>1, <2>2, QuietStored DEF EndReplace
  <2>3. CASE ~IsVacant(found)
    <3> DEFINE s == [found EXCEPT !.pair = arg]
    <3>1. Store(s) /\ found.pair # NULL /\ found.hash = code
      BY <1>5, <2>3 DEF EndReplace, IsVacant, FindEnds, Stops, Matches
    <3>2. s.hash = found.hash /\ s.pair = arg
      BY <1>a, InFind DEF Slot
    <3> HIDE DEF s
    <3> QED BY <1>a, <2>1, <3>1, <3>2, StoreStored
  <2> QED BY <2>2, <2>3
<1>6. CASE EndGet
  BY <1>6, QuietStored DEF EndGet, ReturnPointer, Return, table
<1>7. CASE EndGetOrDefault
  BY <1>7, QuietStored DEF EndGetOrDefault, ReturnPointer, Return, table
<1> QED BY <1>1, <1>2, <1>3, <1>4, <1>5, <1>6, <1>7 DEF Find

LEMMA MoveStepStored == Shape /\ Stored /\ Move => Stored'
<1> SUFFICES ASSUME Shape, Stored, Move PROVE Stored'
  OBVIOUS
<1>a. fcap \in Nat /\ fresh \in [0 .. fcap - 1 -> Slot] /\ i \in Nat
  BY SizeAssumption, MemFinite DEF Shape, TypeOK
<1>b. pc = "move"
  BY DEF Move, MoveVacant, MovePlace, MoveNext, MoveDone, Moving
<1>c. Occupied(mem) \subseteq Nat
  BY MemFinite DEF Occupied
<1>1. CASE MoveVacant
  <2>1. UNCHANGED <<mem, len, hasher, fresh, fn, pc>> /\ i' = i + 1
    BY <1>1, NextSourceType DEF MoveVacant, table
  <2>2. Passed' = Passed
    <3>1. i \notin Occupied(mem)
      BY <1>1 DEF MoveVacant, IsVacant, Occupied
    <3>2. \A j \in Occupied(mem) : j < i + 1 <=> j < i
      BY <1>a, <1>c, <3>1
    <3> QED BY <2>1, <3>2 DEF Passed
  <2> QED BY <2>1, <2>2, CarriedStored
<1>2. CASE MovePlace
  <2> DEFINE s == [hash |-> MovedHash, pair |-> mem[i].pair]
  <2>1. /\ UNCHANGED <<mem, len, hasher, fn, pc>> /\ i' = i + 1
        /\ fresh' = [fresh EXCEPT ![target] = s]
    BY <1>2, NextSourceType DEF MovePlace, table
  <2>2. /\ target \in 0 .. fcap - 1 /\ i \in 0 .. cap - 1
        /\ mem[i].pair \in Pair /\ mem[i].pair # NULL
    BY <1>2, InMove, NullAssumption DEF MovePlace
  <2>3. Occupied(fresh)' = Occupied(fresh) \cup {target} /\ target \notin Occupied(fresh)
    <3>1. s.pair # NULL
      BY <2>2
    <3>2. Occupied([fresh EXCEPT ![target] = s]) = Occupied(fresh) \cup {target}
      <4> HIDE DEF s
      <4> QED BY <1>a, <2>2, <3>1 DEF Occupied
    <3>3. target \notin Occupied(fresh)
      BY <1>2 DEF MovePlace, Placeable, IsVacant, Occupied
    <3> QED BY <2>1, <3>2, <3>3
  <2>4. Passed' = Passed \cup {i} /\ i \notin Passed
    <3>1. i \in Occupied(mem)
      BY <2>2, MemFinite DEF Occupied
    <3>2. \A j \in Occupied(mem) : j < i + 1 <=> (j < i \/ j = i)
      BY <1>a, <1>c
    <3>3. Passed' = {j \in Occupied(mem) : j < i + 1}
      BY <2>1 DEF Passed
    <3>4. {j \in Occupied(mem) : j < i + 1} = Passed \cup {i}
      BY <3>1, <3>2 DEF Passed
    <3>5. i \notin Passed
      BY <1>a DEF Passed
    <3> QED BY <3>3, <3>4, <3>5
  <2>5. (Cardinality(Occupied(fresh)) = Cardinality(Passed))'
    <3>1. Cardinality(Occupied(fresh)) = Cardinality(Passed)
      BY <1>b DEF Stored, NothingLost
    <3>2. IsFiniteSet(Occupied(fresh)) /\ IsFiniteSet(Passed)
      BY <1>a, OccupiedFinite, MemFinite
    <3>3. Cardinality(Occupied(fresh) \cup {target}) = Cardinality(Occupied(fresh)) + 1
      BY <2>3, <3>2, FS_AddElement
    <3>4. Cardinality(Passed \cup {i}) = Cardinality(Passed) + 1
      BY <2>4, <3>2, FS_AddElement
    <3> QED BY <2>3, <2>4, <3>1, <3>3, <3>4
  <2>6. \A j \in Occupied(fresh) : fresh'[j] = fresh[j]
    BY <1>a, <2>1, <2>3 DEF Occupied
  <2>7. fresh'[target] = s
    BY <1>a, <2>1, <2>2
  <2>8. ({fresh[j].pair : j \in Occupied(fresh)} = {mem[j].pair : j \in Passed})'
    <3>1. {fresh[j].pair : j \in Occupied(fresh)} = {mem[j].pair : j \in Passed}
      BY <1>b DEF Stored, NothingLost
    <3>2. {fresh[j].pair : j \in Occupied(fresh)}' =
            {fresh[j].pair : j \in Occupied(fresh)} \cup {mem[i].pair}
      BY <2>3, <2>6, <2>7
    <3>3. {mem[j].pair : j \in Passed}' = {mem[j].pair : j \in Passed} \cup {mem[i].pair}
      BY <2>1, <2>4
    <3> QED BY <3>1, <3>2, <3>3
  <2>9. s.hash = NextHasher[s.pair.key]
    <3>1. i \in Occupied(mem)
      BY <2>2, MemFinite DEF Occupied
    <3>2. s.hash = IF fn = NULL THEN mem[i].hash ELSE fn[mem[i].pair.key]
      BY <2>2 DEF MovedHash, IsVacant
    <3>3. NextHasher = IF fn = NULL THEN hasher ELSE fn
      BY DEF NextHasher
    <3>4. mem[i].hash = hasher[mem[i].pair.key]
      BY <3>1 DEF Stored, HashesCurrent
    <3> QED BY <3>2, <3>3, <3>4
  <2>10. \A j \in Occupied(fresh)' : fresh'[j].hash = NextHasher'[fresh'[j].pair.key]
    <3>1. NextHasher' = NextHasher
      BY <2>1 DEF NextHasher
    <3>2. \A j \in Occupied(fresh) : fresh[j].hash = NextHasher[fresh[j].pair.key]
      BY <1>b DEF Stored
    <3> HIDE DEF s
    <3> QED BY <2>3, <2>6, <2>7, <2>9, <3>1, <3>2
  <2>11. HashesCurrent' /\ (Cardinality(Occupied(mem)) <= len)'
    BY <2>1 DEF Stored, HashesCurrent
  <2> QED BY <2>5, <2>8, <2>10, <2>11 DEF Stored, NothingLost
<1>3. CASE MoveNext
  <2>1. UNCHANGED <<mem, len, hasher, fresh, fn, pc, i>>
    BY <1>3 DEF MoveNext, table, move
  <2>2. Passed' = Passed
    BY <2>1 DEF Passed
  <2> QED BY <2>1, <2>2, CarriedStored
<1>4. CASE MoveDone
  <2>1. mem' = fresh /\ len' = len /\ pc' # "move" /\ hasher' = NextHasher
    BY <1>4 DEF MoveDone, StartFind, Return, NextHasher, Shape, TypeOK
  <2>2. (Cardinality(Occupied(mem)) <= len)'
    <3>1. Cardinality(Occupied(fresh)) = Cardinality(Passed) /\ Cardinality(Occupied(mem)) <= len
      BY <1>b DEF Stored, NothingLost
    <3>2. len \in Nat
      BY DEF Shape, TypeOK
    <3> QED BY <2>1, <3>1, <3>2, MemFinite
  <2>3. HashesCurrent'
    BY <1>b, <2>1 DEF Stored, HashesCurrent
  <2> QED BY <2>1, <2>2, <2>3 DEF Stored, NothingLost
<1> QED BY <1>1, <1>2, <1>3, <1>4 DEF Move

-----------------------------------------------------------------------------
Safe == Shape /\ Stored

LEMMA InitSafe == Init => Safe
<1> SUFFICES ASSUME Init PROVE Safe
  OBVIOUS
<1>1. Occupied(mem) = {} /\ len = 0 /\ pc = "idle"
  BY OccupiedEmpty DEF Init
<1>2. Stored
  BY <1>1, FS_EmptySet DEF Stored, HashesCurrent, NothingLost
<1> QED BY <1>2, InitShape DEF Safe

LEMMA SafeStep == Safe /\ GrowKeepsPromise /\ [Next]_vars => Safe'
<1> SUFFICES ASSUME Safe, GrowKeepsPromise, [Next]_vars PROVE Safe'
  OBVIOUS
<1>1. CASE UNCHANGED vars
  <2>1. UNCHANGED <<mem, len, hasher, fresh, fn, pc, i>>
    BY <1>1 DEF vars, table, move
  <2>2. Passed' = Passed
    BY <2>1 DEF Passed
  <2> QED BY <2>1, <2>2, CarriedStored, ShapeStep DEF Safe
<1>2. CASE Next
  BY <1>2, StartStored, FindStored, MoveStepStored, ShapeStep DEF Next, Safe
<1> QED BY <1>1, <1>2

(* However many removes came before, the table holds at most len pairs and *)
(* len is at most cap.                                                     *)
THEOREM LenBounded == GrowKeepsPromise => (Spec => []LenBounds)
<1> SUFFICES ASSUME GrowKeepsPromise PROVE Spec => []LenBounds
  OBVIOUS
<1>1. Safe /\ [Next]_vars => Safe'
  BY SafeStep
<1>2. Safe => LenBounds
  BY DEF Safe, Shape, Room1, Stored, LenBounds
<1> QED BY <1>1, <1>2, InitSafe, PTL DEF Spec

(* The hash code kept in an occupied slot is always the current hash       *)
(* function's, so comparing codes first (hash_map.c:88) misses no key.     *)
THEOREM HashesAlwaysCurrent == GrowKeepsPromise => (Spec => []HashesCurrent)
<1> SUFFICES ASSUME GrowKeepsPromise PROVE Spec => []HashesCurrent
  OBVIOUS
<1>1. Safe /\ [Next]_vars => Safe'
  BY SafeStep
<1>2. Safe => HashesCurrent
  BY DEF Safe, Stored
<1> QED BY <1>1, <1>2, InitSafe, PTL DEF Spec

(* put and put_if_absent always search a table with a vacant slot, so the  *)
(* endless loop of find_bucket (hash_map.c:81) is never theirs.            *)
THEOREM PutAlwaysHasRoom == GrowKeepsPromise => (Spec => []PutHasRoom)
<1> SUFFICES ASSUME GrowKeepsPromise PROVE Spec => []PutHasRoom
  OBVIOUS
<1>1. Safe /\ [Next]_vars => Safe'
  BY SafeStep
<1>2. Safe => PutHasRoom
  <2> SUFFICES ASSUME Safe, pc = "find", op \in {"put", "put_if_absent"},
                      Occupied(mem) = 0 .. cap - 1
               PROVE  FALSE
    BY DEF PutHasRoom
  <2>1. cap \in Nat /\ len \in Nat /\ len < cap /\ Cardinality(0 .. cap - 1) <= len
    BY MemFinite DEF Safe, Shape, TypeOK, Room1, Stored
  <2>2. Cardinality(0 .. cap - 1) = cap
    BY <2>1, FS_Interval
  <2> QED BY <2>1, <2>2
<1> QED BY <1>1, <1>2, InitSafe, PTL DEF Spec

(* A growing or rehashing table loses no pair and stores none twice.       *)
THEOREM MoveLosesNothing == GrowKeepsPromise => (Spec => []NothingLost)
<1> SUFFICES ASSUME GrowKeepsPromise PROVE Spec => []NothingLost
  OBVIOUS
<1>1. Safe /\ [Next]_vars => Safe'
  BY SafeStep
<1>2. Safe => NothingLost
  BY DEF Safe, Stored
<1> QED BY <1>1, <1>2, InitSafe, PTL DEF Spec

-----------------------------------------------------------------------------
(* A search probes in order and stops at the first slot that stops it, so  *)
(* a lookup of the same key ends at the same slot, if nothing before that  *)
(* slot has changed.  This needs no chain to be whole: it holds where      *)
(* removes broke some.                                                     *)
Tried ==
  pc = "find" => \A m \in 0 .. k - 1 : ~Stops(mem[Bucket(code, m, cap)], code, arg)

LEMMA TriedStep == Safe /\ Tried /\ [Next]_vars => Tried'
<1> SUFFICES ASSUME Safe, Tried, [Next]_vars PROVE Tried'
  OBVIOUS
<1>0. \A m \in 0 .. 0 - 1 : FALSE
  OBVIOUS
<1>1. CASE UNCHANGED vars
  BY <1>1 DEF vars, table, search, Tried, Stops, Matches, Bucket
<1>2. CASE Start
  <2>1. pc' = "find" => k' = 0
    BY <1>2 DEF Start, init_hmap, free_hmap, hmap_clear, hmap_ensure_capacity, hmap_rehash,
                StartPut, StartLookup, GrowTo, StartMove, StartFind, Return, ReturnPointer
  <2> QED BY <1>0, <2>1 DEF Tried
<1>3. CASE FindNext
  <2>1. /\ pc = "find" /\ UNCHANGED <<mem, cap, code, arg>> /\ k' = (k + 1) % SizeMod
        /\ ~Stops(mem[Bucket(code, k, cap)], code, arg)
    BY <1>3 DEF FindNext, table, found, slot
  <2>2. k \in 0 .. SizeMod - 1 /\ SizeMod \in Nat
    BY SizeAssumption DEF Safe, Shape, TypeOK, SizeT
  <2>3. \A m \in 0 .. k' - 1 : m \in 0 .. k - 1 \/ m = k
    <3>1. CASE k + 1 = SizeMod
      BY <2>1, <2>2, <3>1
    <3>2. CASE k + 1 # SizeMod
      BY <2>1, <2>2, <3>2
    <3> QED BY <3>1, <3>2
  <2>4. \A m \in 0 .. k' - 1 : ~Stops(mem[Bucket(code, m, cap)], code, arg)
    BY <2>1, <2>3 DEF Tried
  <2> QED BY <2>1, <2>4 DEF Tried
<1>4. CASE Find /\ ~FindNext
  <2>1. pc' = "idle"
    BY <1>4 DEF Find, EndPut, EndPutIfAbsent, EndRemove, EndReplace, EndGet, EndGetOrDefault,
                Return, ReturnPointer
  <2> QED BY <2>1 DEF Tried
<1>5. CASE MoveDone
  <2>1. pc' = "find" => k' = 0
    BY <1>5 DEF MoveDone, StartFind, Return
  <2> QED BY <1>0, <2>1 DEF Tried
<1>6. CASE Move /\ ~MoveDone
  <2>1. pc' = "move"
    BY <1>6 DEF Move, MoveVacant, MovePlace, MoveNext, Moving
  <2> QED BY <2>1 DEF Tried
<1> QED BY <1>1, <1>2, <1>3, <1>4, <1>5, <1>6 DEF Next

(* The probes that stop a lookup, and the first of them.                   *)
StopsFor(block, c, h, key) ==
  {m \in SizeT : Stops(block[Bucket(h, m, c)], h, [key |-> key])}
LeastOf(S) == CHOOSE n \in S : \A m \in S : n <= m

LEMMA LeastIs ==
  ASSUME NEW S \in SUBSET Nat, NEW n \in S, \A m \in S : n <= m
  PROVE  LeastOf(S) = n
<1>1. \A x \in S : (\A m \in S : x <= m) => x = n
  <2> SUFFICES ASSUME NEW x \in S, \A m \in S : x <= m PROVE x = n
    OBVIOUS
  <2>1. x <= n /\ n <= x /\ x \in Nat /\ n \in Nat
    OBVIOUS
  <2> QED BY <2>1
<1> QED BY <1>1 DEF LeastOf

LEMMA LookupIs ==
  ASSUME NEW block, NEW c, NEW h, NEW p, NEW n \in SizeT,
         Stops(block[Bucket(h, n, c)], h, p),
         \A m \in 0 .. n - 1 : ~Stops(block[Bucket(h, m, c)], h, p)
  PROVE  n \in StopsFor(block, c, h, p.key) /\ LeastOf(StopsFor(block, c, h, p.key)) = n
<1> DEFINE stops == StopsFor(block, c, h, p.key)
<1>1. \A s : Stops(s, h, [key |-> p.key]) <=> Stops(s, h, p)
  BY DEF Stops, Matches
<1>2. n \in stops /\ stops \in SUBSET Nat
  BY <1>1, SizeAssumption DEF SizeT, StopsFor
<1>3. \A m \in stops : n <= m
  <2> SUFFICES ASSUME NEW m \in SizeT, Stops(block[Bucket(h, m, c)], h, p) PROVE ~(m < n)
    BY <1>1, <1>2 DEF StopsFor
  <2>1. m \in Nat /\ n \in Nat
    BY SizeAssumption DEF SizeT
  <2> QED BY <2>1
<1> HIDE DEF stops
<1>4. LeastOf(stops) = n
  BY <1>2, <1>3, LeastIs
<1> QED BY <1>2, <1>4 DEF stops

(* After a call that stopped at slot, whatever it stored there, a lookup   *)
(* of the call's key comes to that slot again.                             *)
LEMMA LookupAfter ==
  ASSUME Safe, Tried, pc = "find", Stops(found, code, arg), UNCHANGED <<cap, hasher, arg>>,
         NEW s, mem' = [mem EXCEPT ![slot] = s], Stops(s, code, arg),
         len' \in Nat, s.pair # NULL => len' >= 1
  PROVE  Lookup(arg.key)' = s.pair
<1>1. /\ mem \in [0 .. cap - 1 -> Slot] /\ slot \in 0 .. cap - 1 /\ k \in SizeT
      /\ code = hasher[arg.key]
  BY InFind DEF Safe, Shape, TypeOK
<1>2. mem'[slot] = s /\ slot = Bucket(code, k, cap) /\ found = mem[slot]
  BY <1>1 DEF slot, found
<1>3. \A x : x # slot => mem'[x] = mem[x]
  BY <1>1
<1>4. \A m \in 0 .. k - 1 : ~Stops(mem'[Bucket(code, m, cap)], code, arg)
  <2> SUFFICES ASSUME NEW m \in 0 .. k - 1
               PROVE  ~Stops(mem'[Bucket(code, m, cap)], code, arg)
    OBVIOUS
  <2>1. ~Stops(mem[Bucket(code, m, cap)], code, arg)
    BY DEF Tried
  <2>2. Bucket(code, m, cap) # slot
    BY <1>2, <2>1
  <2> QED BY <1>3, <2>1, <2>2
<1> DEFINE stops == StopsFor(mem', cap, code, arg.key)
<1>5. k \in stops /\ LeastOf(stops) = k
  <2>1. Stops(mem'[Bucket(code, k, cap)], code, arg)
    BY <1>2
  <2>2. PICK block : block = mem'
    OBVIOUS
  <2>3. /\ Stops(block[Bucket(code, k, cap)], code, arg)
        /\ \A m \in 0 .. k - 1 : ~Stops(block[Bucket(code, m, cap)], code, arg)
    BY <1>4, <2>1, <2>2
  <2>4. k \in StopsFor(block, cap, code, arg.key) /\ LeastOf(StopsFor(block, cap, code, arg.key)) = k
    BY <1>1, <2>3, LookupIs
  <2> QED BY <2>2, <2>4
<1>6. Lookup(arg.key)' =
        IF len' < 1 \/ stops = {} THEN NULL ELSE mem'[Bucket(code, LeastOf(stops), cap)].pair
  BY <1>1 DEF Lookup, StopsFor, LeastOf
<1>7. mem'[Bucket(code, LeastOf(stops), cap)].pair = s.pair
  BY <1>2, <1>5
<1>8. len' < 1 => s.pair = NULL
  OBVIOUS
<1> HIDE DEF stops
<1> QED BY <1>5, <1>6, <1>7, <1>8

LEMMA FoundCounts ==
  ASSUME Safe, pc = "find", found.pair # NULL
  PROVE  len >= 1
<1>1. slot \in Occupied(mem)
  BY InFind, MemFinite DEF Safe, Occupied, found
<1>2. Cardinality(Occupied(mem)) # 0
  BY <1>1, MemFinite, FS_EmptySet DEF Safe
<1> QED BY <1>2, MemFinite, InFind DEF Safe, Stored

TakesEffect ==
  \/ op = "put" /\ Lookup(arg.key)' = arg
  \/ op = "put_if_absent" /\ (IF ret'.ok THEN Lookup(arg.key)' = arg
                                         ELSE Lookup(arg.key)' # NULL)
  \/ op = "remove" /\ Lookup(arg.key)' = NULL
  \/ op = "replace" /\ Lookup(arg.key)' = (IF ret'.ok THEN arg ELSE NULL)
  \/ op \in {"get", "get_or_default"}

LEMMA FindTakesEffect == Safe /\ Tried /\ Find /\ pc' = "idle" => TakesEffect
<1> SUFFICES ASSUME Safe, Tried, Find, pc' = "idle" PROVE TakesEffect
  OBVIOUS
<1>a. pc = "find"
  BY DEF Find, FindNext, FindEnds, EndPut, EndPutIfAbsent, EndRemove, EndReplace,
         EndGet, EndGetOrDefault
<1>b. /\ arg \in Pair /\ arg # NULL /\ len \in Nat /\ found = mem[slot] /\ found \in Slot
      /\ mem \in [0 .. cap - 1 -> Slot]
  BY <1>a, InFind, NullAssumption, MemFinite DEF Safe, found
<1>c. Matches(Entry, code, arg) /\ Entry.pair = arg
  BY <1>b DEF Matches, Entry
<1>d. mem = [mem EXCEPT ![slot] = found]
  BY <1>b
<1>e. len >= 1 \/ found.pair = NULL
  BY <1>a, FoundCounts
<1>1. CASE FindNext
  BY <1>1, <1>a DEF FindNext
<1>2. CASE EndPut
  <2>1. /\ op = "put" /\ Stops(found, code, arg) /\ UNCHANGED <<cap, hasher, arg>>
        /\ mem' = [mem EXCEPT ![slot] = Entry] /\ len' = Counted
    BY <1>2 DEF EndPut, FindEnds, Store
  <2>2. len' \in Nat /\ len' >= 1
    BY <1>b, <1>e, <2>1 DEF Counted, IsVacant
  <2>3. Lookup(arg.key)' = Entry.pair
    BY <1>a, <1>c, <2>1, <2>2, LookupAfter DEF Stops
  <2> QED BY <1>c, <2>1, <2>3 DEF TakesEffect
<1>3. CASE EndPutIfAbsent
  <2>1. /\ op = "put_if_absent" /\ Stops(found, code, arg) /\ UNCHANGED <<cap, hasher, arg>>
        /\ ret'.ok = IsVacant(found) /\ len' = Counted
    BY <1>3 DEF EndPutIfAbsent, FindEnds, Return, Answer
  <2>2. len' \in Nat /\ len' >= 1
    BY <1>b, <1>e, <2>1 DEF Counted, IsVacant
  <2>3. CASE IsVacant(found)
    <3>1. mem' = [mem EXCEPT ![slot] = Entry]
      BY <1>3, <2>3 DEF EndPutIfAbsent, Store
    <3>2. Lookup(arg.key)' = Entry.pair
      BY <1>a, <1>c, <2>1, <2>2, <3>1, LookupAfter DEF Stops
    <3> QED BY <1>c, <2>1, <2>3, <3>2 DEF TakesEffect
  <2>4. CASE ~IsVacant(found)
    <3>1. mem' = [mem EXCEPT ![slot] = found]
      BY <1>3, <1>d, <2>4 DEF EndPutIfAbsent
    <3>2. Lookup(arg.key)' = found.pair
      BY <1>a, <2>1, <2>2, <3>1, LookupAfter
    <3> QED BY <2>1, <2>4, <3>2 DEF TakesEffect, IsVacant
  <2> QED BY <2>3, <2>4
<1>4. CASE EndRemove
  <2>1. op = "remove" /\ Stops(found, code, arg) /\ UNCHANGED <<cap, hasher, arg, len>>
    BY <1>4 DEF EndRemove, FindEnds
  <2>2. Stops(Vacant, code, arg) /\ Vacant.pair = NULL
    BY DEF Stops, Vacant
  <2>3. PICK s : mem' = [mem EXCEPT ![slot] = s] /\ s.pair = NULL /\ Stops(s, code, arg)
    <3>1. CASE IsVacant(found)
      BY <1>4, <1>d, <2>1, <3>1 DEF EndRemove, IsVacant
    <3>2. CASE ~IsVacant(found)
      BY <1>4, <2>2, <3>2 DEF EndRemove, Store
    <3> QED BY <3>1, <3>2
  <2>4. Lookup(arg.key)' = s.pair
    BY <1>a, <1>b, <2>1, <2>3, LookupAfter
  <2> QED BY <2>1, <2>3, <2>4 DEF TakesEffect
<1>5. CASE EndReplace
  <2>1. /\ op = "replace" /\ Stops(found, code, arg) /\ UNCHANGED <<cap, hasher, arg, len>>
        /\ ret'.ok = (found.pair # NULL)
    BY <1>5 DEF EndReplace, FindEnds, ReturnPointer, Return, Answer
  <2>2. CASE IsVacant(found)
    <3>1. mem' = [mem EXCEPT ![slot] = found]
      BY <1>5, <1>d, <2>2 DEF EndReplace
    <3>2. Lookup(arg.key)' = found.pair
      BY <1>a, <1>b, <2>1, <2>2, <3>1, LookupAfter DEF IsVacant
    <3> QED BY <2>1, <2>2, <3>2 DEF TakesEffect, IsVacant
  <2>3. CASE ~IsVacant(found)
    <3>1. PICK s : s = [found EXCEPT !.pair = arg]
      OBVIOUS
    <3>2. s.pair = arg /\ s.hash = found.hash
      BY <1>b, <3>1 DEF Slot
    <3>3. mem' = [mem EXCEPT ![slot] = s]
      BY <1>5, <2>3, <3>1 DEF EndReplace, Store
    <3>4. Stops(s, code, arg)
      BY <1>b, <2>1, <2>3, <3>2 DEF Stops, Matches, IsVacant
    <3>5. Lookup(arg.key)' = s.pair
      BY <1>a, <1>b, <1>e, <2>1, <2>3, <3>3, <3>4, LookupAfter DEF IsVacant
    <3> QED BY <2>1, <2>3, <3>2, <3>5 DEF TakesEffect, IsVacant
  <2> QED BY <2>2, <2>3
<1>6. CASE EndGet
  BY <1>6 DEF EndGet, FindEnds, TakesEffect
<1>7. CASE EndGetOrDefault
  BY <1>7 DEF EndGetOrDefault, FindEnds, TakesEffect
<1> QED BY <1>1, <1>2, <1>3, <1>4, <1>5, <1>6, <1>7 DEF Find

(* What a finished call says is so for the next lookup of its key: a put   *)
(* pair is found and a removed key is not, for every table, also one where *)
(* removes broke probe chains (hash_map.c:81).                             *)
THEOREM CallsHaveEffect == GrowKeepsPromise => (Spec => CallsTakeEffect)
<1> SUFFICES ASSUME GrowKeepsPromise PROVE Spec => CallsTakeEffect
  OBVIOUS
<1>1. Init => Safe /\ Tried
  BY InitSafe DEF Init, Tried
<1>2. Safe /\ Tried /\ [Next]_vars => (Safe /\ Tried)'
  BY SafeStep, TriedStep
<1>3. Safe /\ Tried /\ [Next]_vars => (pc = "find" /\ pc' = "idle" => TakesEffect)
  <2> SUFFICES ASSUME Safe, Tried, [Next]_vars, pc = "find", pc' = "idle" PROVE TakesEffect
    OBVIOUS
  <2>1. Find
    BY DEF Next, Start, init_hmap, free_hmap, hmap_clear, hmap_ensure_capacity, hmap_rehash,
           StartPut, StartLookup, Call, Move, MoveVacant, MovePlace, MoveNext, MoveDone,
           Moving, vars
  <2> QED BY <2>1, FindTakesEffect
<1>4. Safe /\ Tried /\ [Next]_vars =>
        [pc = "find" /\ pc' = "idle" =>
           \/ op = "put" /\ Lookup(arg.key)' = arg
           \/ op = "put_if_absent" /\ (IF ret'.ok THEN Lookup(arg.key)' = arg
                                                   ELSE Lookup(arg.key)' # NULL)
           \/ op = "remove" /\ Lookup(arg.key)' = NULL
           \/ op = "replace" /\ Lookup(arg.key)' = (IF ret'.ok THEN arg ELSE NULL)
           \/ op \in {"get", "get_or_default"}]_vars
  BY <1>3 DEF TakesEffect
<1> QED BY <1>1, <1>2, <1>4, PTL DEF Spec, CallsTakeEffect

=============================================================================
