------------------------------ MODULE BlocksProofs ------------------------------
(***************************************************************************)
(* Theorems about the array list and the string buffer, for every growth   *)
(* macro that gives at least what is asked for, and all lengths.           *)
(***************************************************************************)
EXTENDS MCBlocks, FiniteSetTheorems, SequenceTheorems, TLAPS

(* The array list.                                                         *)
ListInv == cap \in Nat /\ List!BlockSafe

LEMMA ListBlock ==
  ASSUME ListInv
  PROVE  /\ len \in Nat /\ cap \in Nat /\ len <= cap /\ mem \in [0 .. cap - 1 -> Elems \cup {Junk}]
         /\ DOMAIN mem = 0 .. cap - 1
         /\ \A j \in 0 .. len - 1 : mem[j] \in Elems
         /\ \A j : List!Slot(j) \in Elems \cup {Junk}
         /\ \A j \in 0 .. cap - 1 : List!Slot(j) = mem[j]
BY DEF ListInv, List!BlockSafe, List!Written, List!Slot

LEMMA NoneIsSafe ==
  ASSUME List!Written', cap' \in Nat, fault' = "none"
  PROVE  ListInv'
BY DEF ListInv, List!BlockSafe, List!LeavesBlock

LEMMA ListRoom ==
  ASSUME ListInv, NEW n \in 0 .. MaxLen, NEW room \in List!CapFor(n, 0)
  PROVE  /\ room \in Nat /\ room >= n /\ room >= len
         /\ List!BlockOf(room) \in [0 .. room - 1 -> Elems \cup {Junk}]
         /\ \A j \in 0 .. len - 1 : List!BlockOf(room)[j] = mem[j]
<1>1. /\ len \in Nat /\ cap \in Nat /\ len <= cap
      /\ mem \in [0 .. cap - 1 -> Elems \cup {Junk}]
      /\ \A j : List!Slot(j) \in Elems \cup {Junk}
      /\ \A j \in 0 .. cap - 1 : List!Slot(j) = mem[j]
  BY ListBlock
<1>2. CASE room = cap
  <2>1. room >= n
    BY <1>1, <1>2, GrowAssumption, MaxAssumption DEF List!CapFor, List!Enough
  <2> QED BY <1>1, <1>2, <2>1 DEF List!BlockOf
<1>3. CASE room # cap
  <2>1. n > cap /\ room = GROW(n)
    BY <1>1, <1>3, MaxAssumption DEF List!CapFor, List!Enough
  <2>2. room \in Nat /\ room >= n
    BY <1>1, <2>1, GrowAssumption, MaxAssumption
  <2>3. List!BlockOf(room) = [j \in 0 .. room - 1 |-> List!Slot(j)]
    BY <1>3 DEF List!BlockOf, List!Resized
  <2> QED BY <1>1, <2>1, <2>2, <2>3, MaxAssumption
<1> QED BY <1>2, <1>3

LEMMA ListFree ==
  ASSUME ListInv, List!FreeIt \/ List!Released, fault' = "none"
  PROVE  ListInv'
<1>1. CASE List!Released
  <2>1. cap' = 0 /\ len' = 0 /\ mem' \in [0 .. 0 - 1 -> Elems \cup {Junk}]
    BY <1>1 DEF List!Released, List!NoBlock
  <2> QED BY <2>1, NoneIsSafe DEF List!Written
<1>2. CASE UNCHANGED List!fields
  <2>1. List!Written' /\ cap' \in Nat
    BY <1>2 DEF List!fields, List!Written, ListInv, List!BlockSafe
  <2> QED BY <2>1, NoneIsSafe
<1> QED BY <1>1, <1>2 DEF List!FreeIt

LEMMA ListSame ==
  ASSUME ListInv, UNCHANGED List!fields, fault' = "none"
  PROVE  ListInv'
BY NoneIsSafe DEF List!fields, List!Written, ListInv, List!BlockSafe

LEMMA ListRefuse == ListInv /\ List!Refuse => ListInv'
BY ListSame DEF List!Refuse, List!Return

LEMMA ListStep == ListInv /\ List!Next => ListInv'
<1> SUFFICES ASSUME ListInv, List!Next PROVE ListInv'
  OBVIOUS
<1>0. /\ len \in Nat /\ cap \in Nat /\ len <= cap
      /\ mem \in [0 .. cap - 1 -> Elems \cup {Junk}] /\ DOMAIN mem = 0 .. cap - 1
      /\ \A j \in 0 .. len - 1 : mem[j] \in Elems
      /\ \A j : List!Slot(j) \in Elems \cup {Junk}
      /\ \A j \in 0 .. cap - 1 : List!Slot(j) = mem[j]
  BY ListBlock
<1>1. CASE List!arrlist_ensure_capacity
  <2>1. PICK n \in 0 .. MaxLen :
          \/ List!Refuse
          \/ \E room \in List!CapFor(n, 0) :
               cap' = room /\ mem' = List!BlockOf(room) /\ UNCHANGED len /\ List!Succeed({})
    BY <1>1 DEF List!arrlist_ensure_capacity, List!EnsureCapacity, List!NoRoom
  <2>2. ASSUME NEW room \in List!CapFor(n, 0), cap' = room, mem' = List!BlockOf(room),
               UNCHANGED len, List!Succeed({})
        PROVE  ListInv'
    <3>1. List!Written' /\ cap' \in Nat
      BY <1>0, <2>2, ListRoom DEF List!Written
    <3> QED BY <2>2, <3>1, NoneIsSafe DEF List!Succeed, List!Return
  <2> QED BY <2>1, <2>2, ListRefuse
<1>2. CASE List!arrlist_compact
  <2>1. fault' = "none"
    BY <1>2 DEF List!arrlist_compact, List!Compact, List!Succeed, List!Return
  <2>2. CASE cap' = len /\ mem' = List!Resized(len + 0) /\ UNCHANGED len
    <3>1. List!Written' /\ cap' \in Nat
      BY <1>0, <2>2 DEF List!Written, List!Resized
    <3> QED BY <2>1, <3>1, NoneIsSafe
  <2> QED BY <1>2, <2>1, <2>2, ListFree, ListSame DEF List!arrlist_compact, List!Compact
<1>3. CASE List!cpy_free_arrlist
  BY <1>3, ListFree DEF List!cpy_free_arrlist, List!CpyFree
<1>4. CASE List!free_arrlist
  BY <1>4, ListFree DEF List!free_arrlist, List!Free, List!Succeed, List!Return
<1>5. CASE List!arrlist_clear
  <2>1. fault' = "none" /\ len' = 0 /\ UNCHANGED <<cap, mem>>
    BY <1>5 DEF List!arrlist_clear, List!Succeed, List!Return
  <2> QED BY <1>0, <2>1, NoneIsSafe DEF List!Written
<1>6. CASE List!arrlist_add
  <2>1. PICK e \in Elems :
          /\ len < MaxLen
          /\ \/ List!Refuse
             \/ \E room \in List!CapFor(len + 1, 0) :
                  /\ cap' = room /\ mem' = [List!BlockOf(room) EXCEPT ![len] = e]
                  /\ len' = len + 1 /\ List!Succeed({len})
    BY <1>6 DEF List!arrlist_add, List!NoRoom
  <2>2. ASSUME NEW room \in List!CapFor(len + 1, 0), len' = len + 1, cap' = room,
               mem' = [List!BlockOf(room) EXCEPT ![len] = e], List!Succeed({len})
        PROVE  ListInv'
    <3>1. len + 1 \in 0 .. MaxLen
      BY <1>0, <2>1, MaxAssumption
    <3>2. /\ room \in Nat /\ room >= len + 1
          /\ List!BlockOf(room) \in [0 .. room - 1 -> Elems \cup {Junk}]
          /\ \A j \in 0 .. len - 1 : List!BlockOf(room)[j] = mem[j]
      BY <2>2, <3>1, ListRoom
    <3>3. mem' \in [0 .. room - 1 -> Elems \cup {Junk}] /\ len \in 0 .. room - 1
      BY <1>0, <2>2, <3>2
    <3>4. \A j \in 0 .. len' - 1 : mem'[j] \in Elems
      BY <1>0, <2>2, <3>2
    <3>5. fault' = "none"
      BY <2>2, <3>3 DEF List!Succeed, List!Return
    <3> QED BY <1>0, <2>2, <3>2, <3>3, <3>4, <3>5, NoneIsSafe DEF List!Written
  <2> QED BY <2>1, <2>2, ListRefuse
<1>7. CASE List!arrlist_insert
  <2>1. PICK at \in 0 .. MaxLen + 1, e \in Elems :
          /\ len < MaxLen
          /\ \/ List!Refuse
             \/ /\ at <= len
                /\ \E room \in List!CapFor(len + 1, 0) :
                     /\ cap' = room
                     /\ mem' = [j \in 0 .. room - 1 |->
                                  IF j = at THEN e
                                  ELSE List!Slot(IF List!MovesUp(j, at) THEN j - 1 ELSE j)]
                     /\ len' = len + 1 /\ List!Succeed(at .. len)
    BY <1>7 DEF List!arrlist_insert, List!NoRoom
  <2>2. ASSUME at <= len, NEW room \in List!CapFor(len + 1, 0), len' = len + 1, cap' = room,
               mem' = [j \in 0 .. room - 1 |->
                         IF j = at THEN e
                         ELSE List!Slot(IF List!MovesUp(j, at) THEN j - 1 ELSE j)],
               List!Succeed(at .. len)
        PROVE  ListInv'
    <3>1. len + 1 \in 0 .. MaxLen
      BY <1>0, <2>1, MaxAssumption
    <3>2. room \in Nat /\ room >= len + 1
      BY <2>2, <3>1, ListRoom
    <3>3. mem' \in [0 .. room - 1 -> Elems \cup {Junk}] /\ at .. len \subseteq 0 .. room - 1
      BY <1>0, <2>1, <2>2, <3>2, MaxAssumption
    <3>4. \A j \in 0 .. len' - 1 : mem'[j] \in Elems
      BY <1>0, <2>1, <2>2, <3>2, MaxAssumption DEF List!MovesUp
    <3>5. fault' = "none"
      BY <2>2, <3>3 DEF List!Succeed, List!Return
    <3> QED BY <1>0, <2>2, <3>2, <3>3, <3>4, <3>5, NoneIsSafe DEF List!Written
  <2> QED BY <2>1, <2>2, ListRefuse
<1>8. CASE List!arrlist_set
  <2>1. PICK at \in 0 .. MaxLen, e \in Elems :
          \/ List!Refuse
          \/ /\ at < len /\ mem' = [mem EXCEPT ![at] = e] /\ UNCHANGED <<len, cap>>
             /\ List!Return(TRUE, 0, <<mem[at]>>, {at})
    BY <1>8 DEF List!arrlist_set
  <2>2. CASE /\ at < len /\ mem' = [mem EXCEPT ![at] = e] /\ UNCHANGED <<len, cap>>
             /\ List!Return(TRUE, 0, <<mem[at]>>, {at})
    <3>1. List!Written' /\ at \in DOMAIN mem'
      BY <1>0, <2>1, <2>2, MaxAssumption DEF List!Written
    <3> QED BY <1>0, <2>2, <3>1, NoneIsSafe DEF List!Return
  <2> QED BY <2>1, <2>2, ListRefuse
<1>9. ASSUME NEW o \in {"remove", "remove_first", "remove_last"}, NEW at \in Int, List!RemoveOne(o, at)
      PROVE  ListInv'
  <2>1. CASE List!Refuse
    BY <2>1, ListRefuse
  <2>2. CASE /\ at \in 0 .. len - 1
             /\ mem' = [j \in DOMAIN mem |->
                          IF List!MovesDown(j, at) THEN List!Slot(j + 1) ELSE mem[j]]
             /\ len' = len - 1 /\ UNCHANGED cap /\ List!Return(TRUE, 0, <<mem[at]>>, at .. List!LastRead)
    <3>1. List!Written'
      BY <1>0, <2>2 DEF List!Written, List!MovesDown
    <3>2. fault' \in {"none", "outside"} /\ (fault' = "outside" => ~(at .. len + 1 \subseteq 0 .. cap - 1))
      BY <1>0, <2>2 DEF List!Return, List!LastRead
    <3>3. fault' = "outside" => cap' <= len' + 2
      BY <1>0, <2>2, <3>2
    <3>4. op' = o
      BY <1>9 DEF List!RemoveOne, List!Called
    <3> QED BY <1>0, <2>2, <3>1, <3>2, <3>3, <3>4 DEF ListInv, List!BlockSafe, List!LeavesBlock
  <2> QED BY <1>9, <2>1, <2>2 DEF List!RemoveOne
<1>10. CASE List!arrlist_reverse
  <2>1. /\ mem' = [j \in DOMAIN mem |-> mem[IF j < len THEN len - j - 1 ELSE j]]
        /\ UNCHANGED <<len, cap>> /\ List!Succeed(0 .. len - 1)
    BY <1>10 DEF List!arrlist_reverse
  <2>2. List!Written' /\ 0 .. len - 1 \subseteq DOMAIN mem'
    BY <1>0, <2>1 DEF List!Written
  <2> QED BY <1>0, <2>1, <2>2, NoneIsSafe DEF List!Succeed, List!Return
<1>11. CASE List!arrlist_foreach
  <2>1. UNCHANGED List!fields /\ fault' = "none"
    BY <1>0, <1>11 DEF List!arrlist_foreach, List!Return, List!fields
  <2> QED BY <2>1, ListSame
<1>12. CASE List!arrlist_remove \/ List!arrlist_remove_first \/ List!arrlist_remove_last
  <2>1. len - 1 \in Int /\ 0 \in Int /\ \A at \in 0 .. MaxLen : at \in Int
    BY <1>0
  <2> QED BY <1>9, <1>12, <2>1 DEF List!arrlist_remove, List!arrlist_remove_first, List!arrlist_remove_last
<1> QED BY <1>1, <1>2, <1>3, <1>4, <1>5, <1>6, <1>7, <1>8, <1>10, <1>11, <1>12 DEF List!Next
-------------------------------------------------------------------------------
(* The string buffer.                                                      *)
Chars == Elems \cup {NUL, Junk}

StringInv == cap \in Nat /\ String!BlockSafe

LEMMA StringBlock ==
  ASSUME StringInv
  PROVE  /\ len \in Nat /\ cap \in Nat /\ len <= cap
         /\ \E n \in {cap, cap + 1} : mem \in [0 .. n - 1 -> Chars] /\ DOMAIN mem = 0 .. n - 1
         /\ \A j \in 0 .. len - 1 : mem[j] \in Elems
         /\ \A j : String!Slot(j) \in Chars
         /\ \A j \in DOMAIN mem : String!Slot(j) = mem[j]
         /\ String!IsNull <=> DOMAIN mem = {}
<1>1. /\ len \in Nat /\ cap \in Nat /\ len <= cap
      /\ \E n \in {cap, cap + 1} : mem \in [0 .. n - 1 -> Chars] /\ DOMAIN mem = 0 .. n - 1
      /\ \A j \in 0 .. len - 1 : mem[j] \in Elems
  BY DEF StringInv, String!BlockSafe, String!Written, Chars
<1>2. \A j \in DOMAIN mem : mem[j] \in Chars
  BY <1>1
<1>3. String!IsNull <=> DOMAIN mem = {}
  BY <1>1 DEF String!IsNull, String!NoBlock
<1> QED BY <1>1, <1>2, <1>3 DEF String!Slot, Chars

(* A block of n slots with characters in the first l.                      *)
IsString(m, n, l) ==
  /\ m \in [0 .. n - 1 -> Chars] /\ DOMAIN m = 0 .. n - 1
  /\ \A j \in 0 .. l - 1 : m[j] \in Elems

LEMMA StringWritten ==
  ASSUME cap' \in Nat, len' \in 0 .. cap', NEW n \in {cap', cap' + 1}, IsString(mem', n, len')
  PROVE  String!Written'
BY DEF IsString, String!Written, Chars

LEMMA StringSafe ==
  ASSUME String!Written', cap' \in Nat, fault' = "none"
  PROVE  StringInv'
BY DEF StringInv, String!BlockSafe, String!LeavesBlock

LEMMA StringRoom ==
  ASSUME StringInv, NEW n \in 0 .. MaxLen, NEW room \in String!CapFor(n, 1)
  PROVE  /\ room \in Nat /\ room >= n /\ room >= len
         /\ \E k \in {room, room + 1} : IsString(String!BlockOf(room), k, len)
         /\ \A j \in DOMAIN mem : j \in DOMAIN String!BlockOf(room) /\ String!BlockOf(room)[j] = mem[j]
         /\ DOMAIN String!BlockOf(room) = {} => n = 0 /\ String!IsNull
         /\ room = cap => String!BlockOf(room) = mem
         /\ room # cap => room > cap /\ DOMAIN String!BlockOf(room) = 0 .. room - 1
<1>1. /\ len \in Nat /\ cap \in Nat /\ len <= cap
      /\ \E k \in {cap, cap + 1} : mem \in [0 .. k - 1 -> Chars] /\ DOMAIN mem = 0 .. k - 1
      /\ \A j \in 0 .. len - 1 : mem[j] \in Elems
      /\ \A j : String!Slot(j) \in Chars
      /\ \A j \in DOMAIN mem : String!Slot(j) = mem[j]
      /\ String!IsNull <=> DOMAIN mem = {}
  BY StringBlock
<1>2. CASE room = cap
  <2>1. room >= n
    BY <1>1, <1>2, GrowAssumption, MaxAssumption DEF String!CapFor, String!Enough
  <2>2. String!BlockOf(room) = mem
    BY <1>2 DEF String!BlockOf
  <2>3. DOMAIN mem = {} => n = 0
    BY <1>1, <1>2, <2>1
  <2> QED BY <1>1, <1>2, <2>1, <2>2, <2>3 DEF IsString
<1>3. CASE room # cap
  <2>1. n > cap /\ room = GROW(n + 1)
    BY <1>1, <1>3, MaxAssumption DEF String!CapFor, String!Enough
  <2>2. room \in Nat /\ room >= n + 1
    BY <1>1, <2>1, GrowAssumption, MaxAssumption
  <2>3. String!BlockOf(room) = [j \in 0 .. room - 1 |-> String!Slot(j)]
    BY <1>3 DEF String!BlockOf, String!Resized
  <2>4. DOMAIN mem \subseteq 0 .. room - 1 /\ 0 .. room - 1 # {} /\ 0 .. len - 1 \subseteq DOMAIN mem
    <3>1. PICK k \in {cap, cap + 1} : DOMAIN mem = 0 .. k - 1
      BY <1>1
    <3>2. n \in Nat /\ k \in Nat /\ k <= room /\ len <= k /\ room > 0
      BY <1>1, <2>1, <2>2, <3>1, MaxAssumption
    <3>3. DOMAIN mem \subseteq 0 .. room - 1 /\ 0 .. len - 1 \subseteq DOMAIN mem
      BY <1>1, <2>2, <3>1, <3>2
    <3>4. 0 \in 0 .. room - 1
      BY <2>2, <3>2
    <3> QED BY <3>3, <3>4
  <2>5. IsString(String!BlockOf(room), room, len)
    BY <1>1, <2>2, <2>3, <2>4 DEF IsString
  <2> QED BY <1>1, <1>3, <2>1, <2>2, <2>3, <2>4, <2>5, MaxAssumption
<1> QED BY <1>2, <1>3

LEMMA StringFree ==
  ASSUME StringInv, String!FreeIt \/ String!Released, fault' = "none"
  PROVE  StringInv'
<1>1. CASE String!Released
  <2>1. cap' = 0 /\ len' = 0 /\ IsString(mem', 0, 0)
    BY <1>1 DEF String!Released, String!NoBlock, IsString
  <2> QED BY <2>1, StringSafe, StringWritten
<1>2. CASE UNCHANGED String!fields
  <2>1. String!Written' /\ cap' \in Nat
    BY <1>2 DEF String!fields, String!Written, StringInv, String!BlockSafe
  <2> QED BY <2>1, StringSafe
<1> QED BY <1>1, <1>2 DEF String!FreeIt

LEMMA StringSame ==
  ASSUME StringInv, UNCHANGED String!fields PROVE String!Written' /\ cap' \in Nat
BY DEF String!fields, String!Written, StringInv, String!BlockSafe

LEMMA StringRefuse == StringInv /\ String!Refuse => StringInv'
BY StringSame, StringSafe DEF String!Refuse, String!Return

LEMMA SameCardinality == \A S : String!Cardinality(S) = Cardinality(S)
BY DEF String!Cardinality, Cardinality

(* An append that succeeds.                                                *)
LEMMA StringAppended ==
  ASSUME StringInv, NEW s \in Seq(Elems), len + Len(s) <= MaxLen,
         NEW room \in String!CapFor(len + Len(s), 1),
         cap' = room, mem' = String!Appended(String!BlockOf(room), s), len' = len + Len(s)
  PROVE  /\ String!Written' /\ cap' \in Nat
         /\ len' \in DOMAIN mem' => mem'[len'] = NUL /\ len .. len' \subseteq DOMAIN mem'
         /\ len' \notin DOMAIN mem' => String!Full'
<1> DEFINE m == String!BlockOf(room)
<1>1. len \in Nat /\ Len(s) \in Nat /\ len + Len(s) \in 0 .. MaxLen
  BY StringBlock, MaxAssumption
<1>2. /\ room \in Nat /\ room >= len + Len(s)
      /\ \E k \in {room, room + 1} : IsString(m, k, len)
  BY <1>1, StringRoom
<1>3. PICK k \in {room, room + 1} : IsString(m, k, len)
  BY <1>2
<1> HIDE DEF m
<1>4. mem' = [j \in 0 .. k - 1 |->
                IF j = len + Len(s) THEN NUL
                ELSE IF j \in len .. len + Len(s) - 1 THEN s[j - len + 1] ELSE m[j]]
  BY <1>3 DEF String!Appended, String!Terminate, String!Placed, m, IsString
<1>5. \A j \in len .. len + Len(s) - 1 : s[j - len + 1] \in Elems
  <2> SUFFICES ASSUME NEW j \in len .. len + Len(s) - 1 PROVE s[j - len + 1] \in Elems
    OBVIOUS
  <2>1. j - len + 1 \in 1 .. Len(s)
    BY <1>1
  <2> QED BY <2>1
<1>6. IsString(mem', k, len')
  BY <1>1, <1>2, <1>3, <1>4, <1>5 DEF IsString, Chars
<1>7. String!Written' /\ cap' \in Nat
  BY <1>1, <1>2, <1>6, StringWritten
<1>8. len' \in DOMAIN mem' => mem'[len'] = NUL /\ len .. len' \subseteq DOMAIN mem'
  BY <1>1, <1>2, <1>4
<1>9. ASSUME len' \notin DOMAIN mem' PROVE len' = cap' /\ Cardinality(DOMAIN mem') = cap'
  <2>1. k = room /\ len' = room /\ DOMAIN mem' = 0 .. room - 1
    BY <1>1, <1>2, <1>4, <1>9
  <2>2. Cardinality(0 .. room - 1) = room
    BY <1>2, FS_Interval
  <2> QED BY <2>1, <2>2
<1> QED BY <1>7, <1>8, <1>9, SameCardinality DEF String!Full

LEMMA TextsAreStrings == \A s \in Texts : s \in Seq(Elems)
<1> SUFFICES ASSUME NEW s \in Texts PROVE s \in Seq(Elems)
  OBVIOUS
<1>1. <<>> \in Seq(Elems) /\ \A x, y \in Elems : <<x, y>> \in Seq(Elems)
  OBVIOUS
<1>2. s = <<>> \/ \E x, y \in Elems : s = <<x, y>>
  BY DEF Texts
<1> QED BY <1>1, <1>2

(* What happens to the block in every call, with the answers that are      *)
(* given when it is left: all that BlockSafe and KeepsTerminator need.     *)
LEMMA StringStep == StringInv /\ String!Next => StringInv' /\ String!KeepsTerminator
<1> SUFFICES ASSUME StringInv, String!Next PROVE StringInv' /\ String!KeepsTerminator
  OBVIOUS
<1>0. /\ len \in Nat /\ cap \in Nat /\ len <= cap
      /\ \E n \in {cap, cap + 1} : mem \in [0 .. n - 1 -> Chars] /\ DOMAIN mem = 0 .. n - 1
      /\ \A j \in 0 .. len - 1 : mem[j] \in Elems
      /\ \A j : String!Slot(j) \in Chars
      /\ \A j \in DOMAIN mem : String!Slot(j) = mem[j]
      /\ String!IsNull <=> DOMAIN mem = {}
  BY StringBlock
<1>a. ASSUME UNCHANGED String!fields, op' # "add_last" \/ ~ret'.ok PROVE String!KeepsTerminator
  BY <1>a DEF String!KeepsTerminator, String!Terminated, String!IsNull, String!Slot, String!NoBlock,
              String!fields
<1>b. ASSUME String!FreeIt \/ String!Released, op' # "add_last" PROVE String!KeepsTerminator
  BY <1>a, <1>b DEF String!KeepsTerminator, String!Terminated, String!IsNull, String!FreeIt, String!Released,
                    String!NoBlock
<1>c. ASSUME String!Refuse PROVE StringInv' /\ String!KeepsTerminator
  <2>1. UNCHANGED String!fields /\ ~ret'.ok
    BY <1>c DEF String!Refuse, String!Return, String!Reply
  <2> QED BY <1>a, <1>c, <2>1, StringRefuse
<1>1. CASE String!strbuf_ensure_capacity
  <2>1. PICK n \in 0 .. MaxLen :
          /\ op' = "ensure_capacity"
          /\ \/ String!Refuse
             \/ \E room \in String!CapFor(n, 1) :
                  cap' = room /\ mem' = String!BlockOf(room) /\ UNCHANGED len /\ String!Succeed({})
    BY <1>1 DEF String!strbuf_ensure_capacity, String!EnsureCapacity, String!NoRoom, String!Called
  <2>2. ASSUME NEW room \in String!CapFor(n, 1), cap' = room, mem' = String!BlockOf(room),
               UNCHANGED len, String!Succeed({})
        PROVE  StringInv' /\ String!KeepsTerminator
    <3>1. /\ room \in Nat /\ room >= len
          /\ \E k \in {room, room + 1} : IsString(String!BlockOf(room), k, len)
          /\ \A j \in DOMAIN mem : j \in DOMAIN mem' /\ mem'[j] = mem[j]
          /\ room = cap => mem' = mem
          /\ room # cap => room > cap /\ DOMAIN mem' = 0 .. room - 1
      BY <2>2, StringRoom
    <3>2. String!Written'
      BY <1>0, <2>2, <3>1, StringWritten
    <3>3. StringInv'
      BY <2>2, <3>1, <3>2, StringSafe DEF String!Succeed, String!Return
    <3>4. ASSUME String!Terminated, ~String!IsNull PROVE String!Terminated'
      <4>1. String!Slot(len) = NUL
        BY <3>4 DEF String!Terminated
      <4>2. CASE room = cap
        BY <2>2, <3>1, <4>1, <4>2 DEF String!Terminated, String!Slot
      <4>3. CASE room # cap
        <5>1. mem' = [j \in 0 .. room - 1 |-> String!Slot(j)] /\ len \in 0 .. room - 1
          BY <1>0, <2>2, <3>1, <4>3 DEF String!BlockOf, String!Resized
        <5>2. len' \in DOMAIN mem' /\ mem'[len'] = NUL
          BY <2>2, <4>1, <5>1
        <5> QED BY <5>2 DEF String!Terminated, String!Slot
      <4> QED BY <4>2, <4>3
    <3> QED BY <2>1, <3>3, <3>4 DEF String!KeepsTerminator
  <2> QED BY <1>c, <2>1, <2>2
<1>2. CASE String!strbuf_compact
  <2>1. \/ fault' = "none" /\ op' = "clear"
        \/ fault' = "none" /\ op' = "compact"
    BY <1>2 DEF String!strbuf_compact, String!Compact, String!Succeed, String!Return, String!Called
  <2>2. CASE cap # len /\ cap' = len /\ mem' = String!Resized(len + 1) /\ UNCHANGED len
    <3>1. mem' = [j \in 0 .. len |-> String!Slot(j)]
      BY <1>0, <2>2 DEF String!Resized
    <3>2. PICK n \in {cap, cap + 1} : DOMAIN mem = 0 .. n - 1
      BY <1>0
    <3>3. 0 .. len \subseteq DOMAIN mem /\ 0 .. len # {}
      <4>1. len < n /\ n \in Nat
        BY <1>0, <2>2, <3>2
      <4>2. 0 \in 0 .. len
        BY <1>0
      <4>3. 0 .. len \subseteq 0 .. n - 1
        BY <1>0, <4>1
      <4> QED BY <3>2, <4>2, <4>3, Zenon
    <3>4. IsString(mem', len + 1, len)
      BY <1>0, <3>1, <3>3 DEF IsString
    <3>5. StringInv'
      BY <1>0, <2>1, <2>2, <3>4, StringWritten, StringSafe
    <3>6. mem'[len'] = String!Slot(len) /\ len' \in DOMAIN mem' /\ ~String!IsNull
      BY <1>0, <2>2, <3>1, <3>3
    <3> QED BY <2>1, <3>5, <3>6 DEF String!KeepsTerminator, String!Terminated, String!Slot
  <2>3. CASE UNCHANGED String!fields
    BY <1>a, <2>1, <2>3, StringSame, StringSafe
  <2> QED BY <1>2, <1>b, <2>1, <2>2, <2>3, StringFree DEF String!strbuf_compact, String!Compact
<1>3. CASE String!cpy_free_strbuf
  BY <1>3, <1>b, StringFree DEF String!cpy_free_strbuf, String!CpyFree, String!Called
<1>4. CASE String!free_strbuf
  BY <1>4, <1>b, StringFree
     DEF String!free_strbuf, String!Free, String!Succeed, String!Return, String!Called
<1>5. CASE String!strbuf_copy
  <2>1. op' = "copy" /\ UNCHANGED String!fields
    BY <1>5 DEF String!strbuf_copy, String!Crash, String!Called
  <2> QED BY <1>a, <2>1, StringSame DEF StringInv, String!BlockSafe, String!LeavesBlock
<1>6. CASE String!strbuf_clear
  <2>1. CASE String!IsNull /\ String!Crash
    <3>1. op' = "clear" /\ UNCHANGED String!fields /\ fault' = "null" /\ String!IsNull'
      BY <1>6, <2>1 DEF String!strbuf_clear, String!Crash, String!Called, String!fields, String!IsNull,
                        String!NoBlock
    <3> QED BY <1>a, <3>1, StringSame DEF StringInv, String!BlockSafe, String!LeavesBlock
  <2>2. CASE /\ ~String!IsNull /\ len' = 0 /\ mem' = String!Terminate(mem, 0) /\ UNCHANGED cap
             /\ String!Succeed({0})
    <3>1. PICK n \in {cap, cap + 1} : mem \in [0 .. n - 1 -> Chars] /\ DOMAIN mem = 0 .. n - 1
      BY <1>0
    <3>2. mem' = [j \in 0 .. n - 1 |-> IF j = 0 THEN NUL ELSE mem[j]]
      BY <2>2, <3>1 DEF String!Terminate
    <3>3. n # 0 /\ n \in Nat /\ 0 \in 0 .. n - 1
      BY <1>0, <2>2, <3>1
    <3>4. IsString(mem', n, len') /\ mem'[0] = NUL /\ 0 \in DOMAIN mem'
      BY <2>2, <3>1, <3>2, <3>3 DEF IsString, Chars
    <3>5. StringInv' /\ fault' = "none"
      BY <1>0, <2>2, <3>4, StringWritten, StringSafe DEF String!Succeed, String!Return
    <3>6. op' = "clear"
      BY <1>6 DEF String!strbuf_clear, String!Called
    <3> QED BY <2>2, <3>4, <3>5, <3>6 DEF String!KeepsTerminator, String!Terminated, String!Slot
  <2> QED BY <1>6, <2>1, <2>2 DEF String!strbuf_clear
<1>7. ASSUME NEW s \in Seq(Elems), String!AppendStr(s) PROVE StringInv' /\ String!KeepsTerminator
  <2>1. len + Len(s) <= MaxLen /\ op' = "add_last" /\ arg' = String!Arg(0, s)
    BY <1>7 DEF String!AppendStr, String!Called
  <2>2. CASE String!NoRoom(len + Len(s))
    BY <1>c, <2>2 DEF String!NoRoom
  <2>3. ASSUME NEW room \in String!CapFor(len + Len(s), 1), String!BlockOf(room) = String!NoBlock, String!Crash
        PROVE  StringInv' /\ String!KeepsTerminator
    <3>1. DOMAIN String!BlockOf(room) = {} /\ len + Len(s) \in 0 .. MaxLen /\ Len(s) \in Nat
      BY <1>0, <2>1, <2>3, MaxAssumption DEF String!NoBlock
    <3>2. len + Len(s) = 0 /\ String!IsNull
      BY <2>3, <3>1, StringRoom
    <3>3. s = <<>> /\ arg'.els = <<>>
      BY <1>0, <2>1, <3>1, <3>2 DEF String!Arg
    <3>4. UNCHANGED String!fields /\ fault' = "null" /\ ~ret'.ok /\ String!IsNull'
      BY <2>3, <3>2 DEF String!Crash, String!Pending, String!fields, String!IsNull, String!NoBlock
    <3> QED BY <1>a, <2>1, <3>3, <3>4, StringSame DEF StringInv, String!BlockSafe, String!LeavesBlock
  <2>4. ASSUME NEW room \in String!CapFor(len + Len(s), 1), cap' = room,
               mem' = String!Appended(String!BlockOf(room), s), len' = len + Len(s),
               String!Succeed(len .. len + Len(s))
        PROVE  StringInv' /\ String!KeepsTerminator
    <3>1. /\ String!Written' /\ cap' \in Nat
          /\ len' \in DOMAIN mem' => mem'[len'] = NUL /\ len .. len' \subseteq DOMAIN mem'
          /\ len' \notin DOMAIN mem' => String!Full'
      BY <2>1, <2>4, StringAppended
    <3>2. /\ fault' \in {"none", "outside"}
          /\ fault' = "outside" => String!Full'
      BY <2>4, <3>1 DEF String!Succeed, String!Return
    <3>3. StringInv'
      BY <2>1, <3>1, <3>2 DEF StringInv, String!BlockSafe, String!LeavesBlock
    <3>4. String!Terminated' \/ String!Full'
      BY <3>1 DEF String!Terminated, String!Slot
    <3> QED BY <2>1, <3>3, <3>4 DEF String!KeepsTerminator
  <2> QED BY <1>7, <2>2, <2>3, <2>4 DEF String!AppendStr
<1>8. CASE String!strbuf_append_ch \/ String!strbuf_append_nstr
  <2>1. \A x \in Elems : <<x>> \in Seq(Elems)
    OBVIOUS
  <2> QED BY <1>7, <1>8, <2>1, TextsAreStrings DEF String!strbuf_append_ch, String!strbuf_append_nstr
<1> QED BY <1>1, <1>2, <1>3, <1>4, <1>5, <1>6, <1>8 DEF String!Next
-------------------------------------------------------------------------------
(* A behaviour uses one of the parts.                                      *)
BlockInv == IF part = "string" THEN StringInv ELSE ListInv

LEMMA BlockInit == PartInit => BlockInv
<1> SUFFICES ASSUME EmptyBlock PROVE BlockInv
  BY DEF PartInit
<1>1. cap = 0 /\ len = 0 /\ fault = "none" /\ mem \in [0 .. 0 - 1 -> {}]
  BY DEF EmptyBlock, NoBlock
<1>2. ListInv
  BY <1>1 DEF ListInv, List!BlockSafe, List!Written, List!LeavesBlock
<1>3. StringInv
  BY <1>1 DEF StringInv, String!BlockSafe, String!Written, String!LeavesBlock
<1> QED BY <1>2, <1>3 DEF BlockInv

LEMMA BlockSame == BlockInv /\ UNCHANGED <<part, blockvars>> => BlockInv'
BY DEF BlockInv, blockvars, fields, ListInv, List!BlockSafe, List!Written, List!LeavesBlock,
       StringInv, String!BlockSafe, String!Written, String!LeavesBlock,
       String!Full, String!IsNull, String!NoBlock

LEMMA BlockStep ==
  BlockInv /\ [PartNext]_partvars =>
    BlockInv' /\ (PartNext /\ part = "string" => String!KeepsTerminator)
<1> SUFFICES ASSUME BlockInv, [PartNext]_partvars
             PROVE  BlockInv' /\ (PartNext /\ part = "string" => String!KeepsTerminator)
  OBVIOUS
<1>1. CASE ~PartNext
  <2>1. UNCHANGED <<part, blockvars>>
    BY <1>1 DEF partvars
  <2> QED BY <1>1, <2>1, BlockSame
<1>2. CASE PartNext
  BY <1>2, BlockSame, ListStep, StringStep DEF PartNext, BlockInv
<1> QED BY <1>1, <1>2

(* What is in use of a list's or string's block was written, and no call   *)
(* leaves the block but those that array_list.c and string_buffer.c let    *)
(* do so, for every growth macro and all lengths.                          *)
THEOREM BlockIsSafe == PartSpec => []BlockSafe
<1>1. BlockInv => BlockSafe
  BY DEF BlockInv, BlockSafe, ListInv, StringInv
<1> QED BY BlockInit, BlockStep, <1>1, PTL DEF PartSpec

(* Strings that end with a terminator keep it, but for the calls of        *)
(* string_buffer.c that overwrite it or move to a new block.               *)
THEOREM TerminatorKept == PartSpec => KeepsTerminator
<1>1. BlockInv /\ [PartNext]_partvars => [part = "string" => String!KeepsTerminator]_partvars
  BY BlockStep
<1> QED BY BlockInit, BlockStep, <1>1, PTL DEF PartSpec, KeepsTerminator

-------------------------------------------------------------------------------
(* The array list and the string buffer are sequences: a call is shown to  *)
(* do to the contents of the block what Sequence lets it do.               *)

(* The block and its contents, as far as the proofs need them.             *)
Holds ==
  /\ len \in Nat /\ cap \in Nat /\ len <= cap /\ 0 .. len - 1 \subseteq DOMAIN mem
  /\ Contents \in Seq(Elems) /\ Len(Contents) = len
  /\ \A j \in 1 .. len : Contents[j] = mem[j - 1]

LEMMA BlockHolds == BlockInv => Holds
<1> SUFFICES ASSUME BlockInv PROVE Holds
  OBVIOUS
<1>1. /\ len \in Nat /\ cap \in Nat /\ len <= cap
      /\ \A j \in 0 .. len - 1 : j \in DOMAIN mem /\ mem[j] \in Elems
  <2>1. CASE part = "string"
    <3>1. StringInv
      BY <2>1 DEF BlockInv
    <3>2. PICK n \in {cap, cap + 1} : DOMAIN mem = 0 .. n - 1
      BY <3>1, StringBlock
    <3> QED BY <3>1, <3>2, StringBlock
  <2>2. CASE part # "string"
    BY <2>2, ListBlock DEF BlockInv
  <2> QED BY <2>1, <2>2
<1>2. \A j \in 1 .. len : j - 1 \in 0 .. len - 1
  BY <1>1
<1>3. Contents = [j \in 1 .. len |-> Slot(j - 1)] /\ \A j \in 1 .. len : Slot(j - 1) = mem[j - 1]
  BY <1>1, <1>2 DEF Contents, Slot
<1>4. \A j \in 1 .. len : Slot(j - 1) \in Elems
  BY <1>1, <1>2, <1>3
<1>5. Contents \in Seq(Elems) /\ Len(Contents) = len
  BY <1>1, <1>3, <1>4
<1>6. 0 .. len - 1 \subseteq DOMAIN mem
  BY <1>1
<1>7. \A j \in 1 .. len : Contents[j] = mem[j - 1]
  BY <1>3
<1> QED BY <1>1, <1>5, <1>6, <1>7 DEF Holds

-------------------------------------------------------------------------------
(* Sequences by their elements.                                            *)

(* The contents after a call, compared with a sequence.                    *)
LEMMA ContentsBecome ==
  ASSUME Holds', NEW s \in Seq(Elems), len' = Len(s),
         \A j \in 1 .. Len(s) : mem'[j - 1] = s[j]
  PROVE  Contents' = s
<1>1. Contents' \in Seq(Elems) /\ Len(Contents') = len' /\ \A j \in 1 .. len' : Contents'[j] = mem'[j - 1]
  BY DEF Holds
<1> QED BY <1>1, SeqEqual

LEMMA ContentsStay ==
  ASSUME Holds, Holds', len' = len, \A j \in 0 .. len - 1 : mem'[j] = mem[j]
  PROVE  Contents' = Contents
<1>1. Contents \in Seq(Elems) /\ len \in Nat /\ len' = Len(Contents)
  BY DEF Holds
<1>2. \A j \in 1 .. len : mem'[j - 1] = Contents[j]
  <2>1. \A j \in 1 .. len : j - 1 \in 0 .. len - 1
    BY <1>1
  <2> QED BY <2>1 DEF Holds
<1> QED BY <1>1, <1>2, ContentsBecome DEF Holds

LEMMA ContentsEmpty ==
  ASSUME Holds', len' = 0
  PROVE  Contents' = <<>>
<1>1. <<>> \in Seq(Elems) /\ Len(<<>>) = 0 /\ \A j : j \notin 1 .. 0
  OBVIOUS
<1> QED BY <1>1, ContentsBecome

LEMMA InsertedAt ==
  ASSUME NEW S, NEW s \in Seq(S), NEW at \in 0 .. Len(s), NEW e \in S
  PROVE  LET t == SubSeq(s, 1, at) \o <<e>> \o SubSeq(s, at + 1, Len(s))
         IN  /\ t \in Seq(S) /\ Len(t) = Len(s) + 1
             /\ \A j \in 1 .. Len(s) + 1 :
                  t[j] = IF j <= at THEN s[j] ELSE IF j = at + 1 THEN e ELSE s[j - 1]
<1> DEFINE left == SubSeq(s, 1, at)
           right == SubSeq(s, at + 1, Len(s))
<1>1. Len(s) \in Nat /\ at \in Nat /\ at <= Len(s)
  OBVIOUS
<1>2. left \in Seq(S) /\ Len(left) = at /\ \A j \in 1 .. at : left[j] = s[j]
  <2>1. \A j \in 1 .. at : s[j] \in S
    BY <1>1
  <2> QED BY <1>1, <2>1, SubSeqProperties
<1>3. right \in Seq(S) /\ Len(right) = Len(s) - at /\ \A j \in 1 .. Len(s) - at : right[j] = s[at + j]
  <2>1. \A j \in at + 1 .. Len(s) : s[j] \in S
    BY <1>1
  <2> QED BY <1>1, <2>1, SubSeqProperties
<1>4. <<e>> \in Seq(S) /\ Len(<<e>>) = 1 /\ <<e>>[1] = e
  OBVIOUS
<1> HIDE DEF left, right
<1>5. /\ left \o <<e>> \in Seq(S) /\ Len(left \o <<e>>) = at + 1
      /\ \A j \in 1 .. at + 1 : (left \o <<e>>)[j] = IF j <= at THEN s[j] ELSE e
  <2>1. \A j \in 1 .. at + 1 : j - at = 1 \/ j <= at
    BY <1>1
  <2> QED BY <1>1, <1>2, <1>4, <2>1, ConcatProperties
<1>6. /\ (left \o <<e>>) \o right \in Seq(S) /\ Len((left \o <<e>>) \o right) = Len(s) + 1
      /\ \A j \in 1 .. Len(s) + 1 :
           ((left \o <<e>>) \o right)[j] = IF j <= at + 1 THEN (left \o <<e>>)[j] ELSE right[j - (at + 1)]
  BY <1>1, <1>3, <1>5, ConcatProperties
<1>7. \A j \in at + 2 .. Len(s) + 1 : right[j - (at + 1)] = s[j - 1]
  <2>1. \A j \in at + 2 .. Len(s) + 1 :
          j - (at + 1) \in 1 .. Len(s) - at /\ at + (j - (at + 1)) = j - 1
    BY <1>1
  <2> QED BY <1>3, <2>1
<1>8. \A j \in 1 .. Len(s) + 1 :
        ((left \o <<e>>) \o right)[j] = IF j <= at THEN s[j] ELSE IF j = at + 1 THEN e ELSE s[j - 1]
  BY <1>1, <1>5, <1>6, <1>7
<1> QED BY <1>6, <1>8 DEF left, right

LEMMA RemovedAt ==
  ASSUME NEW S, NEW s \in Seq(S), NEW n \in 1 .. Len(s)
  PROVE  LET t == SubSeq(s, 1, n - 1) \o SubSeq(s, n + 1, Len(s))
         IN  /\ t \in Seq(S) /\ Len(t) = Len(s) - 1
             /\ \A j \in 1 .. Len(s) - 1 : t[j] = IF j < n THEN s[j] ELSE s[j + 1]
<1> DEFINE left == SubSeq(s, 1, n - 1)
           right == SubSeq(s, n + 1, Len(s))
<1>1. Len(s) \in Nat /\ n \in Nat /\ 1 <= n /\ n <= Len(s)
  OBVIOUS
<1>2. left \in Seq(S) /\ Len(left) = n - 1 /\ \A j \in 1 .. n - 1 : left[j] = s[j]
  <2>1. \A j \in 1 .. n - 1 : s[j] \in S
    BY <1>1
  <2> QED BY <1>1, <2>1, SubSeqProperties
<1>3. right \in Seq(S) /\ Len(right) = Len(s) - n /\ \A j \in 1 .. Len(s) - n : right[j] = s[n + j]
  <2>1. \A j \in n + 1 .. Len(s) : s[j] \in S
    BY <1>1
  <2> QED BY <1>1, <2>1, SubSeqProperties
<1> HIDE DEF left, right
<1>4. /\ left \o right \in Seq(S) /\ Len(left \o right) = Len(s) - 1
      /\ \A j \in 1 .. Len(s) - 1 : (left \o right)[j] = IF j <= n - 1 THEN left[j] ELSE right[j - (n - 1)]
  BY <1>1, <1>2, <1>3, ConcatProperties
<1>5. \A j \in n .. Len(s) - 1 : right[j - (n - 1)] = s[j + 1]
  <2>1. \A j \in n .. Len(s) - 1 : j - (n - 1) \in 1 .. Len(s) - n /\ n + (j - (n - 1)) = j + 1
    BY <1>1
  <2> QED BY <1>3, <2>1
<1>6. \A j \in 1 .. Len(s) - 1 : (left \o right)[j] = IF j < n THEN s[j] ELSE s[j + 1]
  BY <1>1, <1>2, <1>4, <1>5
<1> QED BY <1>4, <1>6 DEF left, right

-------------------------------------------------------------------------------
(* The calls of both.                                                      *)

(* Memory is refused.                                                      *)
LEMMA RefusedIsNoMemory ==
  ASSUME ret.done, op' \in {"add_last", "insert", "ensure_capacity"}, Refuse
  PROVE  Promise!NoMemory
BY DEF Refuse, Return, Reply, Contents, Slot, fields,
       Promise!NoMemory, Promise!Refused, Promise!Answers, Promise!Reply

LEMMA RoomIsMade ==
  ASSUME Holds, Holds', ret.done, NEW spare \in Nat, EnsureCapacity(spare)
  PROVE  Promise!NoMemory \/ Promise!Room
<1>1. PICK n \in 0 .. MaxLen :
        /\ op' = "ensure_capacity"
        /\ \/ Refuse
           \/ \E room \in CapFor(n, spare) :
                cap' = room /\ mem' = BlockOf(room) /\ UNCHANGED len /\ Succeed({})
  BY DEF EnsureCapacity, NoRoom, Called
<1>2. CASE \E room \in CapFor(n, spare) :
             cap' = room /\ mem' = BlockOf(room) /\ UNCHANGED len /\ Succeed({})
  <2>1. PICK room \in CapFor(n, spare) :
          cap' = room /\ mem' = BlockOf(room) /\ UNCHANGED len /\ Succeed({})
    BY <1>2
  <2>2. \A j \in 0 .. len - 1 : j \in DOMAIN mem /\ j \in DOMAIN mem'
    BY <2>1 DEF Holds
  <2>3. \A j \in 0 .. len - 1 : mem'[j] = mem[j]
    BY <2>1, <2>2 DEF BlockOf, Resized, Slot
  <2>4. Contents' = Contents
    BY <2>1, <2>3, ContentsStay
  <2> QED BY <1>1, <2>1, <2>4
          DEF Succeed, Return, Reply, Promise!Room, Promise!Succeeds, Promise!Answers, Promise!Reply
<1> QED BY <1>1, <1>2, RefusedIsNoMemory

LEMMA FreeEmpties ==
  ASSUME Holds, Holds', FreeIt \/ Released
  PROVE  Contents' = <<>>
<1>1. len' = 0
  BY DEF Holds, FreeIt, Released, fields
<1> QED BY <1>1, ContentsEmpty

LEMMA CompactKeeps ==
  ASSUME Holds, Holds', ret.done, NEW spare \in Nat, Compact(spare)
  PROVE  Promise!Room
<1>1. op' = "compact" /\ ret' = Reply(TRUE, 0, <<>>)
  BY DEF Compact, Called, Succeed, Return
<1>2. Contents' = Contents
  <2>1. CASE UNCHANGED fields
    BY <2>1, ContentsStay DEF fields
  <2>2. CASE len = 0 /\ FreeIt
    <3>1. Contents' = <<>>
      BY <2>2, FreeEmpties
    <3>2. Contents = <<>>
      BY <2>2, EmptySeq DEF Holds
    <3> QED BY <3>1, <3>2
  <2>3. CASE mem' = Resized(len + spare) /\ UNCHANGED len
    <3>1. \A j \in 0 .. len - 1 : j \in DOMAIN mem /\ j \in 0 .. len + spare - 1
      BY DEF Holds
    <3>2. \A j \in 0 .. len - 1 : mem'[j] = mem[j]
      <4>0. mem' = Resized(len + spare)
        BY <2>3
      <4>1. Resized(len + spare) = [j \in 0 .. len + spare - 1 |-> Slot(j)]
        BY DEF Resized, Slot, Holds
      <4>2. \A j \in 0 .. len - 1 : Slot(j) = mem[j]
        BY <3>1 DEF Slot
      <4> QED BY <3>1, <4>0, <4>1, <4>2
    <3> QED BY <2>3, <3>2, ContentsStay
  <2> QED BY <2>1, <2>2, <2>3 DEF Compact
<1> QED BY <1>1, <1>2 DEF Reply, Promise!Room, Promise!Succeeds, Promise!Answers, Promise!Reply

LEMMA FreeIsEmpty ==
  ASSUME Holds, Holds', ret.done, Free
  PROVE  Promise!Empty
BY FreeEmpties DEF Free, Called, Succeed, Return, Reply,
                   Promise!Empty, Promise!Succeeds, Promise!Answers, Promise!Reply

LEMMA HandsOver ==
  ASSUME Holds, Holds', ret.done, NEW handed, CpyFree(handed), len > 0 => handed = Contents
  PROVE  Promise!HandOver \/ Promise!NoMemory
<1>1. op' = "cpy_free"
  BY DEF CpyFree, Called
<1>2. Contents' = <<>>
  BY FreeEmpties DEF CpyFree
<1>3. CASE len = 0 /\ ret' = Reply(FALSE, 0, <<>>)
  <2>1. Contents = <<>>
    BY <1>3, EmptySeq DEF Holds
  <2> QED BY <1>1, <1>2, <1>3, <2>1
          DEF Reply, Promise!NoMemory, Promise!Refused, Promise!Answers, Promise!Reply
<1>4. CASE ret' = Reply(TRUE, len, Contents)
  BY <1>1, <1>2, <1>4 DEF Holds, Reply, Promise!HandOver, Promise!Answers, Promise!Reply
<1>5. CASE len = 0 /\ ret' = Reply(TRUE, 0, <<>>)
  <2>1. Contents = <<>>
    BY <1>5, EmptySeq DEF Holds
  <2> QED BY <1>4, <1>5, <2>1
<1> QED BY <1>3, <1>4, <1>5 DEF CpyFree

LEMMA ContentsAppended ==
  ASSUME Holds, Holds', NEW s \in Seq(Elems), len' = len + Len(s),
         \A j \in 0 .. len - 1 : mem'[j] = mem[j],
         \A j \in len .. len + Len(s) - 1 : mem'[j] = s[j - len + 1]
  PROVE  Contents' = Contents \o s
<1>1. len \in Nat /\ Contents \in Seq(Elems) /\ Len(Contents) = len /\ Len(s) \in Nat
      /\ \A j \in 1 .. len : Contents[j] = mem[j - 1]
  BY DEF Holds
<1> DEFINE t == Contents \o s
<1>2. /\ t \in Seq(Elems) /\ Len(t) = len + Len(s)
      /\ \A j \in 1 .. len + Len(s) : t[j] = IF j <= len THEN Contents[j] ELSE s[j - len]
  BY <1>1, ConcatProperties
<1> HIDE DEF t
<1>3. \A j \in 1 .. len + Len(s) : mem'[j - 1] = t[j]
  <2> SUFFICES ASSUME NEW j \in 1 .. len + Len(s) PROVE mem'[j - 1] = t[j]
    OBVIOUS
  <2>1. CASE j <= len
    BY <1>1, <1>2, <2>1
  <2>2. CASE j > len
    <3>1. j - 1 \in len .. len + Len(s) - 1 /\ (j - 1) - len + 1 = j - len
      BY <1>1, <2>2
    <3> QED BY <1>1, <1>2, <2>2, <3>1
  <2> QED BY <1>1, <2>1, <2>2
<1> QED BY <1>2, <1>3, ContentsBecome DEF t

-------------------------------------------------------------------------------
(* The array list.                                                         *)
LEMMA ListShares ==
  /\ List!arrlist_ensure_capacity => EnsureCapacity(0)
  /\ List!arrlist_compact => Compact(0)
  /\ List!cpy_free_arrlist => CpyFree(Contents)
  /\ List!free_arrlist => Free
  /\ List!Refuse => Refuse
<1> USE DEF Called, List!Called, Arg, List!Arg, Return, List!Return, Reply, List!Reply,
            Refuse, List!Refuse, fields, List!fields
<1>1. /\ \A n : List!Enough(n) = Enough(n)
      /\ \A n : List!Resized(n) = Resized(n)
      /\ \A j : List!Slot(j) = Slot(j)
      /\ List!Contents = Contents /\ List!NoBlock = NoBlock
  BY DEF List!Enough, Enough, List!Resized, Resized, List!Slot, Slot, List!Contents, Contents,
         List!NoBlock, NoBlock
<1>2. \A n, k : List!CapFor(n, k) = CapFor(n, k)
  BY <1>1 DEF List!CapFor, CapFor
<1>3. \A n : List!BlockOf(n) = BlockOf(n)
  BY <1>1 DEF List!BlockOf, BlockOf
<1>4. List!arrlist_ensure_capacity => EnsureCapacity(0)
  BY <1>1, <1>2, <1>3
     DEF List!arrlist_ensure_capacity, List!EnsureCapacity, EnsureCapacity, List!NoRoom, NoRoom,
         List!Succeed, Succeed
<1>5. (List!FreeIt => FreeIt) /\ (List!Released => Released)
  BY <1>1 DEF List!FreeIt, FreeIt, List!Released, Released
<1>6. List!arrlist_compact => Compact(0)
  BY <1>1, <1>5 DEF List!arrlist_compact, List!Compact, Compact, List!Succeed, Succeed
<1>7. List!cpy_free_arrlist => CpyFree(Contents)
  BY <1>1, <1>5 DEF List!cpy_free_arrlist, List!CpyFree, CpyFree
<1>8. List!free_arrlist => Free
  BY <1>5 DEF List!free_arrlist, List!Free, Free, List!Succeed, Succeed
<1>9. List!Refuse => Refuse
  OBVIOUS
<1> QED BY <1>4, <1>6, <1>7, <1>8, <1>9

LEMMA ListAdds ==
  ASSUME ListInv, Holds, Holds', ret.done, List!arrlist_add
  PROVE  Promise!Next
<1>1. PICK e \in Elems :
        /\ len < MaxLen /\ op' = "add_last" /\ arg' = List!Arg(0, <<e>>)
        /\ \/ List!Refuse
           \/ \E room \in List!CapFor(len + 1, 0) :
                /\ cap' = room /\ mem' = [List!BlockOf(room) EXCEPT ![len] = e]
                /\ len' = len + 1 /\ List!Succeed({len})
  BY DEF List!arrlist_add, List!NoRoom, List!Called
<1>2. CASE List!Refuse
  BY <1>1, <1>2, ListShares, RefusedIsNoMemory DEF Promise!Next
<1>3. ASSUME NEW room \in List!CapFor(len + 1, 0),
             mem' = [List!BlockOf(room) EXCEPT ![len] = e], len' = len + 1, List!Succeed({len})
      PROVE  Promise!Next
  <2>1. len + 1 \in 0 .. MaxLen
    BY <1>1, MaxAssumption DEF Holds
  <2>2. /\ room \in Nat /\ room >= len + 1
        /\ List!BlockOf(room) \in [0 .. room - 1 -> Elems \cup {Junk}]
        /\ \A j \in 0 .. len - 1 : List!BlockOf(room)[j] = mem[j]
    BY <2>1, ListRoom
  <2>3. len \in Nat /\ len \in 0 .. room - 1 /\ \A j \in 0 .. len - 1 : j \in 0 .. room - 1 /\ j # len
    BY <2>2 DEF Holds
  <2>4. mem'[len] = e /\ \A j \in 0 .. len - 1 : mem'[j] = mem[j]
    BY <1>3, <2>2, <2>3
  <2>5. <<e>> \in Seq(Elems) /\ Len(<<e>>) = 1 /\ <<e>>[1] = e
    OBVIOUS
  <2>6. \A j \in len .. len + 1 - 1 : j = len /\ j - len + 1 = 1
    BY <2>3
  <2>7. Contents' = Contents \o <<e>>
    <3>1. PICK s \in Seq(Elems) : s = <<e>> /\ Len(s) = 1 /\ s[1] = e
      BY <2>5
    <3>2. \A j \in len .. len + Len(s) - 1 : mem'[j] = s[j - len + 1]
      BY <2>4, <2>6, <3>1
    <3>3. len' = len + Len(s)
      BY <1>3, <3>1
    <3>4. Contents' = Contents \o s
      BY <2>4, <3>2, <3>3, ContentsAppended
    <3> QED BY <3>1, <3>4
  <2> QED BY <1>1, <1>3, <2>7
          DEF List!Arg, List!Succeed, List!Return, List!Reply,
              Promise!Next, Promise!AddLast, Promise!Succeeds, Promise!Answers, Promise!Reply
<1> QED BY <1>1, <1>2, <1>3

LEMMA ListInserts ==
  ASSUME ListInv, Holds, Holds', ret.done, List!arrlist_insert
  PROVE  Promise!Next
<1>1. PICK at \in 0 .. MaxLen + 1, e \in Elems :
        /\ len < MaxLen /\ op' = "insert" /\ arg' = List!Arg(at, <<e>>)
        /\ \/ List!Refuse
           \/ /\ at <= len
              /\ \E room \in List!CapFor(len + 1, 0) :
                   /\ mem' = [j \in 0 .. room - 1 |->
                                IF j = at THEN e
                                ELSE List!Slot(IF List!MovesUp(j, at) THEN j - 1 ELSE j)]
                   /\ len' = len + 1 /\ List!Succeed(at .. len)
  BY DEF List!arrlist_insert, List!NoRoom, List!Called
<1>2. CASE List!Refuse
  BY <1>1, <1>2, ListShares, RefusedIsNoMemory DEF Promise!Next
<1>3. ASSUME at <= len, NEW room \in List!CapFor(len + 1, 0), len' = len + 1,
             mem' = [j \in 0 .. room - 1 |->
                       IF j = at THEN e ELSE List!Slot(IF List!MovesUp(j, at) THEN j - 1 ELSE j)],
             List!Succeed(at .. len)
      PROVE  Promise!Next
  <2> DEFINE t == SubSeq(Contents, 1, at) \o <<e>> \o SubSeq(Contents, at + 1, Len(Contents))
  <2>1. /\ len + 1 \in 0 .. MaxLen /\ len \in Nat /\ at \in 0 .. len
        /\ Contents \in Seq(Elems) /\ Len(Contents) = len
    BY <1>1, <1>3, MaxAssumption DEF Holds
  <2>2. /\ t \in Seq(Elems) /\ Len(t) = len + 1
        /\ \A j \in 1 .. len + 1 :
             t[j] = IF j <= at THEN Contents[j] ELSE IF j = at + 1 THEN e ELSE Contents[j - 1]
    <3>1. at \in 0 .. Len(Contents) /\ Len(Contents) + 1 = len + 1
      BY <2>1
    <3> QED BY <2>1, <3>1, InsertedAt
  <2> HIDE DEF t
  <2>3. room \in Nat /\ room >= len + 1
    BY <2>1, ListRoom
  <2>4. \A j \in 0 .. len - 1 : List!Slot(j) = Contents[j + 1]
    <3>1. \A j \in 0 .. len - 1 : List!Slot(j) = mem[j]
      BY <2>1, ListBlock
    <3>2. \A j \in 0 .. len - 1 : j + 1 \in 1 .. len /\ (j + 1) - 1 = j
      BY <2>1
    <3> QED BY <3>1, <3>2 DEF Holds
  <2>5. ASSUME NEW j \in 1 .. len + 1 PROVE mem'[j - 1] = t[j]
    <3>1. j - 1 \in 0 .. room - 1 /\ j - 1 \in 0 .. len /\ at \in Nat
      BY <2>1, <2>3
    <3>2. CASE j = at + 1
      BY <1>3, <2>1, <2>2, <3>1, <3>2
    <3>3. CASE j <= at
      <4>1. mem'[j - 1] = List!Slot(j - 1) /\ j - 1 \in 0 .. len - 1
        BY <1>3, <2>1, <3>1, <3>3 DEF List!MovesUp
      <4>2. (j - 1) + 1 = j /\ t[j] = Contents[j]
        BY <2>1, <2>2, <3>3
      <4>3. List!Slot(j - 1) = Contents[(j - 1) + 1]
        BY <2>4, <4>1
      <4> QED BY <4>1, <4>2, <4>3
    <3>4. CASE j > at + 1
      <4>1. mem'[j - 1] = List!Slot(j - 2) /\ j - 2 \in 0 .. len - 1
        BY <1>3, <2>1, <3>1, <3>4 DEF List!MovesUp
      <4>2. (j - 2) + 1 = j - 1 /\ t[j] = Contents[j - 1]
        BY <2>1, <2>2, <3>4
      <4>3. List!Slot(j - 2) = Contents[(j - 2) + 1]
        BY <2>4, <4>1
      <4> QED BY <4>1, <4>2, <4>3
    <3> QED BY <2>1, <3>2, <3>3, <3>4
  <2>6. Contents' = t
    BY <1>3, <2>2, <2>5, ContentsBecome
  <2>7. arg'.at = at /\ arg'.els = <<e>> /\ op' = "insert" /\ ret' = Promise!Reply(TRUE, 0, <<>>)
    BY <1>1, <1>3 DEF List!Arg, List!Succeed, List!Return, List!Reply, Promise!Reply
  <2>8. Promise!Insert
    BY <2>1, <2>6, <2>7 DEF t, Promise!Insert, Promise!Succeeds, Promise!Answers
  <2> QED BY <2>8 DEF Promise!Next
<1> QED BY <1>1, <1>2, <1>3

LEMMA ListSets ==
  ASSUME ListInv, Holds, Holds', ret.done, List!arrlist_set
  PROVE  Promise!Next
<1>1. PICK at \in 0 .. MaxLen, e \in Elems :
        /\ op' = "set" /\ arg' = List!Arg(at, <<e>>)
        /\ \/ at >= len /\ List!Refuse
           \/ /\ at < len /\ mem' = [mem EXCEPT ![at] = e] /\ UNCHANGED <<len, cap>>
              /\ List!Return(TRUE, 0, <<mem[at]>>, {at})
  BY DEF List!arrlist_set, List!Called
<1>2. /\ len \in Nat /\ Contents \in Seq(Elems) /\ Len(Contents) = len
      /\ \A j \in 1 .. len : Contents[j] = mem[j - 1]
      /\ arg'.at = at /\ arg'.els = <<e>>
  BY <1>1 DEF Holds, List!Arg
<1>3. CASE at >= len /\ List!Refuse
  <2>1. Contents' = Contents /\ ret' = Promise!Reply(FALSE, 0, <<>>)
    BY <1>3, ContentsStay DEF List!Refuse, List!Return, List!Reply, List!fields, Promise!Reply
  <2> QED BY <1>1, <1>2, <1>3, <2>1 DEF Promise!Next, Promise!Replace, Promise!Refused, Promise!Answers
<1>4. CASE /\ at < len /\ mem' = [mem EXCEPT ![at] = e] /\ UNCHANGED <<len, cap>>
           /\ List!Return(TRUE, 0, <<mem[at]>>, {at})
  <2> DEFINE t == [Contents EXCEPT ![at + 1] = e]
  <2>1. at \in 0 .. len - 1 /\ at + 1 \in 1 .. len
    BY <1>2, <1>4, MaxAssumption
  <2>2. t \in Seq(Elems) /\ Len(t) = len
        /\ \A j \in 1 .. len : t[j] = IF j = at + 1 THEN e ELSE Contents[j]
    BY <1>2, <2>1, ExceptSeq
  <2> HIDE DEF t
  <2>3. \A j \in 1 .. len : j - 1 \in DOMAIN mem /\ (j - 1 = at <=> j = at + 1)
    <3>1. \A j \in 1 .. len : j - 1 \in 0 .. len - 1 /\ (j - 1 = at <=> j = at + 1)
      BY <1>2, <2>1
    <3> QED BY <3>1 DEF Holds
  <2>4. \A j \in 1 .. len : mem'[j - 1] = t[j]
    BY <1>2, <1>4, <2>2, <2>3
  <2>5. Contents' = t
    BY <1>4, <2>2, <2>4, ContentsBecome
  <2>6. Contents[at + 1] = mem[at]
    BY <1>2, <2>1
  <2>7. ret' = Promise!Reply(TRUE, 0, <<Contents[at + 1]>>) /\ <<e>>[1] = e
    BY <1>4, <2>6 DEF List!Return, List!Reply, Promise!Reply
  <2>8. Promise!Replace
    BY <1>1, <1>2, <1>4, <2>5, <2>7 DEF t, Promise!Replace, Promise!Answers
  <2> QED BY <2>8 DEF Promise!Next
<1> QED BY <1>1, <1>3, <1>4

(* The position n that a removal at the index at is for.                   *)
LEMMA ListTakes ==
  ASSUME ListInv, Holds, Holds', ret.done, NEW o, NEW at \in Int, List!RemoveOne(o, at),
         NEW n \in Int, n = at + 1
  PROVE  Promise!Take(o, n)
<1>1. op' = o /\ arg' = List!Arg(at, <<>>)
  BY DEF List!RemoveOne, List!Called
<1>2. /\ len \in Nat /\ Contents \in Seq(Elems) /\ Len(Contents) = len
      /\ DOMAIN Contents = 1 .. len /\ \A j \in 1 .. len : Contents[j] = mem[j - 1]
  BY LenProperties DEF Holds
<1>3. CASE at \notin 0 .. len - 1 /\ List!Refuse
  <2>1. Contents' = Contents /\ ret' = Promise!Reply(FALSE, 0, <<>>)
    BY <1>3, ContentsStay DEF List!Refuse, List!Return, List!Reply, List!fields, Promise!Reply
  <2>2. n \notin DOMAIN Contents
    BY <1>2, <1>3
  <2> QED BY <1>1, <2>1, <2>2 DEF Promise!Take, Promise!Refused, Promise!Answers
<1>4. CASE /\ at \in 0 .. len - 1
           /\ mem' = [j \in DOMAIN mem |->
                        IF List!MovesDown(j, at) THEN List!Slot(j + 1) ELSE mem[j]]
           /\ len' = len - 1 /\ UNCHANGED cap /\ List!Return(TRUE, 0, <<mem[at]>>, at .. List!LastRead)
  <2> DEFINE t == SubSeq(Contents, 1, n - 1) \o SubSeq(Contents, n + 1, Len(Contents))
  <2>1. n \in 1 .. len /\ n \in DOMAIN Contents /\ Contents[n] = mem[at]
    BY <1>2, <1>4
  <2>2. /\ t \in Seq(Elems) /\ Len(t) = len - 1
        /\ \A j \in 1 .. len - 1 : t[j] = IF j < n THEN Contents[j] ELSE Contents[j + 1]
    <3>1. n \in 1 .. Len(Contents) /\ Len(Contents) - 1 = len - 1
      BY <1>2, <2>1
    <3> QED BY <1>2, <3>1, RemovedAt
  <2> HIDE DEF t
  <2>3. ASSUME NEW j \in 1 .. len - 1 PROVE mem'[j - 1] = t[j]
    <3>1. /\ j - 1 \in 0 .. len - 1 /\ j \in 0 .. len - 1 /\ j \in 1 .. len /\ j + 1 \in 1 .. len
          /\ (j - 1) + 1 = j /\ (j + 1) - 1 = j
      BY <1>2
    <3>2. j - 1 \in DOMAIN mem
      BY <3>1 DEF Holds
    <3>3. CASE j < n
      <4>1. ~List!MovesDown(j - 1, at)
        BY <1>2, <2>1, <3>3 DEF List!MovesDown
      <4> QED BY <1>2, <1>4, <2>2, <3>1, <3>2, <3>3, <4>1
    <3>4. CASE j >= n
      <4>1. List!MovesDown(j - 1, at)
        BY <1>2, <2>1, <3>4 DEF List!MovesDown
      <4>2. mem'[j - 1] = List!Slot(j)
        BY <1>4, <3>1, <3>2, <4>1
      <4>3. List!Slot(j) = mem[j]
        BY <3>1, ListBlock
      <4>4. t[j] = Contents[j + 1]
        BY <1>2, <2>1, <2>2, <3>4
      <4> QED BY <1>2, <3>1, <4>2, <4>3, <4>4
    <3> QED BY <1>2, <2>1, <3>3, <3>4
  <2>4. Contents' = t
    BY <1>4, <2>2, <2>3, ContentsBecome
  <2>5. ret' = Promise!Reply(TRUE, 0, <<Contents[n]>>)
    BY <1>4, <2>1 DEF List!Return, List!Reply, Promise!Reply
  <2> QED BY <1>1, <2>1, <2>4, <2>5 DEF t, Promise!Take, Promise!RemoveAt, Promise!Answers
<1> QED BY <1>3, <1>4 DEF List!RemoveOne

LEMMA ListRemoves ==
  ASSUME ListInv, Holds, Holds', ret.done,
         List!arrlist_remove \/ List!arrlist_remove_first \/ List!arrlist_remove_last
  PROVE  Promise!Next
<1>1. len \in Nat /\ len = Len(Contents)
  BY DEF Holds
<1>2. CASE List!arrlist_remove
  <2>1. PICK at \in 0 .. MaxLen : List!RemoveOne("remove", at)
    BY <1>2 DEF List!arrlist_remove
  <2>2. arg'.at = at /\ at \in Int /\ at + 1 \in Int
    BY <2>1 DEF List!RemoveOne, List!Called, List!Arg
  <2>3. Promise!Take("remove", at + 1)
    BY <2>1, <2>2, ListTakes
  <2>4. Promise!TakeOne
    BY <2>2, <2>3 DEF Promise!TakeOne
  <2> QED BY <2>4 DEF Promise!Next
<1>3. CASE List!arrlist_remove_first
  <2>1. 0 \in Int /\ 1 \in Int /\ 1 = 0 + 1
    OBVIOUS
  <2>2. Promise!Take("remove_first", 1)
    BY <1>3, <2>1, ListTakes DEF List!arrlist_remove_first
  <2> QED BY <2>2 DEF Promise!TakeOne, Promise!Next
<1>4. CASE List!arrlist_remove_last
  <2>1. len - 1 \in Int /\ len \in Int /\ len = (len - 1) + 1
    BY <1>1
  <2>2. Promise!Take("remove_last", len)
    BY <1>4, <2>1, ListTakes DEF List!arrlist_remove_last
  <2> QED BY <1>1, <2>2 DEF Promise!TakeOne, Promise!Next
<1> QED BY <1>2, <1>3, <1>4

LEMMA ListReverses ==
  ASSUME Holds, Holds', ret.done, List!arrlist_reverse
  PROVE  Promise!Next
<1>1. /\ op' = "reverse" /\ ret' = Promise!Reply(TRUE, 0, <<>>) /\ len' = len
      /\ mem' = [j \in DOMAIN mem |-> mem[IF j < len THEN len - j - 1 ELSE j]]
  BY DEF List!arrlist_reverse, List!Called, List!Succeed, List!Return, List!Reply, Promise!Reply
<1>2. /\ len \in Nat /\ Contents \in Seq(Elems) /\ Len(Contents) = len
      /\ 0 .. len - 1 \subseteq DOMAIN mem
      /\ \A j \in 1 .. len : Contents[j] = mem[j - 1]
  BY DEF Holds
<1> DEFINE t == [j \in 1 .. len |-> Contents[(len - j) + 1]]
<1>3. \A j \in 1 .. len : (len - j) + 1 \in 1 .. len
  BY <1>2
<1>4. \A j \in 1 .. len : Contents[(len - j) + 1] \in Elems
  BY <1>2, <1>3
<1>5. t \in Seq(Elems) /\ Len(t) = len /\ \A j \in 1 .. len : t[j] = Contents[(len - j) + 1]
  BY <1>2, <1>4
<1> HIDE DEF t
<1>6. ASSUME NEW j \in 1 .. len PROVE mem'[j - 1] = t[j]
  <2>1. j - 1 \in 0 .. len - 1 /\ j - 1 < len /\ len - (j - 1) - 1 = ((len - j) + 1) - 1
    BY <1>2
  <2>2. mem'[j - 1] = mem[len - (j - 1) - 1]
    BY <1>1, <1>2, <2>1
  <2>3. Contents[(len - j) + 1] = mem[((len - j) + 1) - 1]
    BY <1>2, <1>3
  <2> QED BY <1>5, <2>1, <2>2, <2>3
<1>7. Contents' = t
  BY <1>1, <1>5, <1>6, ContentsBecome
<1>8. Promise!Reverse(Contents) = t
  BY <1>2 DEF t, Promise!Reverse
<1> QED BY <1>1, <1>7, <1>8 DEF Promise!Next, Promise!Backwards, Promise!Succeeds, Promise!Answers

LEMMA ListSequence ==
  ASSUME ListInv, Holds, Holds', ret.done, List!Next
  PROVE  Promise!Next
<1>1. CASE List!arrlist_ensure_capacity \/ List!arrlist_compact
  <2>1. 0 \in Nat
    OBVIOUS
  <2> QED BY <1>1, <2>1, ListShares, RoomIsMade, CompactKeeps DEF Promise!Next
<1>2. CASE List!cpy_free_arrlist \/ List!free_arrlist
  BY <1>2, ListShares, HandsOver, FreeIsEmpty DEF Promise!Next
<1>3. CASE List!arrlist_clear
  BY <1>3, ContentsEmpty
     DEF List!arrlist_clear, List!Called, List!Succeed, List!Return, List!Reply,
         Promise!Next, Promise!Empty, Promise!Succeeds, Promise!Answers, Promise!Reply
<1>4. CASE List!arrlist_foreach
  <2>1. List!Contents = Contents /\ Contents' = Contents
    BY <1>4, ContentsStay
       DEF List!arrlist_foreach, List!Contents, Contents, List!Slot, Slot, List!fields
  <2>2. op' = "foreach" /\ ret' = Promise!Reply(TRUE, Len(Contents), Contents)
    BY <1>4, <2>1
       DEF List!arrlist_foreach, List!Called, List!Return, List!Reply, Promise!Reply, Holds
  <2>3. Promise!Look
    BY <2>1, <2>2 DEF Promise!Look, Promise!Answers
  <2> QED BY <2>3 DEF Promise!Next
<1> QED BY <1>1, <1>2, <1>3, <1>4, ListAdds, ListInserts, ListSets, ListRemoves, ListReverses DEF List!Next

-------------------------------------------------------------------------------
(* The string buffer.                                                      *)
LEMMA StringShares ==
  /\ String!strbuf_ensure_capacity => EnsureCapacity(1)
  /\ String!strbuf_compact => Compact(1)
  /\ String!cpy_free_strbuf => CpyFree(String!AsRead(String!Slot(len)))
  /\ String!free_strbuf => Free
  /\ String!Refuse => Refuse
  /\ String!Contents = Contents
<1> USE DEF Called, String!Called, Arg, String!Arg, Return, String!Return, Reply, String!Reply,
            Refuse, String!Refuse, fields, String!fields
<1>1. /\ \A n : String!Enough(n) = Enough(n)
      /\ \A n : String!Resized(n) = Resized(n)
      /\ \A j : String!Slot(j) = Slot(j)
      /\ String!Contents = Contents /\ String!NoBlock = NoBlock
  BY DEF String!Enough, Enough, String!Resized, Resized, String!Slot, Slot, String!Contents, Contents,
         String!NoBlock, NoBlock
<1>2. \A n, k : String!CapFor(n, k) = CapFor(n, k)
  BY <1>1 DEF String!CapFor, CapFor
<1>3. \A n : String!BlockOf(n) = BlockOf(n)
  BY <1>1 DEF String!BlockOf, BlockOf
<1>4. String!strbuf_ensure_capacity => EnsureCapacity(1)
  BY <1>1, <1>2, <1>3
     DEF String!strbuf_ensure_capacity, String!EnsureCapacity, EnsureCapacity, String!NoRoom, NoRoom,
         String!Succeed, Succeed
<1>5. (String!FreeIt => FreeIt) /\ (String!Released => Released)
  BY <1>1 DEF String!FreeIt, FreeIt, String!Released, Released
<1>6. String!strbuf_compact => Compact(1)
  BY <1>1, <1>5 DEF String!strbuf_compact, String!Compact, Compact, String!Succeed, Succeed
<1>7. String!cpy_free_strbuf => CpyFree(String!AsRead(String!Slot(len)))
  BY <1>1, <1>5 DEF String!cpy_free_strbuf, String!CpyFree, CpyFree
<1>8. String!free_strbuf => Free
  BY <1>5 DEF String!free_strbuf, String!Free, Free, String!Succeed, Succeed
<1>9. String!Refuse => Refuse
  OBVIOUS
<1> QED BY <1>1, <1>4, <1>6, <1>7, <1>8, <1>9

LEMMA StringAppends ==
  ASSUME StringInv, Holds, Holds', ret.done, NEW s \in Seq(Elems), String!AppendStr(s)
  PROVE  fault' = "null" \/ Promise!Next
<1>1. len + Len(s) <= MaxLen /\ op' = "add_last" /\ arg' = String!Arg(0, s)
  BY DEF String!AppendStr, String!Called
<1>2. CASE String!Refuse
  BY <1>1, <1>2, StringShares, RefusedIsNoMemory DEF Promise!Next
<1>3. CASE String!Crash
  BY <1>3 DEF String!Crash
<1>4. ASSUME NEW room \in String!CapFor(len + Len(s), 1),
             mem' = String!Appended(String!BlockOf(room), s), len' = len + Len(s),
             String!Succeed(len .. len + Len(s))
      PROVE  Promise!Next
  <2> DEFINE m == String!BlockOf(room)
  <2>1. len \in Nat /\ Len(s) \in Nat /\ len + Len(s) \in 0 .. MaxLen
    BY <1>1, MaxAssumption DEF Holds
  <2>2. /\ room \in Nat /\ room >= len + Len(s)
        /\ \E k \in {room, room + 1} : IsString(m, k, len)
        /\ \A j \in DOMAIN mem : m[j] = mem[j]
    BY <2>1, StringRoom
  <2>3. PICK k \in {room, room + 1} : DOMAIN m = 0 .. k - 1
    BY <2>2 DEF IsString
  <2>4. \A j \in 0 .. len - 1 : m[j] = mem[j]
    BY <2>2 DEF Holds
  <2> HIDE DEF m
  <2>5. mem' = [j \in 0 .. k - 1 |->
                  IF j = len + Len(s) THEN NUL
                  ELSE IF j \in len .. len + Len(s) - 1 THEN s[j - len + 1] ELSE m[j]]
    BY <1>4, <2>3 DEF String!Appended, String!Terminate, String!Placed, m
  <2>6. \A j \in 0 .. len - 1 : mem'[j] = mem[j]
    <3>1. \A j \in 0 .. len - 1 :
            j \in 0 .. k - 1 /\ j # len + Len(s) /\ j \notin len .. len + Len(s) - 1
      BY <2>1, <2>2, <2>3
    <3> QED BY <2>4, <2>5, <3>1
  <2>7. \A j \in len .. len + Len(s) - 1 : mem'[j] = s[j - len + 1]
    <3>1. \A j \in len .. len + Len(s) - 1 : j \in 0 .. k - 1 /\ j # len + Len(s)
      BY <2>1, <2>2, <2>3
    <3> QED BY <2>5, <3>1
  <2>8. Contents' = Contents \o s
    BY <1>4, <2>6, <2>7, ContentsAppended
  <2> QED BY <1>1, <1>4, <2>8
          DEF String!Arg, String!Succeed, String!Return, String!Reply,
              Promise!Next, Promise!AddLast, Promise!Succeeds, Promise!Answers, Promise!Reply
<1> QED BY <1>2, <1>3, <1>4 DEF String!AppendStr, String!NoRoom

(* The block of a string handed over.                                      *)
LEMMA StringHandsOver ==
  ASSUME StringInv, Holds, Holds', ret.done, String!cpy_free_strbuf
  PROVE  String!Unended \/ Promise!Next
<1> DEFINE handed == String!AsRead(String!Slot(len))
<1>1. CpyFree(handed)
  BY StringShares
<1>2. CASE len > 0 => handed = Contents
  <2> HIDE DEF handed
  <2> QED BY <1>1, <1>2, HandsOver DEF Promise!Next
<1>3. CASE len > 0 /\ handed # Contents
  <2>1. String!Slot(len) # NUL /\ handed = Append(Contents, String!Slot(len))
    BY <1>3, StringShares DEF String!AsRead
  <2>2. ~String!IsNull
    <3>1. 0 \in DOMAIN mem
      BY <1>3 DEF Holds
    <3> QED BY <3>1 DEF String!IsNull, String!NoBlock
  <2>3. ~String!Terminated
    BY <2>1, <2>2 DEF String!Terminated
  <2>4. op' = "cpy_free" /\ ret' = Reply(TRUE, len, handed)
    <3>1. len # 0
      BY <1>3 DEF Holds
    <3> HIDE DEF handed
    <3> QED BY ONLY <1>1, <3>1 DEF CpyFree, Called
  <2>5. Contents' = <<>>
    BY <1>1, FreeEmpties DEF CpyFree
  <2>6. String!Contents' = <<>> /\ len = Len(String!Contents)
    BY <2>5, StringShares DEF Holds, String!Contents, Contents, String!Slot, Slot
  <2>7. String!Contents = Contents
    BY StringShares
  <2>8. ret' = String!Reply(TRUE, Len(String!Contents), Append(String!Contents, String!Slot(len)))
    BY <2>1, <2>4, <2>6, <2>7 DEF String!Reply, Reply
  <2> QED BY ONLY <2>3, <2>4, <2>6, <2>8 DEF String!Unended
<1> QED BY <1>2, <1>3

LEMMA StringSequence ==
  ASSUME StringInv, Holds, Holds', ret.done, String!Next
  PROVE  fault' = "null" \/ String!Unended \/ Promise!Next
<1>1. CASE String!strbuf_ensure_capacity \/ String!strbuf_compact
  <2>1. 1 \in Nat
    OBVIOUS
  <2> QED BY <1>1, <2>1, StringShares, RoomIsMade, CompactKeeps DEF Promise!Next
<1>2. CASE String!cpy_free_strbuf
  BY <1>2, StringHandsOver
<1>3. CASE String!strbuf_clear
  <2>1. CASE String!Crash
    BY <2>1 DEF String!Crash
  <2>2. CASE len' = 0 /\ String!Succeed({0})
    BY <1>3, <2>2, ContentsEmpty
       DEF String!strbuf_clear, String!Called, String!Succeed, String!Return, String!Reply,
           Promise!Next, Promise!Empty, Promise!Succeeds, Promise!Answers, Promise!Reply
  <2> QED BY <1>3, <2>1, <2>2 DEF String!strbuf_clear
<1>4. CASE String!strbuf_copy
  <2>1. CASE String!Crash
    BY <2>1 DEF String!Crash
  <2>2. CASE UNCHANGED String!fields /\ ret' = String!Reply(TRUE, len, String!AsRead(Junk))
    <3>1. UNCHANGED String!Contents /\ len = Len(String!Contents)
      BY <2>2, StringShares DEF String!fields, String!Contents, String!Slot, Holds
    <3>2. op' = "copy"
      BY <1>4 DEF String!strbuf_copy, String!Called
    <3> QED BY <2>2, <3>1, <3>2 DEF String!Unended
  <2> QED BY <1>4, <2>1, <2>2 DEF String!strbuf_copy
<1>5. CASE String!strbuf_append_ch \/ String!strbuf_append_nstr
  <2>1. \A s \in Texts : s \in Seq(Elems)
    BY TextsAreStrings
  <2>2. \A ch \in Elems : <<ch>> \in Seq(Elems)
    OBVIOUS
  <2> QED BY <1>5, <2>1, <2>2, StringAppends DEF String!strbuf_append_ch, String!strbuf_append_nstr
<1>6. CASE String!free_strbuf
  BY <1>6, StringShares, FreeIsEmpty DEF Promise!Next
<1> QED BY <1>1, <1>2, <1>3, <1>4, <1>5, <1>6 DEF String!Next

-------------------------------------------------------------------------------
(* Every call is answered, unless it follows a null pointer, and none is   *)
(* made after that.                                                        *)
LEMMA ListAnswers == List!Next => fault # "null" /\ ret'.done
<1> SUFFICES ASSUME List!Next PROVE fault # "null" /\ ret'.done
  OBVIOUS
<1>1. \A x, n, s : List!Reply(x, n, s).done
  BY DEF List!Reply
<1>2. \A x, n, s, z : List!Return(x, n, s, z) => ret'.done
  BY <1>1 DEF List!Return
<1>3. (List!Refuse => ret'.done) /\ \A z : List!Succeed(z) => ret'.done
  BY <1>2 DEF List!Refuse, List!Succeed
<1>4. \A x, y : List!Called(x, y) => fault # "null"
  BY DEF List!Called
<1>5. CASE List!arrlist_ensure_capacity \/ List!arrlist_compact \/ List!cpy_free_arrlist \/ List!free_arrlist
  BY <1>1, <1>3, <1>4, <1>5
     DEF List!arrlist_ensure_capacity, List!EnsureCapacity, List!NoRoom, List!arrlist_compact, List!Compact,
         List!cpy_free_arrlist, List!CpyFree, List!free_arrlist, List!Free
<1>6. CASE List!arrlist_clear \/ List!arrlist_reverse \/ List!arrlist_foreach
  BY <1>2, <1>3, <1>4, <1>6 DEF List!arrlist_clear, List!arrlist_reverse, List!arrlist_foreach
<1>7. CASE List!arrlist_add \/ List!arrlist_insert \/ List!arrlist_set
  BY <1>2, <1>3, <1>4, <1>7 DEF List!arrlist_add, List!arrlist_insert, List!arrlist_set, List!NoRoom
<1>8. \A o, at : List!RemoveOne(o, at) => fault # "null" /\ ret'.done
  BY <1>2, <1>3, <1>4 DEF List!RemoveOne
<1>9. CASE List!arrlist_remove \/ List!arrlist_remove_first \/ List!arrlist_remove_last
  BY <1>8, <1>9 DEF List!arrlist_remove, List!arrlist_remove_first, List!arrlist_remove_last
<1> QED BY <1>5, <1>6, <1>7, <1>9 DEF List!Next

LEMMA StringAnswers == String!Next => fault # "null" /\ (fault' # "null" => ret'.done)
<1> SUFFICES ASSUME String!Next PROVE fault # "null" /\ (fault' # "null" => ret'.done)
  OBVIOUS
<1>1. \A x, n, s : String!Reply(x, n, s).done
  BY DEF String!Reply
<1>2. \A x, n, s, z : String!Return(x, n, s, z) => ret'.done
  BY <1>1 DEF String!Return
<1>3. (String!Refuse => ret'.done) /\ \A z : String!Succeed(z) => ret'.done
  BY <1>2 DEF String!Refuse, String!Succeed
<1>4. \A x, y : String!Called(x, y) => fault # "null"
  BY DEF String!Called
<1>5. String!Crash => fault' = "null"
  BY DEF String!Crash
<1>6. CASE \/ String!strbuf_ensure_capacity \/ String!strbuf_compact
           \/ String!cpy_free_strbuf \/ String!free_strbuf
  BY <1>1, <1>3, <1>4, <1>6
     DEF String!strbuf_ensure_capacity, String!EnsureCapacity, String!NoRoom, String!strbuf_compact,
         String!Compact, String!cpy_free_strbuf, String!CpyFree, String!free_strbuf, String!Free
<1>7. CASE String!strbuf_copy \/ String!strbuf_clear
  BY <1>1, <1>3, <1>4, <1>5, <1>7 DEF String!strbuf_copy, String!strbuf_clear
<1>8. \A s : String!AppendStr(s) => fault # "null" /\ (fault' # "null" => ret'.done)
  BY <1>3, <1>4, <1>5 DEF String!AppendStr, String!NoRoom
<1>9. CASE String!strbuf_append_ch \/ String!strbuf_append_nstr
  BY <1>8, <1>9 DEF String!strbuf_append_ch, String!strbuf_append_nstr
<1> QED BY <1>6, <1>7, <1>9 DEF String!Next

-------------------------------------------------------------------------------
Answered == fault # "null" => ret.done

LEMMA AnsweredStep == Answered /\ [PartNext]_partvars => Answered'
<1> SUFFICES ASSUME Answered, [PartNext]_partvars PROVE Answered'
  OBVIOUS
<1>1. CASE UNCHANGED <<fault, ret>>
  BY <1>1 DEF Answered
<1>2. CASE List!Next \/ String!Next
  BY <1>2, ListAnswers, StringAnswers DEF Answered
<1> QED BY <1>1, <1>2 DEF PartNext, partvars, blockvars

LEMMA SequenceStep ==
  ASSUME BlockInv, Answered, Holds, Holds', [PartNext]_partvars
  PROVE  [\/ Promise!Next
          \/ part = "string" /\ (fault' = "null" \/ String!Unended)]_<<Contents, op, arg, ret>>
<1>1. CASE UNCHANGED blockvars
  <2>1. len' = len /\ mem' = mem /\ UNCHANGED <<op, arg, ret>>
    BY <1>1 DEF blockvars, fields
  <2>2. Contents' = Contents
    BY <2>1, ContentsStay
  <2> QED BY <2>1, <2>2
<1>2. CASE part = "list" /\ List!Next
  <2>1. ListInv /\ ret.done
    BY <1>2, ListAnswers DEF BlockInv, Answered
  <2> QED BY <1>2, <2>1, ListSequence
<1>3. CASE part = "string" /\ String!Next
  <2>1. StringInv /\ ret.done
    BY <1>3, StringAnswers DEF BlockInv, Answered
  <2> QED BY <1>3, <2>1, StringSequence
<1> QED BY <1>1, <1>2, <1>3 DEF PartNext, partvars

LEMMA SequenceInit == PartInit => Promise!Init
<1> SUFFICES ASSUME PartInit, Holds PROVE Promise!Init
  BY BlockInit, BlockHolds
<1>1. len = 0 /\ ret = Promise!Reply(TRUE, 0, <<>>)
  BY DEF PartInit, EmptyBlock, Reply, Promise!Reply
<1>2. Contents = <<>>
  BY <1>1, EmptySeq DEF Holds
<1> QED BY <1>1, <1>2 DEF Promise!Init

(* The contents of an array list, and the answers to its calls, are those  *)
(* of a finite sequence, wherever realloc or calloc fails and the block    *)
(* moves.  So are a string buffer's, up to a call that follows a null      *)
(* pointer, and but for the end of the strings it gives out: a copy is     *)
(* never terminated where its characters end, and a block handed over is   *)
(* not when it was not.                                                    *)
THEOREM BlockIsSequence == PartSpec => ImplementsSequence
<1>1. PartInit => BlockInv /\ Answered /\ Promise!Init
  <2>1. PartInit => Answered
    BY DEF PartInit, EmptyBlock, Reply, Answered
  <2> QED BY <2>1, BlockInit, SequenceInit
<1>2. BlockInv /\ Answered /\ [PartNext]_partvars => BlockInv' /\ Answered'
  BY BlockStep, AnsweredStep
<1>3. BlockInv /\ Answered /\ Holds /\ Holds' /\ [PartNext]_partvars =>
        [\/ Promise!Next
         \/ part = "string" /\ (fault' = "null" \/ String!Unended)]_<<Contents, op, arg, ret>>
  BY SequenceStep
<1> QED BY <1>1, <1>2, <1>3, BlockHolds, PTL DEF PartSpec, ImplementsSequence

=================================================================================
